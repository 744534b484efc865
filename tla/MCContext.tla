------------------------------ MODULE MCContext ------------------------------
(***************************************************************************)
(* Context, and with it Sched, for TLC.  Every call is made by some task,  *)
(* and all those that change contexts by one.                              *)
(***************************************************************************)
EXTENDS Context, MCSched

Mixture ==
  [p \in Pids |->
     CASE p = 1 -> {"fork", "clone", "nanosleep"}
       [] p = 2 -> {"fork", "clone", "execve", "arch_prctl", "kill", "futex", "exit",
                    "thread_exit"}
       [] OTHER -> {"arch_prctl", "set_tid", "futex", "wait", "yield", "exit",
                    "thread_exit", "fault"}]
=============================================================================
