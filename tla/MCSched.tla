------------------------------- MODULE MCSched -------------------------------
(***************************************************************************)
(* Sched for TLC.  A run says which system calls the program of each pid   *)
(* makes.                                                                  *)
(***************************************************************************)
EXTENDS Sched

ShortSleeps == {<<0, 0>>, <<0, 10000001>>}   \* one tick and two ticks

\* Pids 1 and 2 create processes and wait for them, and pid 1 and pid 3 sleep
\* and wait on a futex, so that the tick falls back to a pid 1 that is blocked.
\* Pid 3 creates a thread, also in the slot that a wait4 is releasing; pid 4 is
\* that thread, or a process, and creates nothing.
Families ==
  [p \in Pids |->
     CASE p = 1 -> {"fork", "wait", "nanosleep", "futex", "exit", "fault"}
       [] p = 2 -> {"fork", "wait", "exit"}
       [] p = 3 -> {"clone", "nanosleep", "futex", "yield", "exit", "fault"}
       [] OTHER -> {"execve", "set_tid", "thread_exit", "exit"}]

\* Programs that do not kill: kill frees the slot of a child that a task may be
\* waiting for, or about to reap.
NextUnkilled ==
  \/ scheduler_tick \/ KernelStep \/ power_off
  \/ process_fork \/ process_clone \/ process_execve \/ sys_set_tid_address
  \/ futex_wait \/ futex_wake \/ sys_nanosleep \/ schedule_yield
  \/ process_exit \/ exception_handler \/ process_wait4

UnkilledSpec == Init /\ [][NextUnkilled]_vars /\ Fairness

\* Tasks that have children sleep.
Parents ==
  [p \in Pids |-> IF p = 1 THEN {"fork", "wait"} ELSE {"fork", "nanosleep", "exit"}]
=============================================================================
