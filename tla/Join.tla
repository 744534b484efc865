-------------------------------- MODULE Join --------------------------------
(***************************************************************************)
(* The life of a thread in user space: thread_create_handle,               *)
(* thread_trampoline and thread_join_handle of userland/include/synch.h,   *)
(* as the demos of userland/src/threads.c call them (run_race_demo,        *)
(* run_mutex_demo, run_prod_cons_demo): each creates two threads and joins *)
(* them, and option 4 runs one demo after the other.                       *)
(*                                                                         *)
(* Handle h belongs to demo (h + 1) \div 2.  malloc hands out any stack    *)
(* that is free, or none; clone fails when the process table is full.      *)
(***************************************************************************)
EXTENDS Naturals, FiniteSets

CONSTANTS
  DEMOS,     \* demos run one after the other
  Stacks,    \* blocks of memory malloc finds for a stack
  SLOTS      \* slots of the process table left for threads

ASSUME DemosAssumption == DEMOS \in Nat
ASSUME SlotsAssumption == SLOTS \in Nat

Handles == 1 .. 2 * DEMOS
NoStack == "none"

VARIABLES
  op,       \* what the main thread does: create, test, futex, asleep, free, done
  on,       \* the handle it does it to
  exited,   \* exited of each handle
  ret,      \* TRUE when the result of the thread is stored
  stack,    \* stack_mem of each handle
  free,     \* blocks malloc may hand out
  pc        \* where each thread is: none, func, ret, wake, exit, gone, or
            \* unset when its handle was never filled in

vars == <<op, on, exited, ret, stack, free, pc>>

Init ==
  /\ op = "create" /\ on = 1
  /\ exited = [h \in Handles |-> FALSE]
  /\ ret = [h \in Handles |-> FALSE]
  /\ stack = [h \in Handles |-> NoStack]
  /\ free = Stacks
  /\ pc = [h \in Handles |-> "none"]

\* Threads that occupy a slot of the process table.
Live == {h \in Handles : pc[h] \notin {"none", "unset", "gone"}}

\* After t1 comes t2; a demo that has created or joined both goes on.
AfterCreate ==
  IF on % 2 = 1 THEN op' = "create" /\ on' = on + 1 ELSE op' = "test" /\ on' = on - 1

AfterJoin ==
  IF on % 2 = 1 THEN op' = "test" /\ on' = on + 1
  ELSE IF on = 2 * DEMOS THEN op' = "done" /\ UNCHANGED on
  ELSE op' = "create" /\ on' = on + 1

-----------------------------------------------------------------------------
(* The main thread.                                                         *)

thread_create_handle ==
  /\ op = "create"
  /\ Cardinality(Live) < SLOTS
  /\ \E s \in free :
       /\ stack' = [stack EXCEPT ![on] = s]
       /\ free' = free \ {s}
  /\ pc' = [pc EXCEPT ![on] = "func"]
  /\ AfterCreate
  /\ UNCHANGED <<exited, ret>>

\* malloc finds no memory: the handle is not filled in, so exited and stack_mem
\* are whatever the demo's stack held there, and the demos do not look at the
\* result.
MallocFails ==
  /\ op = "create"
  /\ \E e \in BOOLEAN, s \in Stacks \cup {NoStack} :
       /\ exited' = [exited EXCEPT ![on] = e]
       /\ stack' = [stack EXCEPT ![on] = s]
  /\ pc' = [pc EXCEPT ![on] = "unset"]
  /\ AfterCreate
  /\ UNCHANGED <<ret, free>>

\* clone returns -ENOMEM: the stack is given back, stack_mem keeps its
\* address, and the demos do not look at the result.
CloneFails ==
  /\ op = "create"
  /\ Cardinality(Live) >= SLOTS
  /\ \E s \in free : stack' = [stack EXCEPT ![on] = s]
  /\ AfterCreate
  /\ UNCHANGED <<exited, ret, free, pc>>

\* thread_join_handle: while (!handle->exited) ...
JoinTest ==
  /\ op = "test"
  /\ op' = IF exited[on] THEN "free" ELSE "futex"
  /\ UNCHANGED <<on, exited, ret, stack, free, pc>>

\* Mutant: FUTEX_WAIT sleeps without a comparison.
JoinFutex_NoCompare ==
  /\ op = "futex"
  /\ op' = "asleep"
  /\ UNCHANGED <<on, exited, ret, stack, free, pc>>

\* FUTEX_WAIT sleeps if exited is still 0.
JoinFutex ==
  /\ op = "futex"
  /\ op' = IF exited[on] THEN "test" ELSE "asleep"
  /\ UNCHANGED <<on, exited, ret, stack, free, pc>>

\* Mutant: stack_mem is not reset.
JoinFree_Keep ==
  /\ op = "free"
  /\ free' = free \cup {stack[on]}
  /\ AfterJoin
  /\ UNCHANGED <<exited, ret, stack, pc>>

JoinFree ==
  /\ op = "free"
  /\ free' = IF stack[on] = NoStack THEN free ELSE free \cup {stack[on]}
  /\ stack' = [stack EXCEPT ![on] = NoStack]
  /\ AfterJoin
  /\ UNCHANGED <<exited, ret, pc>>

-----------------------------------------------------------------------------
(* thread_trampoline.                                                       *)

Go(h, from, to) == pc[h] = from /\ pc' = [pc EXCEPT ![h] = to]

StoreRet(h) ==
  /\ Go(h, "func", "ret")
  /\ ret' = [ret EXCEPT ![h] = TRUE]
  /\ UNCHANGED <<op, on, exited, stack, free>>

SetExited(h) ==
  /\ Go(h, "ret", "wake")
  /\ exited' = [exited EXCEPT ![h] = TRUE]
  /\ UNCHANGED <<op, on, ret, stack, free>>

\* FUTEX_WAKE of the main thread if it sleeps on this handle.  The handles of
\* a later demo may be at the address of this one: its join may be woken too.
WakeJoiner(h) ==
  /\ Go(h, "wake", "exit")
  /\ \/ op = "asleep" /\ on % 2 = h % 2 /\ op' = "test"
     \/ ~(op = "asleep" /\ on = h) /\ UNCHANGED op
  /\ UNCHANGED <<on, exited, ret, stack, free>>

\* SYS_EXIT: only now the thread leaves its user stack.
Exit(h) ==
  /\ Go(h, "exit", "gone")
  /\ UNCHANGED <<op, on, exited, ret, stack, free>>

-----------------------------------------------------------------------------
Main ==
  \/ thread_create_handle \/ MallocFails \/ CloneFails
  \/ JoinTest \/ JoinFutex \/ JoinFree

Thread(h) == StoreRet(h) \/ SetExited(h) \/ WakeJoiner(h) \/ Exit(h)

Next == Main \/ \E h \in Handles : Thread(h)

Spec == Init /\ [][Next]_vars

\* Round robin: every ready thread runs again and again.
FairSpec == Spec /\ WF_vars(Main) /\ \A h \in Handles : WF_vars(Thread(h))

-----------------------------------------------------------------------------
(* Properties.                                                              *)

\* clone did create the thread of h.
Created(h) == pc[h] \notin {"none", "unset"}

\* The main thread has returned from the join of h.
Joined(h) == Created(h) /\ stack[h] = NoStack

TypeOK ==
  /\ op \in {"create", "test", "futex", "asleep", "free", "done"}
  /\ on \in Handles
  /\ exited \in [Handles -> BOOLEAN] /\ ret \in [Handles -> BOOLEAN]
  /\ stack \in [Handles -> Stacks \cup {NoStack}]
  /\ free \subseteq Stacks
  /\ pc \in [Handles -> {"none", "func", "ret", "wake", "exit", "gone", "unset"}]

\* thread_join_handle returns only after the thread's function has returned
\* and its result is stored.
JoinedHasResult == \A h \in Handles : Joined(h) => ret[h]

\* As long as malloc has not failed, no stack is freed twice, not even the one
\* clone's failure gave back, and none belongs to two threads that have not been
\* joined.
StackFreedOnce ==
  (\A h \in Handles : pc[h] # "unset") =>
    /\ op = "free" => stack[on] \notin free
    /\ \A g, h \in Handles :
         Created(g) /\ Created(h) /\ stack[g] = stack[h] /\ stack[g] # NoStack => g = h

\* thread_create and thread_join_handle: a join follows the result, and stacks
\* are neither freed twice nor shared.
JoinSound == TypeOK /\ JoinedHasResult /\ StackFreedOnce

\* A join of a thread that clone did create returns: no wake is lost between
\* the test of exited and the sleep, whatever old threads still do.
JoinReturns ==
  \A h \in Handles :
    (op = "test" /\ on = h /\ Created(h)) ~> (op = "free" /\ on = h)
=============================================================================
