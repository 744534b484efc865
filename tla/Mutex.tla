-------------------------------- MODULE Mutex --------------------------------
(***************************************************************************)
(* mutex_lock and mutex_unlock of userland/include/synch.h, used by the    *)
(* threads of /bin/threads that increment a shared counter (mutex_worker   *)
(* in userland/src/threads.c).                                             *)
(*                                                                         *)
(* User code can be preempted between any two instructions, so every       *)
(* access to shared memory is a step.  The futex system calls run with     *)
(* interrupts disabled: the test of the word and the sleep are one step.   *)
(* The scheduler is abstracted to an arbitrary interleaving; module Sched  *)
(* shows that a ready task is dispatched.                                  *)
(***************************************************************************)
EXTENDS Naturals, FiniteSets

CONSTANTS
  N,            \* number of worker threads
  ITERATIONS    \* increments of each

ASSUME ThreadsAssumption == N \in Nat
ASSUME IterationsAssumption == ITERATIONS \in Nat \ {0}

Threads == 1 .. N

Labels ==
  {"cas", "xchg", "wait", "asleep", "load", "store", "dec", "reset", "wake", "done"}

VARIABLES
  val,       \* the futex word: 0 free, 1 locked, 2 locked with waiters
  pc,        \* where each thread is
  left,      \* iterations each thread has left
  counter,   \* synced_counter
  temp       \* the value each thread loaded from it

vars == <<val, pc, left, counter, temp>>

TypeOK ==
  /\ val \in 0 .. 2
  /\ pc \in [Threads -> Labels]
  /\ left \in [Threads -> Nat]
  /\ counter \in Nat
  /\ temp \in [Threads -> Nat]

\* mutex_init, synced_counter = 0, and the workers are created.
Init ==
  /\ val = 0
  /\ pc = [t \in Threads |-> "cas"]
  /\ left = [t \in Threads |-> ITERATIONS]
  /\ counter = 0
  /\ temp = [t \in Threads |-> 0]

Go(t, label) == pc' = [pc EXCEPT ![t] = label]

-----------------------------------------------------------------------------
(* mutex_lock.                                                              *)

\* Mutant: a plain load and store instead of the compare-and-exchange.
Cas_Blind(t) ==
  /\ pc[t] = "cas"
  /\ val' = IF val = 0 THEN 1 ELSE val
  /\ Go(t, "load")
  /\ UNCHANGED <<left, counter, temp>>

\* Fast path: compare-and-exchange 0 with 1; a failure tells the value.
Cas(t) ==
  /\ pc[t] = "cas"
  /\ IF val = 0
     THEN val' = 1 /\ Go(t, "load")
     ELSE UNCHANGED val /\ Go(t, IF val = 2 THEN "wait" ELSE "xchg")
  /\ UNCHANGED <<left, counter, temp>>

\* Mutant: the slow path locks with 1, and forgets the other waiters.
Xchg_One(t) ==
  /\ pc[t] = "xchg"
  /\ val' = IF val = 0 THEN 1 ELSE 2
  /\ Go(t, IF val = 0 THEN "load" ELSE "wait")
  /\ UNCHANGED <<left, counter, temp>>

\* Exchange with 2; the mutex is taken if it was free.
Xchg(t) ==
  /\ pc[t] = "xchg"
  /\ val' = 2
  /\ Go(t, IF val = 0 THEN "load" ELSE "wait")
  /\ UNCHANGED <<left, counter, temp>>

\* FUTEX_WAIT sleeps only if the word is still 2, else it returns -EAGAIN.
FutexWait(t) ==
  /\ pc[t] = "wait"
  /\ Go(t, IF val = 2 THEN "asleep" ELSE "xchg")
  /\ UNCHANGED <<val, left, counter, temp>>

-----------------------------------------------------------------------------
(* synced_counter++ in the critical section.                                *)

Load(t) ==
  /\ pc[t] = "load"
  /\ temp' = [temp EXCEPT ![t] = counter]
  /\ Go(t, "store")
  /\ UNCHANGED <<val, left, counter>>

Store(t) ==
  /\ pc[t] = "store"
  /\ counter' = temp[t] + 1
  /\ Go(t, "dec")
  /\ UNCHANGED <<val, left, temp>>

-----------------------------------------------------------------------------
(* mutex_unlock and the next iteration.                                     *)

AfterUnlock(t) == IF left[t] = 1 THEN "done" ELSE "cas"

\* Fetch-and-sub; if the old value was 1 nobody waits.
FetchSub(t) ==
  /\ pc[t] = "dec"
  /\ val' = val - 1
  /\ IF val = 1
     THEN Go(t, AfterUnlock(t)) /\ left' = [left EXCEPT ![t] = left[t] - 1]
     ELSE Go(t, "reset") /\ UNCHANGED left
  /\ UNCHANGED <<counter, temp>>

Reset(t) ==
  /\ pc[t] = "reset"
  /\ val' = 0
  /\ Go(t, "wake")
  /\ UNCHANGED <<left, counter, temp>>

Asleep == {t \in Threads : pc[t] = "asleep"}

\* Mutant: FUTEX_WAKE is not called.
FutexWake_Skip(t) ==
  /\ pc[t] = "wake"
  /\ Go(t, AfterUnlock(t))
  /\ left' = [left EXCEPT ![t] = left[t] - 1]
  /\ UNCHANGED <<val, counter, temp>>

\* FUTEX_WAKE of one waiter: the one in the lowest slot of the table.
FutexWake(t) ==
  /\ pc[t] = "wake"
  /\ pc' = [u \in Threads |->
              IF u = t THEN AfterUnlock(t)
              ELSE IF u \in Asleep /\ \A w \in Asleep : u <= w THEN "xchg"
              ELSE pc[u]]
  /\ left' = [left EXCEPT ![t] = left[t] - 1]
  /\ UNCHANGED <<val, counter, temp>>

-----------------------------------------------------------------------------
Step(t) ==
  \/ Cas(t) \/ Xchg(t) \/ FutexWait(t)
  \/ Load(t) \/ Store(t)
  \/ FetchSub(t) \/ Reset(t) \/ FutexWake(t)

\* Nothing happens any more once all workers have returned.
Next == \E t \in Threads : Step(t)

Spec == Init /\ [][Next]_vars

\* The round-robin scheduler dispatches every ready thread again and again.
FairSpec == Spec /\ \A t \in Threads : WF_vars(Step(t))

-----------------------------------------------------------------------------
(* Properties.                                                              *)

\* Threads that own the mutex: until the word is 0 again, an unlocking
\* thread still does.
Owners == {t \in Threads : pc[t] \in {"load", "store", "dec", "reset"}}

\* Mutual exclusion between mutex_lock and the store that frees the mutex;
\* the word is 0 exactly when nobody owns it, so a release is never lost
\* and never frees the mutex of another thread.
MutexHeldByOne ==
  /\ \A t, u \in Owners : t = u
  /\ val = 0 <=> Owners = {}

\* No lost wake-up: while a thread sleeps in FUTEX_WAIT, the word tells the
\* owner to wake it, or some thread is on its way to wake it or to set the
\* word to 2 again.
SleeperNotForgotten ==
  Asleep # {} => val = 2 \/ \E t \in Threads : pc[t] \in {"reset", "wake", "xchg"}

\* mutex_lock and mutex_unlock: one owner, a word that tells whether there is
\* one, and no sleeper that nobody will wake.
MutexSound == TypeOK /\ MutexHeldByOne /\ SleeperNotForgotten

\* Every worker returns: no deadlock, no thread asleep for ever.
WorkersReturn == <>(\A t \in Threads : pc[t] = "done")

-----------------------------------------------------------------------------
(* The mutex implements the abstract lock around the counter.               *)

L == INSTANCE LockedCounter WITH inside <- Owners

\* Every step of the futex mutex enters an empty critical section, leaves it,
\* counts up by one inside of it, or is invisible: the load and the store of
\* synced_counter++ act as one step.
ImplementsLockedCounter == L!Spec

=============================================================================
