------------------------------ MODULE ProdCons ------------------------------
(***************************************************************************)
(* The producer-consumer pipeline of /bin/threads (producer_func and       *)
(* consumer_func in userland/src/threads.c) and the counting semaphores it *)
(* uses (sem_wait and sem_post of userland/include/synch.h).               *)
(*                                                                         *)
(* A semaphore is a counter under a mutex, with a futex on the counter for *)
(* those who find it zero; a third mutex protects the ring.  The mutexes   *)
(* are the abstract lock that module Mutex implements.  Threads are        *)
(* preempted between any two steps.                                        *)
(***************************************************************************)
EXTENDS Naturals, Sequences

CONSTANTS
  QUEUE_SIZE,    \* slots of the ring
  TOTAL_ITEMS    \* items sent through it

ASSUME SizeAssumption == QUEUE_SIZE \in Nat \ {0}
ASSUME ItemsAssumption == TOTAL_ITEMS \in Nat \ {0}

Threads == {"producer", "consumer"}
Sems == {"sem_empty", "sem_full"}
Locks == Sems \cup {"mutex"}    \* each semaphore has a lock of its own
Ring == 0 .. QUEUE_SIZE - 1

Labels ==
  {"wait", "test", "taken", "none", "futex", "asleep",   \* sem_wait
   "lock", "copy", "advance", "unlock",                  \* the ring
   "post", "inc", "posted", "wake",                      \* sem_post
   "done"}

VARIABLES
  count,     \* count of each semaphore
  owner,     \* owner of each lock, or "nobody"
  items, head, tail,
  pc,        \* where each thread is
  i,         \* loop variable of each thread
  got        \* history: the values the consumer took

vars == <<count, owner, items, head, tail, pc, i, got>>

\* run_prod_cons_demo; the ring is in zeroed memory.
Init ==
  /\ count = [s \in Sems |-> IF s = "sem_empty" THEN QUEUE_SIZE ELSE 0]
  /\ owner = [l \in Locks |-> "nobody"]
  /\ items = [k \in Ring |-> 0]
  /\ head = 0 /\ tail = 0
  /\ pc = [t \in Threads |-> "wait"]
  /\ i = [t \in Threads |-> 1]
  /\ got = <<>>

\* The semaphores a thread waits for and posts.
Waits(t) == IF t = "producer" THEN "sem_empty" ELSE "sem_full"
Posts(t) == IF t = "producer" THEN "sem_full" ELSE "sem_empty"

Go(t, from, to) == pc[t] = from /\ pc' = [pc EXCEPT ![t] = to]

mutex_lock(t, l) == owner[l] = "nobody" /\ owner' = [owner EXCEPT ![l] = t]
mutex_unlock(t, l) == owner' = [owner EXCEPT ![l] = "nobody"]

-----------------------------------------------------------------------------
(* sem_wait.                                                                *)

WaitLock(t) ==
  /\ Go(t, "wait", "test")
  /\ mutex_lock(t, Waits(t))
  /\ UNCHANGED <<count, items, head, tail, i, got>>

\* Mutant: the count is not tested.
WaitTest_Blind(t) ==
  /\ Go(t, "test", "taken")
  /\ count' = [count EXCEPT ![Waits(t)] = IF @ > 0 THEN @ - 1 ELSE @]
  /\ UNCHANGED <<owner, items, head, tail, i, got>>

WaitTest(t) ==
  /\ IF count[Waits(t)] > 0
     THEN Go(t, "test", "taken") /\ count' = [count EXCEPT ![Waits(t)] = @ - 1]
     ELSE Go(t, "test", "none") /\ UNCHANGED count
  /\ UNCHANGED <<owner, items, head, tail, i, got>>

WaitUnlock(t) ==
  /\ Go(t, "taken", "lock") \/ Go(t, "none", "futex")
  /\ mutex_unlock(t, Waits(t))
  /\ UNCHANGED <<count, items, head, tail, i, got>>

\* Mutant: FUTEX_WAIT does not compare the count with 0.
FutexWait_NoCompare(t) ==
  /\ Go(t, "futex", "asleep")
  /\ UNCHANGED <<count, owner, items, head, tail, i, got>>

\* FUTEX_WAIT: sleep if the count is still 0, else try again.
FutexWait(t) ==
  /\ Go(t, "futex", IF count[Waits(t)] = 0 THEN "asleep" ELSE "wait")
  /\ UNCHANGED <<count, owner, items, head, tail, i, got>>

-----------------------------------------------------------------------------
(* The ring, between mutex_lock and mutex_unlock.                           *)

RingLock(t) ==
  /\ Go(t, "lock", "copy")
  /\ mutex_lock(t, "mutex")
  /\ UNCHANGED <<count, items, head, tail, i, got>>

Copy(t) ==
  /\ Go(t, "copy", "advance")
  /\ IF t = "producer"
     THEN items' = [items EXCEPT ![tail] = i[t]] /\ UNCHANGED got
     ELSE got' = Append(got, items[head]) /\ UNCHANGED items
  /\ UNCHANGED <<count, owner, head, tail, i>>

Advance(t) ==
  /\ Go(t, "advance", "unlock")
  /\ IF t = "producer"
     THEN tail' = (tail + 1) % QUEUE_SIZE /\ UNCHANGED head
     ELSE head' = (head + 1) % QUEUE_SIZE /\ UNCHANGED tail
  /\ UNCHANGED <<count, owner, items, i, got>>

RingUnlock(t) ==
  /\ Go(t, "unlock", "post")
  /\ mutex_unlock(t, "mutex")
  /\ UNCHANGED <<count, items, head, tail, i, got>>

-----------------------------------------------------------------------------
(* sem_post, and the next iteration.                                        *)

PostLock(t) ==
  /\ Go(t, "post", "inc")
  /\ mutex_lock(t, Posts(t))
  /\ UNCHANGED <<count, items, head, tail, i, got>>

PostInc(t) ==
  /\ Go(t, "inc", "posted")
  /\ count' = [count EXCEPT ![Posts(t)] = @ + 1]
  /\ UNCHANGED <<owner, items, head, tail, i, got>>

PostUnlock(t) ==
  /\ Go(t, "posted", "wake")
  /\ mutex_unlock(t, Posts(t))
  /\ UNCHANGED <<count, items, head, tail, i, got>>

AfterPost(t) == IF i[t] = TOTAL_ITEMS THEN "done" ELSE "wait"

\* FUTEX_WAKE of a thread asleep on the count, and the loop goes on.
PostWake(t) ==
  /\ pc[t] = "wake"
  /\ pc' = [u \in Threads |->
              IF u = t THEN AfterPost(t)
              ELSE IF pc[u] = "asleep" /\ Waits(u) = Posts(t) THEN "wait"
              ELSE pc[u]]
  /\ i' = [i EXCEPT ![t] = i[t] + 1]
  /\ UNCHANGED <<count, owner, items, head, tail, got>>

-----------------------------------------------------------------------------
Step(t) ==
  \/ WaitLock(t) \/ WaitTest(t) \/ WaitUnlock(t) \/ FutexWait(t)
  \/ RingLock(t) \/ Copy(t) \/ Advance(t) \/ RingUnlock(t)
  \/ PostLock(t) \/ PostInc(t) \/ PostUnlock(t) \/ PostWake(t)

\* Nothing happens any more once both threads have returned.
Next == \E t \in Threads : Step(t)

Spec == Init /\ [][Next]_vars

\* The round-robin scheduler dispatches every ready thread again and again.
FairSpec == Spec /\ \A t \in Threads : WF_vars(Step(t))

-----------------------------------------------------------------------------
(* Properties.                                                              *)

TypeOK ==
  /\ count \in [Sems -> Nat]
  /\ owner \in [Locks -> Threads \cup {"nobody"}]
  /\ items \in [Ring -> 0 .. TOTAL_ITEMS]
  /\ head \in Ring /\ tail \in Ring
  /\ pc \in [Threads -> Labels]
  /\ i \in [Threads -> 1 .. TOTAL_ITEMS + 1]
  /\ got \in Seq(0 .. TOTAL_ITEMS)

\* Places of a thread that took a unit of one semaphore and has not yet
\* given one to the other.
Carries(t) == pc[t] \in {"taken", "lock", "copy", "advance", "unlock", "post", "inc"}

\* The two semaphores and the units the threads carry add up to the size of
\* the ring, whatever interleaving of sem_wait and sem_post: no unit is
\* lost or made up, so no count can exceed the ring.
UnitsConserved ==
  count["sem_empty"] + count["sem_full"]
    + (IF Carries("producer") THEN 1 ELSE 0)
    + (IF Carries("consumer") THEN 1 ELSE 0) = QUEUE_SIZE

\* A thread asleep on a semaphore's count has nothing to take, or the other
\* thread has posted and is about to wake it (no lost wake-up between the
\* unlock and the futex call of sem_wait).
SleeperWillBeWoken ==
  \A t \in Threads : pc[t] = "asleep" =>
    \/ count[Waits(t)] = 0
    \/ \E u \in Threads : Posts(u) = Waits(t) /\ pc[u] \in {"posted", "wake"}

\* sem_wait and sem_post lose neither a unit nor a wake-up.
PipelineSound == TypeOK /\ UnitsConserved /\ SleeperWillBeWoken

\* The pipeline completes: all items are sent and received.
PipelineCompletes == <>(\A t \in Threads : pc[t] = "done")

-----------------------------------------------------------------------------
(* The pipeline implements a bounded FIFO buffer.                           *)

\* Items a thread has copied into or out of the ring.
Copied(t) ==
  i[t] - 1 + (IF pc[t] \in {"advance", "unlock", "post", "inc", "posted", "wake"}
              THEN 1 ELSE 0)

buf ==
  [k \in 1 .. Copied("producer") - Copied("consumer") |->
     items[(Copied("consumer") + k - 1) % QUEUE_SIZE]]

F == INSTANCE Fifo WITH Capacity <- QUEUE_SIZE, buf <- buf,
                        sent <- Copied("producer"), got <- got

\* Every item arrives once and in the order sent, and no slot of the ring is
\* overwritten before it is read.
ImplementsFifo == F!Spec

=============================================================================
