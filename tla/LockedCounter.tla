---------------------------- MODULE LockedCounter ----------------------------
(***************************************************************************)
(* What mutex_worker counts on: between mutex_lock and mutex_unlock a      *)
(* thread is alone, and synced_counter++ counts up by exactly one.         *)
(***************************************************************************)
EXTENDS Naturals

CONSTANT Threads

VARIABLES
  inside,    \* the threads between mutex_lock and mutex_unlock
  counter    \* synced_counter

Init == inside = {} /\ counter = 0

Enter(t) == inside = {} /\ inside' = {t} /\ UNCHANGED counter

Count(t) == t \in inside /\ counter' = counter + 1 /\ UNCHANGED inside

Leave(t) == inside = {t} /\ inside' = {} /\ UNCHANGED counter

Next == \E t \in Threads : Enter(t) \/ Count(t) \/ Leave(t)

Spec == Init /\ [][Next]_<<inside, counter>>
==============================================================================
