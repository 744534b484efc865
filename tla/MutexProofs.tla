----------------------------- MODULE MutexProofs -----------------------------
(***************************************************************************)
(* Mutual exclusion, the absence of lost wake-ups and the refinement of    *)
(* the abstract lock, for any number of threads and iterations.            *)
(***************************************************************************)
EXTENDS Mutex, WellFoundedInduction, TLAPS

\* A thread that has not finished has an iteration left.
LeftOK == \A t \in Threads : pc[t] # "done" => left[t] >= 1

\* What the owner loaded is still the counter when it stores.
LoadedIsCurrent == \A t \in Threads : pc[t] = "store" => temp[t] = counter

Inv == TypeOK /\ LeftOK /\ MutexHeldByOne /\ SleeperNotForgotten /\ LoadedIsCurrent

\* mutex_init.
LEMMA InvInit == Init => Inv
<1> SUFFICES ASSUME Init PROVE Inv
  OBVIOUS
<1>1. TypeOK /\ LeftOK
  BY IterationsAssumption DEF Init, TypeOK, LeftOK, Labels
<1>2. MutexHeldByOne
  BY DEF Init, MutexHeldByOne, Owners
<1>3. SleeperNotForgotten
  BY DEF Init, SleeperNotForgotten, Asleep
<1>4. LoadedIsCurrent
  BY DEF Init, LoadedIsCurrent
<1> QED
  BY <1>1, <1>2, <1>3, <1>4 DEF Inv

\* The word and the program counters determine the ownership invariants:
\* this is what each step has to show about them.
LEMMA OwnersNext ==
  ASSUME Inv, NEW t \in Threads, Step(t)
  PROVE  MutexHeldByOne'
<1> USE DEF Inv, TypeOK, Labels, MutexHeldByOne, Owners, Go
<1>1. CASE Cas(t)
  BY <1>1 DEF Cas
<1>2. CASE Xchg(t)
  BY <1>2 DEF Xchg
<1>3. CASE FutexWait(t)
  BY <1>3 DEF FutexWait
<1>4. CASE Load(t) \/ Store(t)
  BY <1>4 DEF Load, Store
<1>5. CASE FetchSub(t)
  BY <1>5 DEF FetchSub, AfterUnlock
<1>6. CASE Reset(t)
  BY <1>6 DEF Reset
<1>7. CASE FutexWake(t)
  BY <1>7 DEF FutexWake, AfterUnlock, Asleep
<1> QED
  BY <1>1, <1>2, <1>3, <1>4, <1>5, <1>6, <1>7 DEF Step

\* The word stays between 0 and 2 because only an owner decrements it.
LEMMA TypeNext ==
  ASSUME Inv, NEW t \in Threads, Step(t)
  PROVE  TypeOK' /\ LeftOK'
<1> USE DEF Inv, TypeOK, Labels, LeftOK, Go
<1>1. CASE Cas(t) \/ Xchg(t) \/ FutexWait(t)
  BY <1>1 DEF Cas, Xchg, FutexWait
<1>2. CASE Load(t) \/ Store(t)
  BY <1>2 DEF Load, Store
<1>3. CASE FetchSub(t)
  <2>1. val # 0
    BY <1>3 DEF FetchSub, MutexHeldByOne, Owners
  <2> QED
    BY <1>3, <2>1 DEF FetchSub, AfterUnlock
<1>4. CASE Reset(t)
  BY <1>4 DEF Reset
<1>5. CASE FutexWake(t)
  BY <1>5 DEF FutexWake, AfterUnlock, Asleep
<1> QED
  BY <1>1, <1>2, <1>3, <1>4, <1>5 DEF Step

\* A nonempty set of numbers has a least element: the futex loop finds a
\* waiter if there is one.
LEMMA Least ==
  ASSUME NEW T \in SUBSET Nat, T # {}
  PROVE  \E x \in T : \A y \in T : x <= y
<1>1. PICK x \in T : \A y \in T : ~(<<y, x>> \in OpToRel(<, Nat))
  BY NatLessThanWellFounded, WFMin, Zenon
<1>2. \A y \in T : ~(y < x)
  BY <1>1, Zenon DEF OpToRel
<1> QED
  BY <1>2

\* A step that leaves the word 2, or a thread at one of the three places, if
\* anybody sleeps.
LEMMA SleeperNext ==
  ASSUME Inv, NEW t \in Threads, Step(t)
  PROVE  SleeperNotForgotten'
<1> USE DEF Inv, TypeOK, Labels, SleeperNotForgotten, Asleep, Go
<1>1. CASE Cas(t)
  BY <1>1 DEF Cas
<1>2. CASE Xchg(t)
  BY <1>2 DEF Xchg
<1>3. CASE FutexWait(t)
  BY <1>3 DEF FutexWait
<1>4. CASE Load(t) \/ Store(t)
  BY <1>4 DEF Load, Store
<1>5. CASE FetchSub(t)
  BY <1>5 DEF FetchSub, AfterUnlock
<1>6. CASE Reset(t)
  BY <1>6 DEF Reset
<1>7. CASE FutexWake(t)
  <2>1. CASE Asleep = {}
    BY <1>7, <2>1 DEF FutexWake, AfterUnlock
  <2>2. CASE Asleep # {}
    <3>1. Asleep \in SUBSET Nat
      BY ThreadsAssumption DEF Threads
    <3>2. PICK u \in Asleep : \A w \in Asleep : u <= w
      BY <2>2, <3>1, Least, Zenon
    <3>3. u \in Threads /\ u # t
      BY <1>7 DEF FutexWake
    <3>4. pc'[u] = "xchg"
      BY <1>7, <3>2, <3>3 DEF FutexWake
    <3> QED
      BY <3>3, <3>4
  <2> QED
    BY <2>1, <2>2
<1> QED
  BY <1>1, <1>2, <1>3, <1>4, <1>5, <1>6, <1>7 DEF Step

\* Nobody stores between the load and the store of the owner.
LEMMA LoadedNext ==
  ASSUME Inv, NEW t \in Threads, Step(t)
  PROVE  LoadedIsCurrent'
<1> USE DEF Inv, TypeOK, Labels, LoadedIsCurrent, Go
<1>1. CASE Load(t)
  BY <1>1 DEF Load
<1>2. CASE Store(t)
  <2>1. \A u \in Threads : u # t => pc[u] # "store"
    BY <1>2 DEF Store, MutexHeldByOne, Owners
  <2> QED
    BY <1>2, <2>1 DEF Store
<1>3. CASE Cas(t) \/ Xchg(t) \/ FutexWait(t) \/ Reset(t)
  BY <1>3 DEF Cas, Xchg, FutexWait, Reset
<1>4. CASE FetchSub(t)
  BY <1>4 DEF FetchSub, AfterUnlock
<1>5. CASE FutexWake(t)
  BY <1>5 DEF FutexWake, AfterUnlock, Asleep
<1> QED
  BY <1>1, <1>2, <1>3, <1>4, <1>5 DEF Step

\* The inductive invariant.
LEMMA InvNext == Inv /\ [Next]_vars => Inv'
<1> SUFFICES ASSUME Inv, [Next]_vars PROVE Inv'
  OBVIOUS
<1>1. CASE \E t \in Threads : Step(t)
  BY <1>1, TypeNext, OwnersNext, SleeperNext, LoadedNext DEF Inv
<1>2. CASE UNCHANGED vars
  BY <1>2 DEF vars, Inv, TypeOK, LeftOK, MutexHeldByOne, Owners,
              SleeperNotForgotten, Asleep, LoadedIsCurrent
<1> QED
  BY <1>1, <1>2 DEF Next

\* The invariant holds in every reachable state.
THEOREM MutexInvariant == Spec => []Inv
<1> QED
  BY InvInit, InvNext, PTL DEF Spec

\* mutex_lock and mutex_unlock exclude each other's owners, the word is 0
\* exactly when the mutex is free, and no thread is left asleep in FUTEX_WAIT
\* with nobody to wake it, for any number of threads.
THEOREM MutexCorrect == Spec => []MutexSound
<1>1. Inv => MutexSound
  BY DEF Inv, MutexSound
<1> QED
  BY <1>1, MutexInvariant, PTL

-----------------------------------------------------------------------------
(* Refinement.                                                              *)

\* A step of a thread enters an empty critical section, counts, leaves, or
\* changes neither the owners nor the counter.
LEMMA StepRefines ==
  ASSUME Inv, NEW t \in Threads, Step(t)
  PROVE  L!Next \/ UNCHANGED <<Owners, counter>>
<1> USE DEF Inv, TypeOK, Labels, MutexHeldByOne, Owners, Go
<1>1. CASE Store(t)
  <2>1. counter' = counter + 1
    BY <1>1 DEF Store, LoadedIsCurrent
  <2>2. t \in Owners /\ Owners' = Owners
    BY <1>1 DEF Store
  <2> QED
    BY <2>1, <2>2 DEF L!Next, L!Count
<1>2. CASE ~Store(t)
  <2>1. UNCHANGED counter
    BY <1>2 DEF Step, Cas, Xchg, FutexWait, Load, FetchSub, Reset, FutexWake
  <2>2. \/ Owners' = Owners
        \/ Owners = {} /\ Owners' = {t}
        \/ Owners = {t} /\ Owners' = {}
    <3>1. CASE Cas(t) \/ Xchg(t) \/ FutexWait(t)
      BY <3>1 DEF Cas, Xchg, FutexWait
    <3>2. CASE Load(t)
      BY <3>2 DEF Load
    <3>3. CASE FetchSub(t)
      BY <3>3 DEF FetchSub, AfterUnlock
    <3>4. CASE Reset(t)
      BY <3>4 DEF Reset
    <3>5. CASE FutexWake(t)
      BY <3>5 DEF FutexWake, AfterUnlock, Asleep
    <3> QED
      BY <1>2, <3>1, <3>2, <3>3, <3>4, <3>5 DEF Step
  <2> QED
    BY <2>1, <2>2 DEF L!Next, L!Enter, L!Leave
<1> QED
  BY <1>1, <1>2

\* The futex mutex implements the abstract lock, and the increments under it
\* are atomic.
THEOREM Refinement == Spec => ImplementsLockedCounter
<1>1. Init => L!Init
  BY DEF Init, L!Init, Owners
<1>2. Inv /\ [Next]_vars => [L!Next]_<<Owners, counter>>
  <2> SUFFICES ASSUME Inv, [Next]_vars PROVE L!Next \/ UNCHANGED <<Owners, counter>>
    OBVIOUS
  <2>1. CASE \E t \in Threads : Step(t)
    BY <2>1, StepRefines
  <2>2. CASE UNCHANGED vars
    BY <2>2 DEF vars, Owners
  <2> QED
    BY <2>1, <2>2 DEF Next
<1> QED
  BY <1>1, <1>2, MutexInvariant, PTL DEF Spec, ImplementsLockedCounter, L!Spec

=============================================================================
