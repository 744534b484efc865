--------------------------- MODULE ProdConsProofs ---------------------------
(***************************************************************************)
(* The pipeline's invariants and its refinement of the bounded buffer, for *)
(* every size of the ring and every number of items.                       *)
(*                                                                         *)
(* The counts of the semaphores are tied to how far each thread has come:  *)
(* every thread takes a unit, copies, advances its index and posts a unit, *)
(* in this order, once for each value of its loop variable.                *)
(***************************************************************************)
EXTENDS ProdCons, Integers, TLAPS

AtCopied == {"advance", "unlock", "post", "inc", "posted", "wake"}

\* Units of Waits(t) that t has taken, places it has advanced its index by, and
\* units of Posts(t) it has posted.
Taken(t) == i[t] - 1 + (IF pc[t] \in {"taken", "lock", "copy"} \cup AtCopied THEN 1 ELSE 0)
Advanced(t) == i[t] - 1 + (IF pc[t] \in AtCopied \ {"advance"} THEN 1 ELSE 0)
Posted(t) == i[t] - 1 + (IF pc[t] \in {"posted", "wake"} THEN 1 ELSE 0)

\* The loops end after TOTAL_ITEMS.
LoopsBounded == \A t \in Threads : pc[t] = "done" <=> i[t] = TOTAL_ITEMS + 1

\* The counts, by how far the threads are.
CountsExact ==
  /\ count["sem_empty"] = QUEUE_SIZE + Posted("consumer") - Taken("producer")
  /\ count["sem_full"] = Posted("producer") - Taken("consumer")

\* The indices, by how far the threads are.
IndicesExact ==
  /\ tail = Advanced("producer") % QUEUE_SIZE
  /\ head = Advanced("consumer") % QUEUE_SIZE

\* The slots between the consumer's place and the producer's hold the items that
\* were not yet taken.
RingExact ==
  \A k \in Nat : Copied("consumer") <= k /\ k < Copied("producer") => items[k % QUEUE_SIZE] = k + 1

Inv == PipelineSound /\ LoopsBounded /\ CountsExact /\ IndicesExact /\ RingExact

-----------------------------------------------------------------------------
(* Remainders.                                                             *)

\* A number is a multiple of Q and a remainder.
LEMMA DivMod ==
  ASSUME NEW Q \in Nat \ {0}, NEW a \in Nat
  PROVE  /\ a \div Q \in Nat /\ a % Q \in 0 .. Q - 1
         /\ a = Q * (a \div Q) + (a % Q)
<1>1. a % Q \in 0 .. Q - 1
  OBVIOUS
<1>2. a = Q * (a \div Q) + (a % Q)
  OBVIOUS
<1>3. a \div Q \in Int
  OBVIOUS
<1>4. a \div Q <= -1 => Q * (a \div Q) <= -Q
  BY <1>3
<1> QED
  BY <1>1, <1>2, <1>3, <1>4

\* Numbers less than Q apart have different remainders.
LEMMA ModDistinct ==
  ASSUME NEW Q \in Nat \ {0}, NEW a \in Nat, NEW b \in Nat, a < b, b - a < Q
  PROVE  a % Q # b % Q
<1> SUFFICES ASSUME a % Q = b % Q PROVE FALSE
  OBVIOUS
<1> DEFINE d == b \div Q - a \div Q
<1>1. d \in Int /\ Q * d = b - a
  BY DivMod
<1>2. d <= 0 => Q * d <= 0
  BY <1>1
<1>3. d >= 1 => Q * d >= Q
  BY <1>1
<1> QED
  BY <1>1, <1>2, <1>3

\* A remainder determined by a quotient is unique.
LEMMA ModUnique ==
  ASSUME NEW Q \in Nat \ {0}, NEW a \in Nat, NEW q \in Nat, NEW r \in 0 .. Q - 1, a = Q * q + r
  PROVE  a % Q = r
<1>1. PICK x \in Nat, m \in 0 .. Q - 1 : a % Q = m /\ a = Q * x + m
  BY DivMod, Zenon
<1> DEFINE d == x - q
<1>2. d \in Int /\ Q * d = r - m
  BY <1>1
<1>3. d <= -1 => Q * d <= -Q
  BY <1>2
<1>4. d >= 1 => Q * d >= Q
  BY <1>2
<1>5. d = 0
  BY <1>2, <1>3, <1>4
<1> QED
  BY <1>1, <1>2, <1>5

\* An index that is advanced wraps as the number it stands for does.
LEMMA ModSucc ==
  ASSUME NEW Q \in Nat \ {0}, NEW a \in Nat
  PROVE  ((a % Q) + 1) % Q = (a + 1) % Q
<1>1. PICK x \in Nat, m \in 0 .. Q - 1 : a % Q = m /\ a = Q * x + m
  BY DivMod, Zenon
<1>2. CASE m + 1 < Q
  <2>1. a + 1 \in Nat /\ m + 1 \in 0 .. Q - 1 /\ a + 1 = Q * x + (m + 1) /\ m + 1 = Q * 0 + (m + 1)
    BY <1>1, <1>2
  <2>2. (a + 1) % Q = m + 1
    BY <2>1, ModUnique, Zenon
  <2>3. (m + 1) % Q = m + 1
    <3> m + 1 \in Nat /\ 0 \in Nat
      OBVIOUS
    <3> QED
      BY <2>1, ModUnique, Zenon
  <2> QED
    BY <1>1, <2>2, <2>3
<1>3. CASE m + 1 = Q
  <2>1. /\ a + 1 \in Nat /\ x + 1 \in Nat /\ 0 \in 0 .. Q - 1 /\ a + 1 = Q * (x + 1) + 0
        /\ Q \in Nat /\ 1 \in Nat /\ Q = Q * 1 + 0
    BY <1>1, <1>3
  <2>2. (a + 1) % Q = 0
    BY <2>1, ModUnique, Zenon
  <2>3. Q % Q = 0
    BY <2>1, ModUnique, Zenon
  <2> QED
    BY <1>1, <1>3, <2>2, <2>3
<1> QED
  BY <1>1, <1>2, <1>3

-----------------------------------------------------------------------------
(* The invariant.                                                           *)

\* run_prod_cons_demo.
LEMMA InvInit == Init => Inv
<1> SUFFICES ASSUME Init PROVE Inv
  OBVIOUS
<1> USE SizeAssumption, ItemsAssumption DEF Init, Threads, Sems
<1>1. TypeOK
  <2>1. got \in Seq(0 .. TOTAL_ITEMS)
    OBVIOUS
  <2> QED
    BY <2>1 DEF TypeOK, Locks, Ring, Labels
<1>2. UnitsConserved /\ SleeperWillBeWoken
  BY DEF UnitsConserved, SleeperWillBeWoken, Carries
<1>3. LoopsBounded
  BY DEF LoopsBounded
<1>4. CountsExact
  BY DEF CountsExact, Posted, Taken, AtCopied
<1>5. IndicesExact
  <2>1. 0 % QUEUE_SIZE = 0
    BY ModUnique
  <2> QED
    BY <2>1 DEF IndicesExact, Advanced, AtCopied
<1>6. RingExact
  BY DEF RingExact, Copied
<1> QED
  BY <1>1, <1>2, <1>3, <1>4, <1>5, <1>6 DEF Inv, PipelineSound

\* What a step of one thread does to its own progress, and that it leaves the
\* other's alone.
LEMMA Others ==
  ASSUME TypeOK, NEW t \in Threads, Step(t), NEW u \in Threads, u # t
  PROVE  /\ i'[u] = i[u] /\ Taken(u)' = Taken(u) /\ Copied(u)' = Copied(u)
         /\ Advanced(u)' = Advanced(u) /\ Posted(u)' = Posted(u)
<1>1. i'[u] = i[u]
  BY DEF TypeOK, Step, WaitLock, WaitTest, WaitUnlock, FutexWait, RingLock, Copy, Advance,
         RingUnlock, PostLock, PostInc, PostUnlock, PostWake
<1>2. pc'[u] = pc[u] \/ (pc[u] = "asleep" /\ pc'[u] = "wait")
  BY DEF TypeOK, Step, Go, WaitLock, WaitTest, WaitUnlock, FutexWait, RingLock, Copy, Advance,
         RingUnlock, PostLock, PostInc, PostUnlock, PostWake
<1> QED
  BY <1>1, <1>2 DEF Taken, Copied, Advanced, Posted, AtCopied

\* The progress of the thread that takes a step.
LEMMA Own ==
  ASSUME TypeOK, NEW t \in Threads, Step(t)
  PROVE  /\ Taken(t)' = Taken(t) + (IF WaitTest(t) /\ count[Waits(t)] > 0 THEN 1 ELSE 0)
         /\ Copied(t)' = Copied(t) + (IF Copy(t) THEN 1 ELSE 0)
         /\ Advanced(t)' = Advanced(t) + (IF Advance(t) THEN 1 ELSE 0)
         /\ Posted(t)' = Posted(t) + (IF PostInc(t) THEN 1 ELSE 0)
<1> USE DEF TypeOK, Taken, Copied, Advanced, Posted, AtCopied, Go
<1> i[t] \in Nat
  OBVIOUS
<1>1. CASE WaitLock(t) \/ WaitUnlock(t) \/ FutexWait(t)
  BY <1>1 DEF WaitLock, WaitUnlock, FutexWait, WaitTest, Copy, Advance, PostInc
<1>2. CASE WaitTest(t)
  BY <1>2 DEF WaitTest, Copy, Advance, PostInc
<1>3. CASE RingLock(t) \/ RingUnlock(t)
  BY <1>3 DEF RingLock, RingUnlock, WaitTest, Copy, Advance, PostInc
<1>4. CASE Copy(t)
  BY <1>4 DEF WaitTest, Copy, Advance, PostInc
<1>5. CASE Advance(t)
  BY <1>5 DEF WaitTest, Copy, Advance, PostInc
<1>6. CASE PostLock(t) \/ PostUnlock(t)
  BY <1>6 DEF PostLock, PostUnlock, WaitTest, Copy, Advance, PostInc
<1>7. CASE PostInc(t)
  BY <1>7 DEF WaitTest, Copy, Advance, PostInc
<1>8. CASE PostWake(t)
  BY <1>8 DEF PostWake, AfterPost, WaitTest, Copy, Advance, PostInc
<1> QED
  BY <1>1, <1>2, <1>3, <1>4, <1>5, <1>6, <1>7, <1>8 DEF Step

\* The bounds that the counts put on how far one thread is ahead of the other:
\* between 0 and QUEUE_SIZE items, less than that while the producer copies, more
\* than that while the consumer does.
LEMMA Ahead ==
  ASSUME TypeOK, CountsExact
  PROVE  /\ Copied("producer") \in Nat /\ Copied("consumer") \in Nat
         /\ Advanced("producer") \in Nat /\ Advanced("consumer") \in Nat
         /\ Copied("consumer") <= Copied("producer")
         /\ Copied("producer") - Copied("consumer") <= QUEUE_SIZE
         /\ pc["producer"] = "copy" => Copied("producer") - Copied("consumer") < QUEUE_SIZE
         /\ pc["consumer"] = "copy" => Copied("consumer") < Copied("producer")
<1>1. \A t \in Threads :
        /\ {Posted(t), Advanced(t), Copied(t), Taken(t)} \subseteq Nat
        /\ Posted(t) <= Copied(t) /\ Copied(t) <= Taken(t)
        /\ pc[t] = "copy" => Copied(t) < Taken(t)
  BY DEF TypeOK, Posted, Advanced, Copied, Taken, AtCopied
<1>2. count["sem_empty"] \in Nat /\ count["sem_full"] \in Nat
  BY DEF TypeOK, Sems
<1> HIDE DEF Posted, Advanced, Copied, Taken
<1>3. "producer" \in Threads /\ "consumer" \in Threads
  BY DEF Threads
<1> QED
  BY <1>1, <1>2, <1>3, SizeAssumption DEF CountsExact

\* sem_wait and sem_post by the count alone.
LEMMA CountsNext ==
  ASSUME Inv, NEW t \in Threads, Step(t)
  PROVE  CountsExact'
<1> USE DEF Inv, PipelineSound
<1> DEFINE w == IF WaitTest(t) /\ count[Waits(t)] > 0 THEN 1 ELSE 0
           p == IF PostInc(t) THEN 1 ELSE 0
<1>1. count'[Waits(t)] = count[Waits(t)] - w /\ count'[Posts(t)] = count[Posts(t)] + p
  <2>1. count \in [Sems -> Nat] /\ Waits(t) \in Sems /\ Posts(t) \in Sems /\ Waits(t) # Posts(t)
    BY DEF TypeOK, Waits, Posts, Sems
  <2>2. CASE WaitTest(t)
    <3>1. ~PostInc(t)
      BY <2>2 DEF WaitTest, PostInc, Go
    <3>2. count' = IF count[Waits(t)] > 0 THEN [count EXCEPT ![Waits(t)] = @ - 1] ELSE count
      BY <2>2 DEF WaitTest
    <3> QED
      BY <2>1, <2>2, <3>1, <3>2
  <2>3. CASE PostInc(t)
    <3>1. ~WaitTest(t)
      BY <2>3 DEF WaitTest, PostInc, Go
    <3>2. count' = [count EXCEPT ![Posts(t)] = @ + 1]
      BY <2>3 DEF PostInc
    <3> QED
      BY <2>1, <2>3, <3>1, <3>2
  <2>4. CASE ~WaitTest(t) /\ ~PostInc(t)
    <3>1. count' = count
      BY <2>4 DEF Step, WaitLock, WaitUnlock, FutexWait, RingLock, Copy, Advance, RingUnlock,
                  PostLock, PostUnlock, PostWake
    <3> QED
      BY <2>1, <2>4, <3>1
  <2> QED
    BY <2>2, <2>3, <2>4
<1>2. \A u \in Threads \ {t} : Taken(u)' = Taken(u) /\ Posted(u)' = Posted(u)
  BY Others
<1>3. Taken(t)' = Taken(t) + w /\ Posted(t)' = Posted(t) + p
  BY Own
<1>4. \A u \in Threads : Taken(u) \in Nat /\ Posted(u) \in Nat
  BY DEF TypeOK, Taken, Posted
<1>5. w \in Nat /\ p \in Nat /\ count["sem_empty"] \in Nat /\ count["sem_full"] \in Nat
  BY DEF TypeOK, Sems
<1> HIDE DEF Taken, Posted, w, p
<1>6. CASE t = "producer"
  BY <1>1, <1>2, <1>3, <1>4, <1>5, <1>6, SizeAssumption DEF CountsExact, Waits, Posts, Threads
<1>7. CASE t = "consumer"
  BY <1>1, <1>2, <1>3, <1>4, <1>5, <1>7, SizeAssumption DEF CountsExact, Waits, Posts, Threads
<1> QED
  BY <1>6, <1>7 DEF Threads

\* The indices follow the threads.
LEMMA IndicesNext ==
  ASSUME Inv, NEW t \in Threads, Step(t)
  PROVE  IndicesExact'
<1> USE DEF Inv, PipelineSound
<1>1. \A u \in Threads \ {t} : Advanced(u)' = Advanced(u)
  BY Others
<1>2. Advanced(t)' = Advanced(t) + (IF Advance(t) THEN 1 ELSE 0)
  BY Own
<1>3. \A u \in Threads : Advanced(u) \in Nat
  BY DEF TypeOK, Advanced
<1> HIDE DEF Advanced
<1>4. CASE Advance(t)
  <2>1. ((Advanced(t) % QUEUE_SIZE) + 1) % QUEUE_SIZE = (Advanced(t) + 1) % QUEUE_SIZE
    BY <1>3, ModSucc, SizeAssumption
  <2>2. CASE t = "producer"
    BY <1>1, <1>2, <1>4, <2>1, <2>2 DEF IndicesExact, Advance, Threads
  <2>3. CASE t = "consumer"
    BY <1>1, <1>2, <1>4, <2>1, <2>3 DEF IndicesExact, Advance, Threads
  <2> QED
    BY <2>2, <2>3 DEF Threads
<1>5. CASE ~Advance(t)
  <2>1. tail' = tail /\ head' = head
    BY <1>5 DEF Step, WaitLock, WaitTest, WaitUnlock, FutexWait, RingLock, Copy, RingUnlock,
                PostLock, PostInc, PostUnlock, PostWake
  <2>2. \A u \in Threads : Advanced(u)' = Advanced(u)
    BY <1>1, <1>2, <1>3, <1>5
  <2> QED
    BY <2>1, <2>2 DEF IndicesExact, Threads
<1> QED
  BY <1>4, <1>5

\* Copy is at the place the other thread has not reached: an item is not
\* overwritten before it is read.
LEMMA RingNext ==
  ASSUME Inv, NEW t \in Threads, Step(t)
  PROVE  RingExact'
<1> USE DEF Inv, PipelineSound
<1>1. \A u \in Threads \ {t} : Copied(u)' = Copied(u)
  BY Others
<1>2. Copied(t)' = Copied(t) + (IF Copy(t) THEN 1 ELSE 0)
  BY Own
<1>3. TypeOK /\ "producer" \in Threads /\ "consumer" \in Threads
  BY DEF Threads
<1>4. CASE Copy(t) /\ t = "producer"
  <2> DEFINE P == Copied("producer")
             C == Copied("consumer")
  <2>1. P \in Nat /\ C \in Nat /\ C <= P /\ P - C < QUEUE_SIZE
    BY <1>4, Ahead DEF Copy, Go
  <2>2. P' = P + 1 /\ C' = C
    BY <1>1, <1>2, <1>3, <1>4
  <2>3. tail = P % QUEUE_SIZE /\ i["producer"] = P + 1
    BY <1>4 DEF IndicesExact, Advanced, Copied, AtCopied, Copy, Go, TypeOK, Threads
  <2>4. items' = [items EXCEPT ![P % QUEUE_SIZE] = P + 1] /\ P % QUEUE_SIZE \in Ring
    BY <1>4, <2>3 DEF Copy, TypeOK
  <2> HIDE DEF P, C
  <2>5. ASSUME NEW k \in Nat, C <= k, k < P + 1
        PROVE  items'[k % QUEUE_SIZE] = k + 1
    <3>1. CASE k = P
      BY <1>3, <2>4, <3>1 DEF TypeOK
    <3>2. CASE k < P
      <4>1. k % QUEUE_SIZE # P % QUEUE_SIZE
        <5>1. P - k < QUEUE_SIZE
          BY <2>1, <2>5, SizeAssumption
        <5> QED
          BY <2>1, <3>2, <5>1, ModDistinct, SizeAssumption, Zenon
      <4>2. k % QUEUE_SIZE \in Ring
        BY SizeAssumption, DivMod, Zenon DEF Ring
      <4>3. items[k % QUEUE_SIZE] = k + 1
        BY <2>5, <3>2 DEF RingExact, P, C
      <4> QED
        BY <2>4, <4>1, <4>2, <4>3, <1>3 DEF TypeOK
    <3> QED
      BY <2>1, <2>5, <3>1, <3>2
  <2> QED
    BY <2>2, <2>5 DEF RingExact, P, C
<1>5. CASE ~(Copy(t) /\ t = "producer")
  <2>1. items' = items
    BY <1>5 DEF Step, WaitLock, WaitTest, WaitUnlock, FutexWait, RingLock, Copy, Advance, RingUnlock,
                PostLock, PostInc, PostUnlock, PostWake
  <2>2. /\ Copied("producer")' = Copied("producer") /\ Copied("producer") \in Nat
        /\ Copied("consumer") \in Nat /\ Copied("consumer")' \in Nat
        /\ Copied("consumer") <= Copied("consumer")'
    <3>1. Copied("producer") \in Nat /\ Copied("consumer") \in Nat
      BY Ahead
    <3> HIDE DEF Copied
    <3>2. CASE t = "producer"
      BY <1>1, <1>2, <1>3, <1>5, <3>1, <3>2
    <3>3. CASE t = "consumer"
      BY <1>1, <1>2, <1>3, <3>1, <3>3
    <3> QED
      BY <3>2, <3>3 DEF Threads
  <2> QED
    BY <2>1, <2>2 DEF RingExact
<1> QED
  BY <1>4, <1>5

\* The types, and the loops stay within their bounds.
LEMMA TypeNext ==
  ASSUME Inv, NEW t \in Threads, Step(t)
  PROVE  TypeOK' /\ LoopsBounded'
<1> USE SizeAssumption, ItemsAssumption DEF Inv, PipelineSound, TypeOK, LoopsBounded, Go
<1>1. /\ Waits(t) \in Sems /\ Posts(t) \in Sems /\ Sems \subseteq Locks /\ "mutex" \in Locks
      /\ {"wait", "test", "taken", "none", "futex", "asleep", "lock", "copy", "advance", "unlock",
          "post", "inc", "posted", "wake", "done"} \subseteq Labels
  BY DEF Waits, Posts, Sems, Locks, Labels
<1>2. CASE FutexWait(t)
  BY <1>1, <1>2 DEF FutexWait
<1>3. CASE WaitTest(t)
  <2>1. CASE count[Waits(t)] > 0
    <3>1. count' = [count EXCEPT ![Waits(t)] = @ - 1] /\ count[Waits(t)] - 1 \in Nat
      BY <1>1, <1>3, <2>1 DEF WaitTest
    <3>2. count' \in [Sems -> Nat]
      BY <1>1, <3>1
    <3> QED
      BY <1>1, <1>3, <2>1, <3>2, Zenon DEF WaitTest
  <2>2. CASE ~(count[Waits(t)] > 0)
    BY <1>1, <1>3, <2>2, Zenon DEF WaitTest
  <2> QED
    BY <2>1, <2>2, Zenon
<1>4. CASE \/ WaitLock(t) \/ WaitUnlock(t) \/ RingLock(t) \/ RingUnlock(t)
         \/ PostLock(t) \/ PostUnlock(t)
  <2> USE DEF WaitLock, WaitUnlock, RingLock, RingUnlock, PostLock, PostUnlock
  <2>1. owner' \in [Locks -> Threads \cup {"nobody"}]
    <3>1. \E l \in Locks, u \in Threads \cup {"nobody"} : owner' = [owner EXCEPT ![l] = u]
      BY <1>1, <1>4, Zenon DEF mutex_lock, mutex_unlock
    <3> QED
      BY <3>1
  <2>2. pc' \in [Threads -> Labels]
    BY <1>1, <1>4, Zenon
  <2>3. \A u \in Threads : pc'[u] = "done" <=> pc[u] = "done"
    BY <1>4
  <2> QED
    BY <1>4, <2>1, <2>2, <2>3
<1>5. CASE Copy(t)
  <2>1. i[t] \in 1 .. TOTAL_ITEMS /\ items[head] \in 0 .. TOTAL_ITEMS
    BY <1>5 DEF Copy
  <2>2. items' \in [Ring -> 0 .. TOTAL_ITEMS] /\ got' \in Seq(0 .. TOTAL_ITEMS)
    <3>1. CASE t = "producer"
      <4>1. items' = [items EXCEPT ![tail] = i[t]] /\ got' = got
        BY <1>5, <3>1 DEF Copy
      <4> QED
        BY <2>1, <4>1
    <3>2. CASE t # "producer"
      <4>1. items' = items /\ got' = Append(got, items[head])
        BY <1>5, <3>2 DEF Copy
      <4> QED
        BY <2>1, <4>1
    <3> QED
      BY <3>1, <3>2
  <2> QED
    BY <1>1, <1>5, <2>2, SMTT(20) DEF Copy
<1>6. CASE Advance(t)
  <2>1. (tail + 1) % QUEUE_SIZE \in Ring /\ (head + 1) % QUEUE_SIZE \in Ring
    BY DEF Ring
  <2> QED
    BY <1>1, <1>6, <2>1 DEF Advance
<1>7. CASE PostInc(t)
  BY <1>1, <1>7, SMTT(20) DEF PostInc
<1>8. CASE PostWake(t)
  <2>1. i[t] \in 1 .. TOTAL_ITEMS
    BY <1>8 DEF PostWake
  <2>2. i' \in [Threads -> 1 .. TOTAL_ITEMS + 1]
    BY <1>8, <2>1 DEF PostWake
  <2>3. pc' \in [Threads -> Labels]
    BY <1>1, <1>8 DEF PostWake, AfterPost
  <2>4. LoopsBounded'
    BY <1>8, <2>1 DEF PostWake, AfterPost
  <2> QED
    BY <1>8, <2>2, <2>3, <2>4 DEF PostWake
<1> QED
  BY <1>2, <1>3, <1>4, <1>5, <1>6, <1>7, <1>8, Zenon DEF Step

\* The units follow from the counts.
LEMMA UnitsFromCounts ==
  ASSUME TypeOK, CountsExact
  PROVE  UnitsConserved
<1>1. \A t \in Threads : /\ Taken(t) \in Nat /\ Posted(t) \in Nat
                         /\ Taken(t) - Posted(t) = IF Carries(t) THEN 1 ELSE 0
  BY DEF TypeOK, Taken, Posted, Carries, AtCopied
<1>2. "producer" \in Threads /\ "consumer" \in Threads
  BY DEF Threads
<1> HIDE DEF Taken, Posted, Carries
<1> QED
  BY <1>1, <1>2, SizeAssumption DEF CountsExact, UnitsConserved

\* The count that FUTEX_WAIT compares can only be raised by the thread that will
\* also wake.
LEMMA SleeperNext ==
  ASSUME Inv, NEW t \in Threads, Step(t)
  PROVE  SleeperWillBeWoken'
<1> USE DEF Inv, PipelineSound, TypeOK, SleeperWillBeWoken, Go, Waits, Posts, Threads, Sems
<1>1. CASE WaitLock(t) \/ WaitUnlock(t) \/ FutexWait(t)
  BY <1>1 DEF WaitLock, WaitUnlock, FutexWait
<1>2. CASE WaitTest(t)
  BY <1>2 DEF WaitTest
<1>3. CASE RingLock(t) \/ RingUnlock(t) \/ PostLock(t) \/ PostUnlock(t)
  BY <1>3 DEF RingLock, RingUnlock, PostLock, PostUnlock
<1>4. CASE Copy(t) \/ Advance(t)
  BY <1>4 DEF Copy, Advance
<1>5. CASE PostInc(t)
  BY <1>5 DEF PostInc
<1>6. CASE PostWake(t)
  BY <1>6 DEF PostWake, AfterPost
<1> QED
  BY <1>1, <1>2, <1>3, <1>4, <1>5, <1>6 DEF Step

\* Every step keeps the invariant.
LEMMA InvNext == Inv /\ [Next]_vars => Inv'
<1> SUFFICES ASSUME Inv, [Next]_vars PROVE Inv'
  OBVIOUS
<1>1. CASE UNCHANGED vars
  <2> USE DEF vars
  <2>1. TypeOK' /\ UnitsConserved' /\ SleeperWillBeWoken'
    BY <1>1 DEF Inv, PipelineSound, TypeOK, UnitsConserved, SleeperWillBeWoken, Carries
  <2>2. LoopsBounded' /\ CountsExact' /\ IndicesExact' /\ RingExact'
    BY <1>1 DEF Inv, LoopsBounded, CountsExact, IndicesExact, RingExact,
                Taken, Advanced, Posted, Copied
  <2> QED
    BY <2>1, <2>2 DEF Inv, PipelineSound
<1>2. ASSUME NEW t \in Threads, Step(t)
      PROVE  Inv'
  <2>1. TypeOK' /\ LoopsBounded' /\ CountsExact' /\ IndicesExact' /\ RingExact' /\ SleeperWillBeWoken'
    BY <1>2, TypeNext, CountsNext, IndicesNext, RingNext, SleeperNext
  <2>2. UnitsConserved'
    BY <2>1, UnitsFromCounts, PTL
  <2> QED
    BY <2>1, <2>2 DEF Inv, PipelineSound
<1> QED
  BY <1>1, <1>2 DEF Next

LEMMA InvAlways == Spec => []Inv
BY InvInit, InvNext, PTL DEF Spec

\* sem_wait and sem_post: for every size of the ring and number of items, no
\* unit of a semaphore is lost or made up and no sleeper is forgotten.
THEOREM PipelineCorrect == Spec => []PipelineSound
<1>1. Inv => PipelineSound
  BY DEF Inv
<1> QED
  BY InvAlways, <1>1, PTL

-----------------------------------------------------------------------------
(* The refinement of the bounded buffer.                                    *)

\* The buffer that the ring and the threads' places stand for: the items from
\* the consumer's next one to the producer's last one.
LEMMA BufIs ==
  ASSUME Inv
  PROVE  buf = [k \in 1 .. Copied("producer") - Copied("consumer") |-> Copied("consumer") + k]
<1> DEFINE P == Copied("producer")
           C == Copied("consumer")
<1>1. P \in Nat /\ C \in Nat /\ C <= P
  BY Ahead DEF Inv, PipelineSound
<1>2. ASSUME NEW k \in 1 .. P - C
      PROVE  items[(C + k - 1) % QUEUE_SIZE] = C + k
  <2> HIDE DEF P, C
  <2>1. C + k - 1 \in Nat /\ C <= C + k - 1 /\ C + k - 1 < P /\ (C + k - 1) + 1 = C + k
    BY <1>1
  <2> QED
    BY <2>1 DEF Inv, RingExact, P, C
<1> QED
  BY <1>2 DEF buf

\* producer_func's copy is a Put, consumer_func's a Get, and every other step
\* leaves the buffer as it is.
LEMMA StepRefines ==
  ASSUME Inv, Inv', NEW t \in Threads, Step(t)
  PROVE  [F!Next]_<<buf, Copied("producer"), got>>
<1> DEFINE P == Copied("producer")
           C == Copied("consumer")
<1>1. TypeOK /\ CountsExact /\ "producer" \in Threads /\ "consumer" \in Threads
  BY DEF Inv, PipelineSound, Threads
<1>2. P \in Nat /\ C \in Nat /\ C <= P
  BY <1>1, Ahead
<1>3. buf = [k \in 1 .. P - C |-> C + k]
  BY BufIs
<1>4. buf' = [k \in 1 .. P' - C' |-> C' + k]
  <2>1. (buf = [k \in 1 .. Copied("producer") - Copied("consumer") |-> Copied("consumer") + k])'
    BY BufIs, PTL
  <2> QED
    BY <2>1
<1>5. CASE Copy(t) /\ t = "producer"
  <2>1. P' = P + 1 /\ C' = C /\ got' = got /\ P - C < QUEUE_SIZE
    BY <1>1, <1>5, Own, Others, Ahead, Zenon DEF Copy, Go
  <2> HIDE DEF P, C
  <2>2. Len(buf) = P - C /\ buf \in Seq(Nat)
    BY <1>2, <1>3
  <2>3. buf' = Append(buf, P')
    BY <1>2, <1>3, <1>4, <2>1, <2>2
  <2> QED
    BY <2>1, <2>2, <2>3 DEF F!Next, F!Put, P
<1>6. CASE Copy(t) /\ t = "consumer"
  <2>1. P' = P /\ C' = C + 1 /\ got' = Append(got, items[head]) /\ C < P
    BY <1>1, <1>6, Own, Others, Ahead, Zenon DEF Copy, Go
  <2>2. head = C % QUEUE_SIZE
    BY <1>6 DEF Inv, IndicesExact, Advanced, Copied, AtCopied, Copy, Go
  <2>3. items[head] = C + 1
    BY <1>2, <2>1, <2>2 DEF Inv, RingExact
  <2> HIDE DEF P, C
  <2>4. buf # <<>> /\ Head(buf) = C + 1 /\ buf \in Seq(Nat)
    BY <1>2, <1>3, <2>1
  <2>5. buf' = Tail(buf)
    BY <1>2, <1>3, <1>4, <2>1, <2>4
  <2> QED
    BY <2>1, <2>3, <2>4, <2>5 DEF F!Next, F!Get, P
<1>7. CASE ~Copy(t)
  <2>1. P' = P /\ C' = C
    BY <1>1, <1>2, <1>7, Own, Others, SMTT(20) DEF Threads
  <2>2. got' = got
    BY <1>7 DEF Step, WaitLock, WaitTest, WaitUnlock, FutexWait, RingLock, Advance, RingUnlock,
                PostLock, PostInc, PostUnlock, PostWake
  <2> QED
    BY <1>3, <1>4, <2>1, <2>2
<1> QED
  BY <1>5, <1>6, <1>7 DEF Threads

\* producer_func and consumer_func implement the bounded buffer, for every size
\* of the ring: each item arrives once and in order, none is overwritten.
THEOREM FifoRefinement == Spec => ImplementsFifo
<1>1. Init => F!Init
  <2> SUFFICES ASSUME Init PROVE F!Init
    OBVIOUS
  <2>1. Copied("producer") = 0 /\ Copied("consumer") = 0
    BY DEF Init, Copied, Threads
  <2>2. buf = <<>>
    BY <2>1 DEF buf
  <2> QED
    BY <2>1, <2>2 DEF Init, F!Init
<1>2. Inv /\ Inv' /\ [Next]_vars => [F!Next]_<<buf, Copied("producer"), got>>
  <2> SUFFICES ASSUME Inv, Inv', [Next]_vars PROVE [F!Next]_<<buf, Copied("producer"), got>>
    OBVIOUS
  <2>1. CASE UNCHANGED vars
    BY <2>1 DEF vars, buf, Copied
  <2>2. CASE Next
    BY <2>2, StepRefines DEF Next
  <2> QED
    BY <2>1, <2>2
<1> QED
  BY <1>1, <1>2, InvAlways, PTL DEF Spec, ImplementsFifo, F!Spec
=============================================================================
