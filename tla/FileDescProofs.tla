--------------------------- MODULE FileDescProofs ---------------------------
(***************************************************************************)
(* The reference counts, the descriptors of sockets and the ownership of   *)
(* TCP slots, for any number of processes, descriptors, files and sockets. *)
(***************************************************************************)
EXTENDS FileDesc, FiniteSetTheorems, WellFoundedInduction, TLAPS

\* The table of a slot that no task runs in is empty, and careful programs do
\* not run on after they killed themselves.
Cleared ==
  /\ \A p \in Procs : proc[p].state \notin {"live", "killed"} => fd_table[p] = NoFds
  /\ careful => \A p \in Procs : ~Doomed(p)

-----------------------------------------------------------------------------
(* First-free searches, and finite sets of descriptors.                     *)

\* The loops of the code find a free slot when there is one.
LEMMA FirstIn ==
  ASSUME NEW S \in SUBSET Nat, S # {}
  PROVE  First(S) \in S
<1>1. PICK x \in S : \A y \in S : ~(<<y, x>> \in OpToRel(<, Nat))
  BY NatLessThanWellFounded, WFMin, Zenon
<1>2. \A y \in S : ~(y < x)
  BY <1>1, Zenon DEF OpToRel
<1>3. \A y \in S : x <= y
  BY <1>2
<1> QED
  BY <1>3, Zenon DEF First

\* The constants are what the arithmetic needs.
LEMMA Numbers ==
  /\ Procs \subseteq Nat /\ Fds \subseteq Nat /\ Sockets \subseteq Nat /\ TcpSlots \subseteq Nat
  /\ NULL \notin Sockets /\ NULL \notin TcpSlots /\ NULL \notin Files
  /\ \A f \in Files : f \notin Sockets
BY SlotsAssumption, FilesAssumption DEF Procs, Fds, Sockets, TcpSlots, NULL

\* There are finitely many descriptors.
LEMMA AllFinite == IsFiniteSet(Procs) /\ IsFiniteSet(Fds) /\ IsFiniteSet(Procs \X Fds)
<1>1. IsFiniteSet(Procs) /\ IsFiniteSet(Fds)
  BY SlotsAssumption, FS_Interval DEF Procs, Fds
<1> QED
  BY <1>1, FS_Product

\* So those that name a node can be counted.
LEMMA Countable ==
  ASSUME NEW n
  PROVE  IsFiniteSet(Descriptors(n)) /\ Cardinality(Descriptors(n)) \in Nat
<1>1. Descriptors(n) \subseteq Procs \X Fds
  BY DEF Descriptors
<1> QED
  BY <1>1, AllFinite, FS_Subset, FS_CardinalityType

\* The same in the next state.
LEMMA CountableNext ==
  ASSUME NEW n
  PROVE  IsFiniteSet(Descriptors(n)') /\ Cardinality(Descriptors(n)') \in Nat
<1>1. Descriptors(n)' \subseteq Procs \X Fds
  BY DEF Descriptors
<1> QED
  BY <1>1, AllFinite, FS_Subset, FS_CardinalityType

\* A row of the table has as many descriptors of a kind as it has numbers.
LEMMA RowCount ==
  ASSUME NEW p, NEW fds, fds \subseteq Fds
  PROVE  /\ IsFiniteSet({p} \X fds) /\ IsFiniteSet(fds)
         /\ Cardinality({p} \X fds) = Cardinality(fds)
         /\ Cardinality(fds) \in Nat
<1>1. IsFiniteSet(fds) /\ Cardinality(fds) \in Nat
  BY AllFinite, FS_Subset, FS_CardinalityType
<1>2. IsFiniteSet({p}) /\ Cardinality({p}) = 1
  BY FS_Singleton, Zenon
<1>3. /\ IsFiniteSet({p} \X fds)
      /\ Cardinality({p} \X fds) = Cardinality({p}) * Cardinality(fds)
  BY <1>1, <1>2, FS_Product
<1> QED
  BY <1>1, <1>2, <1>3

-----------------------------------------------------------------------------
(* How the number of descriptors of a node changes.                         *)

\* fd_alloc adds one descriptor of its node.
LEMMA CountAlloc ==
  ASSUME fd_table \in [Procs -> [Fds -> Nodes \cup {NULL}]],
         NEW p \in Procs, NEW fd \in Fds, NEW node \in Nodes, fd_table[p][fd] = NULL,
         fd_table' = [fd_table EXCEPT ![p][fd] = node],
         NEW n \in Nodes
  PROVE  Cardinality(Descriptors(n)') =
           IF n = node THEN Cardinality(Descriptors(n)) + 1 ELSE Cardinality(Descriptors(n))
<1>0. NULL \notin Nodes
  BY Numbers DEF Nodes
<1>1. CASE n = node
  <2>1. Descriptors(n)' = Descriptors(n) \cup {<<p, fd>>}
    BY <1>1 DEF Descriptors
  <2>2. <<p, fd>> \notin Descriptors(n)
    BY <1>0 DEF Descriptors
  <2> QED
    BY <1>1, <2>1, <2>2, Countable, FS_AddElement, Zenon
<1>2. CASE n # node
  <2>1. Descriptors(n)' = Descriptors(n)
    BY <1>0, <1>2 DEF Descriptors
  <2> QED
    BY <1>2, <2>1
<1> QED
  BY <1>1, <1>2

\* Among the descriptors fds of p, those that name the node are counted.
LEMMA CountFree ==
  ASSUME NEW p \in Procs, NEW fds \in SUBSET Fds, NEW n
  PROVE  /\ Cardinality(fds \cap Naming(p, n)) \in Nat
         /\ Cardinality(fds \cap Naming(p, n)) <= Cardinality(Descriptors(n))
         /\ IsFiniteSet(Descriptors(n) \ ({p} \X fds))
         /\ Cardinality(Descriptors(n) \ ({p} \X fds)) =
              Cardinality(Descriptors(n)) - Cardinality(fds \cap Naming(p, n))
<1> DEFINE hit == fds \cap Naming(p, n)
<1>1. Descriptors(n) \cap ({p} \X fds) = {p} \X hit
  BY DEF Descriptors, Naming
<1>2. hit \subseteq Fds
  OBVIOUS
<1>3. /\ Cardinality({p} \X hit) = Cardinality(hit) /\ Cardinality(hit) \in Nat
  BY <1>2, RowCount, Zenon
<1>4. /\ IsFiniteSet(Descriptors(n) \ ({p} \X fds))
      /\ Cardinality(Descriptors(n) \ ({p} \X fds)) =
           Cardinality(Descriptors(n)) - Cardinality(Descriptors(n) \cap ({p} \X fds))
  BY Countable, FS_Difference, Zenon
<1>5. Cardinality(Descriptors(n) \cap ({p} \X fds)) <= Cardinality(Descriptors(n))
  BY Countable, FS_Intersection
<1> QED
  BY <1>1, <1>3, <1>4, <1>5, Zenon

\* fd_table_clone adds a copy of every descriptor of the row.
LEMMA CountCopy ==
  ASSUME fd_table \in [Procs -> [Fds -> Nodes \cup {NULL}]],
         NEW p \in Procs, NEW c \in Procs, fd_table[c] = NoFds,
         fd_table' = [fd_table EXCEPT ![c] = fd_table[p]],
         NEW n \in Nodes
  PROVE  /\ Cardinality(Naming(p, n)) \in Nat
         /\ Cardinality(Descriptors(n)') =
              Cardinality(Descriptors(n)) + Cardinality(Naming(p, n))
<1>0. NULL \notin Nodes
  BY Numbers DEF Nodes
<1> DEFINE new == {c} \X Naming(p, n)
<1>1. Descriptors(n)' = Descriptors(n) \cup new
  BY <1>0 DEF Descriptors, Naming, NoFds
<1>2. Descriptors(n) \cap new = {}
  BY <1>0 DEF Descriptors, Naming, NoFds
<1>3. /\ IsFiniteSet(new) /\ Cardinality(new) = Cardinality(Naming(p, n))
      /\ Cardinality(Naming(p, n)) \in Nat
  BY RowCount, Zenon DEF Naming
<1>4. Cardinality(Descriptors(n)') =
        Cardinality(Descriptors(n)) + Cardinality(new) - Cardinality(Descriptors(n) \cap new)
  BY <1>1, <1>3, Countable, FS_Union
<1>5. Cardinality(Descriptors(n) \cap new) = 0
  BY <1>2, FS_EmptySet, Zenon
<1> QED
  BY <1>3, <1>4, <1>5, Countable

-----------------------------------------------------------------------------
(* Types, and the empty tables of free slots.                               *)

Tasks == [state : {"free", "live", "killed", "zombie"}, is_thread : BOOLEAN,
          parent : Procs \cup {NULL}]

\* Freeing slots: the others keep their state.
LEMMA FreedSlots ==
  ASSUME NEW t \in [Procs -> Tasks], NEW dead \in SUBSET Procs
  PROVE  /\ Freed(t, dead) \in [Procs -> Tasks]
         /\ \A q \in Procs : Freed(t, dead)[q].state = IF q \in dead THEN "free" ELSE t[q].state
<1> SUFFICES ASSUME NEW q \in Procs
             PROVE  /\ Freed(t, dead)[q] \in Tasks
                    /\ Freed(t, dead)[q].state = IF q \in dead THEN "free" ELSE t[q].state
  BY Zenon DEF Freed
<1>1. CASE q \in dead
  BY <1>1 DEF Freed, FreeSlot, Tasks
<1>2. CASE q \notin dead
  <2>1. Freed(t, dead)[q] = [t[q] EXCEPT !.parent = IF @ \in dead THEN NULL ELSE @]
    BY <1>2 DEF Freed
  <2>2. t[q] \in Tasks
    OBVIOUS
  <2> QED
    BY <1>2, <2>1, <2>2 DEF Tasks
<1> QED
  BY <1>1, <1>2

\* exit: no task begins to run, that of p no longer does, and without children
\* the other slots keep their state.
LEMMA ExitedSlots ==
  ASSUME TypeOK, NEW p \in Procs
  PROVE  /\ Exited(p) \in [Procs -> Tasks]
         /\ Exited(p)[p].state \notin {"live", "killed"}
         /\ \A q \in Procs : Exited(p)[q].state \in {"live", "killed"} =>
              Exited(p)[q].state = proc[q].state
         /\ Children(p) = {} => \A q \in Procs \ {p} : Exited(p)[q].state = proc[q].state
<1> DEFINE t == [proc EXCEPT ![p].state = "zombie"]
           dead == (IF proc[p].is_thread \/ Doomed(p) THEN {p} ELSE {})
                     \cup (IF proc[p].is_thread THEN {} ELSE Children(p))
<1>0. proc \in [Procs -> Tasks] /\ Children(p) \in SUBSET Procs
  BY DEF TypeOK, Tasks, Children
<1>1. Exited(p) = Freed(t, dead)
  BY DEF Exited
<1>2. t \in [Procs -> Tasks] /\ t[p].state = "zombie" /\ \A q \in Procs \ {p} : t[q] = proc[q]
  BY <1>0 DEF Tasks
<1>3. dead \in SUBSET Procs /\ (Children(p) = {} => dead \subseteq {p})
  BY <1>0
<1> HIDE DEF t, dead
<1> QED
  BY <1>1, <1>2, <1>3, FreedSlots

\* First-free searches of the actions.
LEMMA Found ==
  ASSUME TypeOK
  PROVE  /\ \A p \in Procs : FreeFds(p) # {} => First(FreeFds(p)) \in FreeFds(p)
         /\ TcpSlots \ tcp # {} => First(TcpSlots \ tcp) \in TcpSlots \ tcp
         /\ \A S \in SUBSET Sockets : S # {} => First(S) \in S
         /\ FreeSlots # {} => First(FreeSlots) \in FreeSlots
BY Numbers, FirstIn DEF FreeFds, FreeSlots

\* The counts stay counts when descriptors are freed.
LEMMA UnreferencedType ==
  ASSUME TypeOK, NEW p \in Procs, NEW fds \in SUBSET Fds
  PROVE  Unreferenced(p, fds) \in [Files -> 0 .. MAX_REFS]
<1>1. \A f \in Files : Cardinality(fds \cap Naming(p, f)) \in Nat
  BY RowCount, Zenon
<1> QED
  BY <1>1, SlotsAssumption DEF TypeOK, Unreferenced

\* Closing sockets keeps the types of both tables.
LEMMA CloseType ==
  ASSUME TypeOK, NEW ss, socket_close(ss)
  PROVE  /\ sock' \in [Sockets -> [in_use : BOOLEAN, tcp_sock : TcpSlots \cup {NULL}]]
         /\ tcp' \subseteq TcpSlots
BY DEF TypeOK, socket_close, Closed

\* A task that forks finds a slot with an empty table, or its own.
LEMMA ForkSlot ==
  ASSUME TypeOK, Cleared, NEW p \in Procs, Running(p), FreeSlots # {}
  PROVE  /\ First(FreeSlots) \in Procs
         /\ First(FreeSlots) # p => fd_table[First(FreeSlots)] = NoFds
         /\ First(FreeSlots) = p => Doomed(p)
<1> DEFINE c == First(FreeSlots)
<1>1. c \in Procs \ {1} /\ proc[c].state \in {"free", "killed"}
  BY Found DEF FreeSlots
<1> HIDE DEF c
<1>2. c # p => proc[c].state = "free"
  BY <1>1 DEF Running, Doomed
<1> QED
  BY <1>1, <1>2 DEF Running, Doomed, Cleared, c

\* Every action keeps the types, and the tables of slots that no task runs in
\* empty.
LEMMA TypeNext ==
  ASSUME TypeOK, Cleared, [Next]_vars
  PROVE  TypeOK' /\ Cleared'
<1> USE DEF NULL
<1>0. /\ proc \in [Procs -> Tasks]
      /\ fd_table \in [Procs -> [Fds -> Nodes \cup {NULL}]]
      /\ NoFds \in [Fds -> Nodes \cup {NULL}]
  BY DEF TypeOK, Tasks, NoFds
<1>1. ASSUME NEW p \in Procs, Running(p), NEW f \in Files, sys_open(p, f)
      PROVE  TypeOK' /\ Cleared'
  <2>1. First(FreeFds(p)) \in Fds
    BY <1>1, Found, Zenon DEF sys_open, FreeFds
  <2>2. fd_table' \in [Procs -> [Fds -> Nodes \cup {NULL}]]
    BY <1>0, <1>1, <2>1 DEF sys_open, fd_alloc, Nodes
  <2>3. refcount' \in [Files -> 0 .. MAX_REFS]
    BY <1>1, SlotsAssumption DEF sys_open, TypeOK
  <2>4. Cleared'
    BY <1>0, <1>1 DEF sys_open, fd_alloc, Cleared, Running, Doomed
  <2> QED
    BY <1>1, <2>2, <2>3, <2>4 DEF sys_open, TypeOK
<1>2. ASSUME NEW p \in Procs, Running(p), NEW fd \in Fds, sys_close(p, fd)
      PROVE  TypeOK' /\ Cleared'
  <2>1. fd_table' \in [Procs -> [Fds -> Nodes \cup {NULL}]]
    BY <1>0, <1>2 DEF sys_close
  <2>2. refcount' \in [Files -> 0 .. MAX_REFS]
    BY <1>2, UnreferencedType DEF sys_close, fd_free
  <2>3. /\ sock' \in [Sockets -> [in_use : BOOLEAN, tcp_sock : TcpSlots \cup {NULL}]]
        /\ tcp' \subseteq TcpSlots
    BY <1>2, CloseType DEF sys_close, fd_free
  <2>4. Cleared'
    BY <1>0, <1>2 DEF sys_close, Cleared, Running, Doomed
  <2> QED
    BY <1>2, <2>1, <2>2, <2>3, <2>4 DEF sys_close, TypeOK
<1>3. ASSUME NEW p \in Procs, NEW fd \in Fds, sys_shutdown(p, fd)
      PROVE  TypeOK' /\ Cleared'
  <2>1. /\ sock' \in [Sockets -> [in_use : BOOLEAN, tcp_sock : TcpSlots \cup {NULL}]]
        /\ tcp' \subseteq TcpSlots
    BY <1>3, CloseType DEF sys_shutdown
  <2> QED
    BY <1>3, <2>1 DEF sys_shutdown, TypeOK, Cleared, Doomed
<1>4. ASSUME NEW p \in Procs, Running(p), NEW b \in BOOLEAN, sys_socket(p, b)
      PROVE  TypeOK' /\ Cleared'
  <2> DEFINE s == First({r \in Sockets : ~sock[r].in_use})
  <2>1. First(FreeFds(p)) \in Fds /\ s \in Sockets
    BY <1>4, Found, Zenon DEF sys_socket, FreeFds
  <2>2. b => First(TcpSlots \ tcp) \in TcpSlots
    <3>1. b => TcpSlots \ tcp # {}
      BY <1>4, Zenon DEF sys_socket, socket_create, TypeOK
    <3> QED
      BY <3>1, Found
  <2>3. fd_table' \in [Procs -> [Fds -> Nodes \cup {NULL}]]
    BY <1>0, <1>4, <2>1 DEF sys_socket, fd_alloc, Nodes
  <2>4. /\ sock' \in [Sockets -> [in_use : BOOLEAN, tcp_sock : TcpSlots \cup {NULL}]]
        /\ tcp' \subseteq TcpSlots
    BY <1>4, <2>1, <2>2, Zenon DEF sys_socket, socket_create, tcp_socket_create, TypeOK
  <2>5. Cleared'
    BY <1>0, <1>4 DEF sys_socket, fd_alloc, Cleared, Running, Doomed
  <2> QED
    BY <1>4, <2>3, <2>4, <2>5 DEF sys_socket, TypeOK
<1>5. ASSUME NEW p \in Procs, Running(p), NEW b \in BOOLEAN, process_fork(p, b)
      PROVE  TypeOK' /\ Cleared'
  <2> DEFINE c == First(FreeSlots)
  <2>1. c \in Procs
    BY <1>5, ForkSlot DEF process_fork
  <2>2. proc' = [proc EXCEPT ![c] = [state |-> "live", is_thread |-> b, parent |-> p]]
    BY <1>5 DEF process_fork
  <2>3. fd_table' = [fd_table EXCEPT ![c] = fd_table[p]]
    BY <1>5 DEF process_fork
  <2> HIDE DEF c
  <2>4. proc' \in [Procs -> Tasks] /\ proc'[c].state = "live"
    BY <1>0, <2>1, <2>2 DEF Tasks
  <2>5. fd_table' \in [Procs -> [Fds -> Nodes \cup {NULL}]]
    BY <1>0, <2>1, <2>3
  <2>6. refcount' \in [Files -> 0 .. MAX_REFS]
    <3>1. \A f \in Files : Cardinality(Naming(p, f)) \in Nat
      BY RowCount, Zenon DEF Naming
    <3> QED
      BY <1>5, <3>1, SlotsAssumption DEF process_fork, Inherited, TypeOK
  <2>7. Cleared'
    BY <1>0, <1>5, <2>1, <2>2, <2>3, <2>4 DEF Cleared, process_fork, Doomed
  <2> QED
    BY <1>5, <2>4, <2>5, <2>6, <2>7 DEF process_fork, TypeOK, Tasks
<1>6. ASSUME NEW p \in Procs, process_exit(p)
      PROVE  TypeOK' /\ Cleared'
  <2>1. proc' \in [Procs -> Tasks]
    BY <1>6, ExitedSlots DEF process_exit
  <2>2. fd_table' \in [Procs -> [Fds -> Nodes \cup {NULL}]]
    BY <1>0, <1>6 DEF process_exit, Kept
  <2>3. refcount' \in [Files -> 0 .. MAX_REFS]
    BY <1>6, UnreferencedType DEF process_exit, fd_free
  <2>4. /\ sock' \in [Sockets -> [in_use : BOOLEAN, tcp_sock : TcpSlots \cup {NULL}]]
        /\ tcp' \subseteq TcpSlots
    BY <1>6, CloseType DEF process_exit, fd_free
  <2>5. Cleared'
    BY <1>6, ExitedSlots DEF process_exit, Kept, Cleared, Doomed
  <2> QED
    BY <1>6, <2>1, <2>2, <2>3, <2>4, <2>5 DEF process_exit, TypeOK, Tasks
<1>7. ASSUME NEW p \in Procs, NEW q \in Procs, process_kill(p, q)
      PROVE  TypeOK' /\ Cleared'
  <2>1. /\ proc' \in [Procs -> Tasks]
        /\ \A r \in Procs \ {q} : proc'[r].state = proc[r].state
        /\ proc'[q].state = "free" \/ q \in {p, 1}
    <3>1. CASE q \in {p, 1}
      <4>1. proc' = [proc EXCEPT ![q].state = "killed", ![q].parent = NULL]
        BY <1>7, <3>1 DEF process_kill
      <4>2. [proc[q] EXCEPT !.state = "killed", !.parent = NULL] \in Tasks
        BY <1>0 DEF Tasks
      <4>3. proc' = [proc EXCEPT ![q] = [proc[q] EXCEPT !.state = "killed", !.parent = NULL]]
        BY <1>0, <4>1
      <4> QED
        BY <1>0, <3>1, <4>2, <4>3
    <3>2. CASE q \notin {p, 1}
      <4>1. proc' = Freed(proc, {q}) /\ {q} \in SUBSET Procs
        BY <1>7, <3>2 DEF process_kill
      <4> QED
        BY <1>0, <4>1, FreedSlots
    <3> QED
      BY <3>1, <3>2
  <2>2. fd_table' = [fd_table EXCEPT ![q] = NoFds]
    BY <1>7 DEF process_kill
  <2>3. refcount' \in [Files -> 0 .. MAX_REFS]
    BY <1>7, UnreferencedType DEF process_kill, fd_free
  <2>4. /\ sock' \in [Sockets -> [in_use : BOOLEAN, tcp_sock : TcpSlots \cup {NULL}]]
        /\ tcp' \subseteq TcpSlots
    BY <1>7, CloseType DEF process_kill, fd_free
  <2>5. Cleared'
    <3>1. \A r \in Procs : proc'[r].state \notin {"live", "killed"} => fd_table'[r] = NoFds
      BY <1>0, <2>1, <2>2 DEF Cleared
    <3>2. careful => \A r \in Procs : ~Doomed(r)'
      BY <1>7, <2>1 DEF Cleared, process_kill, Doomed
    <3> QED
      BY <1>7, <3>1, <3>2 DEF Cleared, process_kill
  <2>6. fd_table' \in [Procs -> [Fds -> Nodes \cup {NULL}]]
    BY <1>0, <2>2
  <2>7. careful' \in BOOLEAN
    BY <1>7 DEF process_kill, TypeOK
  <2> QED
    BY <2>1, <2>3, <2>4, <2>5, <2>6, <2>7, Zenon DEF TypeOK, Tasks
<1>8. ASSUME NEW p \in Procs, NEW q \in Procs, process_wait4(p, q)
      PROVE  TypeOK' /\ Cleared'
  <2>1. /\ proc' \in [Procs -> Tasks]
        /\ \A r \in Procs : proc'[r].state = IF r = q THEN "free" ELSE proc[r].state
    <3>1. proc' = Freed(proc, {q}) /\ {q} \in SUBSET Procs
      BY <1>8 DEF process_wait4
    <3> QED
      BY <1>0, <3>1, FreedSlots
  <2>2. Cleared'
    BY <1>8, <2>1 DEF process_wait4, Cleared, Doomed
  <2> QED
    BY <1>8, <2>1, <2>2, Zenon DEF process_wait4, TypeOK, Tasks
<1>9. ASSUME NEW p \in Procs, Running(p), NEW b \in BOOLEAN, process_fork_self(p, b)
      PROVE  TypeOK' /\ Cleared'
  <2> DEFINE t == Freed(proc, {p})
  <2>1. t \in [Procs -> Tasks] /\ \A r \in Procs \ {p} : t[r].state = proc[r].state
    BY <1>0, FreedSlots
  <2>2. /\ proc' = [t EXCEPT ![p] = [state |-> "live", is_thread |-> b, parent |-> p]]
        /\ fd_table' = [fd_table EXCEPT ![p] = NoFds]
        /\ UNCHANGED <<refcount, sock, tcp, careful>>
    BY <1>9 DEF process_fork_self
  <2> HIDE DEF t
  <2>3. /\ proc' \in [Procs -> Tasks]
        /\ \A r \in Procs : proc'[r].state = IF r = p THEN "live" ELSE proc[r].state
    BY <2>1, <2>2 DEF Tasks
  <2>4. fd_table' \in [Procs -> [Fds -> Nodes \cup {NULL}]]
    BY <1>0, <2>2
  <2>5. Cleared'
    BY <1>0, <2>2, <2>3 DEF Cleared, Doomed
  <2> QED
    BY <2>2, <2>3, <2>4, <2>5 DEF TypeOK, Tasks
<1>10. ASSUME NEW p \in Procs, scheduler_tick(p)
       PROVE  TypeOK' /\ Cleared'
  <2>1. /\ proc' \in [Procs -> Tasks]
        /\ \A r \in Procs : proc'[r].state = IF r = p THEN "free" ELSE proc[r].state
    <3>1. proc' = Freed(proc, {p}) /\ {p} \in SUBSET Procs
      BY <1>10 DEF scheduler_tick
    <3> QED
      BY <1>0, <3>1, FreedSlots
  <2>2. /\ fd_table' = Kept(fd_table)
        /\ UNCHANGED <<refcount, sock, tcp, careful>>
    BY <1>10 DEF scheduler_tick
  <2>3. fd_table' \in [Procs -> [Fds -> Nodes \cup {NULL}]]
    BY <1>0, <2>2 DEF Kept
  <2>4. Cleared'
    BY <2>1, <2>2 DEF Kept, Cleared, Doomed
  <2> QED
    BY <2>1, <2>2, <2>3, <2>4 DEF TypeOK, Tasks
<1>11. CASE UNCHANGED vars
  BY <1>11 DEF vars, TypeOK, Cleared, Doomed
<1> QED
  BY <1>1, <1>2, <1>3, <1>4, <1>5, <1>6, <1>7, <1>8, <1>9, <1>10, <1>11, Zenon DEF Next

-----------------------------------------------------------------------------
(* Reference counts, and the descriptors of sockets.                        *)

\* What close, exit and kill do to the tables: the descriptors fds of p are
\* gone and, for careful programs, no others.
Frees(p, fds) ==
  \A n \in Nodes : /\ Descriptors(n)' \subseteq Descriptors(n) \ ({p} \X fds)
                   /\ careful => Descriptors(n)' = Descriptors(n) \ ({p} \X fds)

\* A smaller set of descriptors has a smaller count, so close, exit and kill
\* keep the counts right.
LEMMA RefcountFree ==
  ASSUME TypeOK, RefcountCovers, RefcountExact, UNCHANGED careful,
         NEW p \in Procs, NEW fds \in SUBSET Fds,
         Frees(p, fds), refcount' = Unreferenced(p, fds)
  PROVE  RefcountCovers' /\ RefcountExact'
<1> SUFFICES ASSUME NEW f \in Files
             PROVE  /\ refcount'[f] >= Cardinality(Descriptors(f)')
                    /\ careful => refcount'[f] = Cardinality(Descriptors(f)')
  BY DEF RefcountCovers, RefcountExact
<1> DEFINE D == Descriptors(f)
           gone == {p} \X fds
           k == Cardinality(fds \cap Naming(p, f))
<1>1. D' \subseteq D \ gone /\ (careful => D' = D \ gone)
  BY DEF Frees, Nodes
<1>2. /\ IsFiniteSet(D) /\ Cardinality(D) \in Nat
      /\ Cardinality(D') \in Nat
  BY Countable, CountableNext
<1>3. /\ k \in Nat /\ k <= Cardinality(D)
      /\ IsFiniteSet(D \ gone) /\ Cardinality(D \ gone) = Cardinality(D) - k
  BY CountFree, Zenon
<1>4. Cardinality(D') <= Cardinality(D \ gone)
  <2> HIDE DEF D, gone
  <2> QED
    BY <1>1, <1>3, FS_Subset
<1>5. careful => Cardinality(D') = Cardinality(D \ gone)
  BY <1>1
<1>6. refcount[f] \in Nat
  BY SlotsAssumption DEF TypeOK
<1>7. refcount[f] >= Cardinality(D)
  BY DEF RefcountCovers
<1>8. careful => refcount[f] = Cardinality(D)
  BY DEF RefcountExact
<1>9. refcount'[f] = IF refcount[f] > k THEN refcount[f] - k ELSE 0
  BY DEF Unreferenced
<1>10. refcount'[f] >= Cardinality(D')
  <2> HIDE DEF D, k, gone
  <2> QED
    BY <1>2, <1>3, <1>4, <1>6, <1>7, <1>9
<1>11. careful => refcount'[f] = Cardinality(D')
  <2> HIDE DEF D, k, gone
  <2> QED
    BY <1>2, <1>3, <1>5, <1>6, <1>8, <1>9
<1> QED
  BY <1>10, <1>11

\* Closing the sockets that the freed descriptors name leaves none behind.
LEMMA SocketsFree ==
  ASSUME TypeOK, SocketsHaveOneDescriptor, UNCHANGED careful,
         NEW p \in Procs, NEW fds \in SUBSET Fds, Frees(p, fds),
         socket_close({fd_table[p][fd] : fd \in fds} \cap Sockets)
  PROVE  SocketsHaveOneDescriptor'
<1> SUFFICES ASSUME careful, NEW s \in Sockets
             PROVE  Cardinality(Descriptors(s)') = IF sock'[s].in_use THEN 1 ELSE 0
  BY DEF SocketsHaveOneDescriptor
<1> DEFINE hit == fds \cap Naming(p, s)
<1>1. Descriptors(s)' = Descriptors(s) \ ({p} \X fds)
  BY DEF Frees, Nodes
<1>2. /\ Cardinality(hit) \in Nat
      /\ Cardinality(hit) <= Cardinality(Descriptors(s))
      /\ Cardinality(Descriptors(s)') = Cardinality(Descriptors(s)) - Cardinality(hit)
  <2>1. /\ Cardinality(hit) \in Nat
        /\ Cardinality(hit) <= Cardinality(Descriptors(s))
        /\ Cardinality(Descriptors(s) \ ({p} \X fds)) =
             Cardinality(Descriptors(s)) - Cardinality(hit)
    BY CountFree, Zenon
  <2> QED
    BY <1>1, <2>1, Zenon
<1>3. Cardinality(Descriptors(s)) = IF sock[s].in_use THEN 1 ELSE 0
  BY DEF SocketsHaveOneDescriptor
<1>4. s \in {fd_table[p][fd] : fd \in fds} <=> hit # {}
  BY DEF Naming
<1>5. IsFiniteSet(hit)
  BY RowCount, Zenon
<1>6. Cardinality(hit) = 0 <=> hit = {}
  BY <1>5, FS_EmptySet
<1>7. sock'[s] = IF hit # {} THEN Closed ELSE sock[s]
  BY <1>4 DEF socket_close
<1>8. ~Closed.in_use
  BY DEF Closed
<1>9. Cardinality(Descriptors(s)) \in Nat
  BY Countable
<1> HIDE DEF hit
<1>10. CASE hit = {}
  <2>1. Cardinality(Descriptors(s)') = Cardinality(Descriptors(s))
    BY <1>2, <1>6, <1>9, <1>10
  <2> QED
    BY <1>3, <1>7, <1>10, <2>1
<1>11. CASE hit # {}
  <2>1. Cardinality(Descriptors(s)') = 0
    BY <1>2, <1>3, <1>6, <1>9, <1>11
  <2> QED
    BY <1>7, <1>8, <1>11, <2>1
<1> QED
  BY <1>10, <1>11

\* close frees one descriptor.
LEMMA CloseFrees ==
  ASSUME TypeOK, NEW p \in Procs, NEW fd \in Fds, sys_close(p, fd)
  PROVE  Frees(p, {fd})
<1>1. NULL \notin Nodes
  BY Numbers DEF Nodes
<1>2. /\ fd_table \in [Procs -> [Fds -> Nodes \cup {NULL}]]
      /\ fd_table' = [fd_table EXCEPT ![p][fd] = NULL]
  BY DEF TypeOK, sys_close
<1>3. ASSUME NEW n \in Nodes
      PROVE  Descriptors(n)' = Descriptors(n) \ ({p} \X {fd})
  BY <1>1, <1>2 DEF Descriptors
<1> QED
  BY <1>3 DEF Frees

\* kill frees the whole table of its victim.
LEMMA KillFrees ==
  ASSUME TypeOK, NEW p \in Procs, NEW q \in Procs, process_kill(p, q)
  PROVE  Frees(q, Fds)
<1>1. NULL \notin Nodes
  BY Numbers DEF Nodes
<1>2. /\ fd_table \in [Procs -> [Fds -> Nodes \cup {NULL}]]
      /\ fd_table' = [fd_table EXCEPT ![q] = NoFds]
  BY DEF TypeOK, process_kill
<1>3. ASSUME NEW n \in Nodes
      PROVE  Descriptors(n)' = Descriptors(n) \ ({q} \X Fds)
  BY <1>1, <1>2 DEF Descriptors, NoFds
<1> QED
  BY <1>3 DEF Frees

\* exit frees the table of the task, and the tables of its children are lost
\* with them.
LEMMA ExitFrees ==
  ASSUME TypeOK, Cleared, NEW p \in Procs, process_exit(p)
  PROVE  Frees(p, Fds)
<1>1. NULL \notin Nodes
  BY Numbers DEF Nodes
<1>2. fd_table' = [q \in Procs |-> IF proc'[q].state \in {"live", "killed"} THEN fd_table[q]
                                  ELSE NoFds]
  BY DEF process_exit, Kept
<1>3. /\ proc'[p].state \notin {"live", "killed"}
      /\ careful => \A q \in Procs \ {p} : proc'[q].state = proc[q].state
  BY ExitedSlots DEF process_exit
<1>4. \A q \in Procs : proc[q].state \notin {"live", "killed"} => fd_table[q] = NoFds
  BY DEF Cleared
<1>5. ASSUME NEW n \in Nodes
      PROVE  Descriptors(n)' \subseteq Descriptors(n) \ ({p} \X Fds)
  BY <1>1, <1>2, <1>3 DEF Descriptors, NoFds
<1>6. ASSUME careful, NEW n \in Nodes
      PROVE  Descriptors(n) \ ({p} \X Fds) \subseteq Descriptors(n)'
  <2> SUFFICES ASSUME NEW d \in Procs \X Fds, d[1] # p, fd_table[d[1]][d[2]] = n
               PROVE  fd_table'[d[1]][d[2]] = n
    BY DEF Descriptors
  <2>1. proc[d[1]].state \in {"live", "killed"}
    BY <1>1, <1>4 DEF NoFds
  <2> QED
    BY <1>2, <1>3, <1>6, <2>1
<1> QED
  BY <1>5, <1>6 DEF Frees

\* What a task that killed itself opened afterwards is lost with its slot: the
\* counts then exceed the descriptors.
LEMMA RefcountLoss ==
  ASSUME RefcountCovers, refcount \in [Files -> Nat], ~careful, UNCHANGED <<refcount, careful>>,
         \A f \in Files : Descriptors(f)' \subseteq Descriptors(f)
  PROVE  RefcountCovers' /\ RefcountExact'
<1>1. ASSUME NEW f \in Files
      PROVE  Cardinality(Descriptors(f)') <= Cardinality(Descriptors(f))
  BY Countable, FS_Subset
<1>2. \A f \in Files : Cardinality(Descriptors(f)) \in Nat /\ Cardinality(Descriptors(f)') \in Nat
  BY Countable, CountableNext
<1> QED
  BY <1>1, <1>2 DEF RefcountCovers, RefcountExact

\* Only careless programs lose descriptors so.
LEMMA Losses ==
  ASSUME TypeOK, Cleared, NEW p \in Procs, Running(p),
         scheduler_tick(p) \/ \E b \in BOOLEAN : process_fork_self(p, b)
  PROVE  /\ ~careful /\ UNCHANGED <<refcount, sock, careful>>
         /\ \A n \in Nodes : Descriptors(n)' \subseteq Descriptors(n)
<1>0. NULL \notin Nodes
  BY Numbers DEF Nodes
<1>1. Doomed(p)
  BY ForkSlot DEF scheduler_tick, process_fork_self
<1>2. ~careful /\ UNCHANGED <<refcount, sock, careful>>
  BY <1>1 DEF Cleared, scheduler_tick, process_fork_self
<1>3. \A q \in Procs : fd_table'[q] \in {fd_table[q], NoFds}
  BY DEF scheduler_tick, process_fork_self, Kept, TypeOK
<1>4. \A n \in Nodes : Descriptors(n)' \subseteq Descriptors(n)
  BY <1>0, <1>3 DEF Descriptors, NoFds
<1> QED
  BY <1>2, <1>4

\* Every action keeps the counts, relative to the types and the empty tables.
LEMMA RefcountNext ==
  ASSUME TypeOK, Cleared, RefcountCovers, RefcountExact, [Next]_vars
  PROVE  RefcountCovers' /\ RefcountExact'
<1>0. /\ fd_table \in [Procs -> [Fds -> Nodes \cup {NULL}]]
      /\ refcount \in [Files -> Nat]
      /\ Files \subseteq Nodes
  BY SlotsAssumption DEF TypeOK, Nodes
<1>1. ASSUME NEW p \in Procs, NEW f \in Files, sys_open(p, f)
      PROVE  RefcountCovers' /\ RefcountExact'
  <2> DEFINE fd == First(FreeFds(p))
  <2>1. fd \in Fds /\ fd_table[p][fd] = NULL
    BY <1>1, Found, Zenon DEF sys_open, FreeFds
  <2>2. fd_table' = [fd_table EXCEPT ![p][fd] = f]
    BY <1>1 DEF sys_open, fd_alloc
  <2> HIDE DEF fd
  <2>3. \A g \in Files : Cardinality(Descriptors(g)') =
          IF g = f THEN Cardinality(Descriptors(g)) + 1 ELSE Cardinality(Descriptors(g))
    BY <1>0, <2>1, <2>2, CountAlloc, Zenon
  <2>4. \A g \in Files : refcount'[g] = IF g = f THEN refcount[g] + 1 ELSE refcount[g]
    BY <1>0, <1>1 DEF sys_open
  <2>5. UNCHANGED careful
    BY <1>1 DEF sys_open
  <2>6. \A g \in Files : Cardinality(Descriptors(g)) \in Nat
    BY Countable
  <2> QED
    BY <1>0, <2>3, <2>4, <2>5, <2>6 DEF RefcountCovers, RefcountExact
<1>2. ASSUME NEW p \in Procs, NEW fd \in Fds, sys_close(p, fd)
      PROVE  RefcountCovers' /\ RefcountExact'
  <2>1. Frees(p, {fd}) /\ refcount' = Unreferenced(p, {fd}) /\ UNCHANGED careful
    BY <1>2, CloseFrees, Zenon DEF sys_close, fd_free
  <2> QED
    BY <2>1, RefcountFree
<1>3. ASSUME NEW p \in Procs, NEW b \in BOOLEAN, sys_socket(p, b)
      PROVE  RefcountCovers' /\ RefcountExact'
  <2> DEFINE fd == First(FreeFds(p))
             s == First({r \in Sockets : ~sock[r].in_use})
  <2>1. fd \in Fds /\ fd_table[p][fd] = NULL /\ s \in Sockets
    BY <1>3, Found, Zenon DEF sys_socket, FreeFds
  <2>2. fd_table' = [fd_table EXCEPT ![p][fd] = s]
    BY <1>3 DEF sys_socket, fd_alloc
  <2> HIDE DEF fd, s
  <2>3. s \in Nodes /\ \A f \in Files : f # s
    BY <2>1, Numbers DEF Nodes
  <2>4. \A f \in Files : Cardinality(Descriptors(f)') = Cardinality(Descriptors(f))
    BY <1>0, <2>1, <2>2, <2>3, CountAlloc, Zenon
  <2>5. UNCHANGED <<refcount, careful>>
    BY <1>3 DEF sys_socket
  <2> QED
    BY <2>4, <2>5 DEF RefcountCovers, RefcountExact
<1>4. ASSUME NEW p \in Procs, Running(p), NEW b \in BOOLEAN, process_fork(p, b)
      PROVE  RefcountCovers' /\ RefcountExact'
  <2> DEFINE c == First(FreeSlots)
  <2>1. c \in Procs /\ fd_table[c] = NoFds
    BY <1>4, ForkSlot DEF process_fork
  <2>2. fd_table' = [fd_table EXCEPT ![c] = fd_table[p]]
    BY <1>4 DEF process_fork
  <2> HIDE DEF c
  <2>4. \A f \in Files :
          /\ Cardinality(Naming(p, f)) \in Nat
          /\ Cardinality(Descriptors(f)') =
               Cardinality(Descriptors(f)) + Cardinality(Naming(p, f))
    BY <1>0, <2>1, <2>2, CountCopy, Zenon
  <2>5. \A f \in Files : refcount'[f] = refcount[f] + Cardinality(Naming(p, f))
    BY <1>4 DEF process_fork, Inherited
  <2>6. UNCHANGED careful
    BY <1>4 DEF process_fork
  <2>7. \A f \in Files : Cardinality(Descriptors(f)) \in Nat
    BY Countable
  <2> QED
    BY <1>0, <2>4, <2>5, <2>6, <2>7 DEF RefcountCovers, RefcountExact
<1>5. ASSUME NEW p \in Procs, process_exit(p)
      PROVE  RefcountCovers' /\ RefcountExact'
  <2>1. Frees(p, Fds) /\ refcount' = Unreferenced(p, Fds) /\ UNCHANGED careful
    BY <1>5, ExitFrees DEF process_exit, fd_free
  <2> QED
    BY <2>1, RefcountFree
<1>6. ASSUME NEW p \in Procs, NEW q \in Procs, process_kill(p, q)
      PROVE  RefcountCovers' /\ RefcountExact'
  <2>1. Frees(q, Fds) /\ refcount' = Unreferenced(q, Fds) /\ UNCHANGED careful
    BY <1>6, KillFrees, Zenon DEF process_kill, fd_free
  <2> QED
    BY <2>1, RefcountFree
<1>7. ASSUME UNCHANGED <<fd_table, refcount, careful>>
      PROVE  RefcountCovers' /\ RefcountExact'
  BY <1>7 DEF RefcountCovers, RefcountExact, Descriptors
<1>8. ASSUME NEW p \in Procs, Running(p),
             scheduler_tick(p) \/ \E b \in BOOLEAN : process_fork_self(p, b)
      PROVE  RefcountCovers' /\ RefcountExact'
  BY <1>0, <1>8, Losses, RefcountLoss
<1> QED
  BY <1>1, <1>2, <1>3, <1>4, <1>5, <1>6, <1>7, <1>8, Zenon
  DEF Next, vars, sys_shutdown, process_wait4

\* Every action keeps one descriptor for each socket in use.
LEMMA SocketsNext ==
  ASSUME TypeOK, Cleared, SocketsHaveOneDescriptor, [Next]_vars
  PROVE  SocketsHaveOneDescriptor'
<1>0. /\ fd_table \in [Procs -> [Fds -> Nodes \cup {NULL}]]
      /\ Sockets \subseteq Nodes
  BY DEF TypeOK, Nodes
<1>1. ASSUME NEW p \in Procs, NEW f \in Files, sys_open(p, f)
      PROVE  SocketsHaveOneDescriptor'
  <2> DEFINE fd == First(FreeFds(p))
  <2>1. fd \in Fds /\ fd_table[p][fd] = NULL
    BY <1>1, Found, Zenon DEF sys_open, FreeFds
  <2>2. fd_table' = [fd_table EXCEPT ![p][fd] = f]
    BY <1>1 DEF sys_open, fd_alloc
  <2> HIDE DEF fd
  <2>3. f \in Nodes /\ \A s \in Sockets : s # f
    BY Numbers DEF Nodes
  <2>4. \A s \in Sockets : Cardinality(Descriptors(s)') = Cardinality(Descriptors(s))
    BY <1>0, <2>1, <2>2, <2>3, CountAlloc, Zenon
  <2>5. UNCHANGED <<sock, careful>>
    BY <1>1 DEF sys_open
  <2> QED
    BY <2>4, <2>5 DEF SocketsHaveOneDescriptor
<1>2. ASSUME NEW p \in Procs, NEW fd \in Fds, sys_close(p, fd)
      PROVE  SocketsHaveOneDescriptor'
  <2>1. /\ Frees(p, {fd}) /\ UNCHANGED careful
        /\ socket_close({fd_table[p][e] : e \in {fd}} \cap Sockets)
    BY <1>2, CloseFrees, Zenon DEF sys_close, fd_free
  <2> QED
    BY <2>1, SocketsFree
<1>3. ASSUME NEW p \in Procs, NEW b \in BOOLEAN, sys_socket(p, b)
      PROVE  SocketsHaveOneDescriptor'
  <2> DEFINE fd == First(FreeFds(p))
             s == First({r \in Sockets : ~sock[r].in_use})
  <2>1. fd \in Fds /\ fd_table[p][fd] = NULL
    BY <1>3, Found, Zenon DEF sys_socket, FreeFds
  <2>2. s \in Sockets /\ ~sock[s].in_use
    BY <1>3, Found DEF sys_socket
  <2>3. fd_table' = [fd_table EXCEPT ![p][fd] = s] /\ UNCHANGED careful
    BY <1>3 DEF sys_socket, fd_alloc
  <2>4. sock'[s].in_use /\ \A r \in Sockets \ {s} : sock'[r] = sock[r]
    BY <1>3, <2>2 DEF sys_socket, socket_create, TypeOK
  <2> HIDE DEF fd, s
  <2>5. \A r \in Sockets : Cardinality(Descriptors(r)') =
          IF r = s THEN Cardinality(Descriptors(r)) + 1 ELSE Cardinality(Descriptors(r))
    BY <1>0, <2>1, <2>2, <2>3, CountAlloc, Zenon
  <2> SUFFICES ASSUME careful, NEW r \in Sockets
               PROVE  Cardinality(Descriptors(r)') = IF sock'[r].in_use THEN 1 ELSE 0
    BY <2>3 DEF SocketsHaveOneDescriptor
  <2>6. Cardinality(Descriptors(r)) = IF sock[r].in_use THEN 1 ELSE 0
    BY DEF SocketsHaveOneDescriptor
  <2>7. CASE r = s
    <3>1. Cardinality(Descriptors(r)) = 0
      BY <2>2, <2>6, <2>7
    <3>2. Cardinality(Descriptors(r)') = 1
      BY <2>5, <2>7, <3>1
    <3> QED
      BY <2>4, <2>7, <3>2
  <2>8. CASE r # s
    BY <2>4, <2>5, <2>6, <2>8
  <2> QED
    BY <2>7, <2>8
<1>4. ASSUME NEW p \in Procs, Running(p), NEW b \in BOOLEAN, process_fork(p, b)
      PROVE  SocketsHaveOneDescriptor'
  <2> SUFFICES ASSUME careful
               PROVE  \A s \in Sockets : Cardinality(Descriptors(s)') = Cardinality(Descriptors(s))
    BY <1>4 DEF SocketsHaveOneDescriptor, process_fork
  <2> DEFINE c == First(FreeSlots)
  <2>1. c \in Procs /\ fd_table[c] = NoFds
    BY <1>4, ForkSlot DEF process_fork
  <2>2. fd_table' = [fd_table EXCEPT ![c] = fd_table[p]]
    BY <1>4 DEF process_fork
  <2> HIDE DEF c
  <2>4. \A s \in Sockets : Naming(p, s) = {}
    BY <1>4 DEF process_fork, SocketFds, Naming
  <2>5. \A s \in Sockets : Cardinality(Naming(p, s)) = 0
    BY <2>4, FS_EmptySet
  <2>6. \A s \in Sockets : Cardinality(Descriptors(s)') =
          Cardinality(Descriptors(s)) + Cardinality(Naming(p, s))
    BY <1>0, <2>1, <2>2, CountCopy, Zenon
  <2>7. \A s \in Sockets : Cardinality(Descriptors(s)) \in Nat
    BY Countable
  <2> QED
    BY <2>5, <2>6, <2>7
<1>5. ASSUME NEW p \in Procs, process_exit(p)
      PROVE  SocketsHaveOneDescriptor'
  <2>1. /\ Frees(p, Fds) /\ UNCHANGED careful
        /\ socket_close({fd_table[p][fd] : fd \in Fds} \cap Sockets)
    BY <1>5, ExitFrees DEF process_exit, fd_free
  <2> QED
    BY <2>1, SocketsFree
<1>6. ASSUME NEW p \in Procs, NEW q \in Procs, process_kill(p, q)
      PROVE  SocketsHaveOneDescriptor'
  <2>1. /\ Frees(q, Fds) /\ UNCHANGED careful
        /\ socket_close({fd_table[q][fd] : fd \in Fds} \cap Sockets)
    BY <1>6, KillFrees, Zenon DEF process_kill, fd_free
  <2> QED
    BY <2>1, SocketsFree
<1>7. ASSUME NEW p \in Procs, NEW fd \in Fds, sys_shutdown(p, fd)
      PROVE  SocketsHaveOneDescriptor'
  BY <1>7 DEF sys_shutdown, SocketsHaveOneDescriptor
<1>8. ASSUME UNCHANGED <<fd_table, sock, careful>>
      PROVE  SocketsHaveOneDescriptor'
  BY <1>8 DEF SocketsHaveOneDescriptor, Descriptors
<1>9. ASSUME NEW p \in Procs, Running(p),
             scheduler_tick(p) \/ \E b \in BOOLEAN : process_fork_self(p, b)
      PROVE  SocketsHaveOneDescriptor'
  BY <1>9, Losses DEF SocketsHaveOneDescriptor
<1> QED
  BY <1>1, <1>2, <1>3, <1>4, <1>5, <1>6, <1>7, <1>8, <1>9, Zenon DEF Next, vars, process_wait4

-----------------------------------------------------------------------------
(* TCP slots.                                                               *)

\* A socket that is closed gives back its own slot and no other's.
LEMMA TcpClose ==
  ASSUME TypeOK, TcpOwnedOnce, NEW ss \in SUBSET Sockets, socket_close(ss)
  PROVE  TcpOwnedOnce'
<1>1. \A s \in Sockets : sock'[s] = IF s \in ss THEN Closed ELSE sock[s]
  BY DEF socket_close
<1>2. ~Closed.in_use /\ Closed.tcp_sock = NULL
  BY DEF Closed
<1>3. \A x : x \in tcp' <=> x \in tcp /\ \A s \in ss : x # sock[s].tcp_sock
  BY DEF socket_close
<1>4. \A x : x \in tcp <=> x # NULL /\ \E s \in Sockets : sock[s].in_use /\ x = sock[s].tcp_sock
  BY DEF TcpOwnedOnce
<1>5. /\ \A r, s \in Sockets :
           sock[r].tcp_sock = sock[s].tcp_sock /\ r # s => sock[r].tcp_sock = NULL
      /\ \A s \in Sockets : ~sock[s].in_use => sock[s].tcp_sock = NULL
  BY DEF TcpOwnedOnce
<1>6. \A x : x \in tcp' <=> x # NULL /\ \E s \in Sockets : sock'[s].in_use /\ x = sock'[s].tcp_sock
  BY <1>1, <1>2, <1>3, <1>4, <1>5
<1>7. tcp' = {sock'[s].tcp_sock : s \in {r \in Sockets : sock'[r].in_use}} \ {NULL}
  BY <1>6
<1>8. /\ \A r, s \in Sockets :
           sock'[r].tcp_sock = sock'[s].tcp_sock /\ r # s => sock'[r].tcp_sock = NULL
      /\ \A s \in Sockets : ~sock'[s].in_use => sock'[s].tcp_sock = NULL
  BY <1>1, <1>2, <1>5
<1> QED
  BY <1>7, <1>8 DEF TcpOwnedOnce

\* A new stream gets a slot that no socket has.
LEMMA TcpCreate ==
  ASSUME TypeOK, TcpOwnedOnce, NEW s \in Sockets, ~sock[s].in_use,
         NEW b \in BOOLEAN, socket_create(s, b)
  PROVE  TcpOwnedOnce'
<1> DEFINE conn == IF b THEN First(TcpSlots \ tcp) ELSE NULL
<1>1. conn # NULL => conn \notin tcp
  <2>1. b => TcpSlots \ tcp # {}
    BY Zenon DEF socket_create, TypeOK
  <2> QED
    BY <2>1, Found
<1>2. /\ sock' = [sock EXCEPT ![s] = [in_use |-> TRUE, tcp_sock |-> conn]]
      /\ tcp' = tcp \cup ({conn} \ {NULL})
  BY DEF socket_create, tcp_socket_create
<1> HIDE DEF conn
<1>3. /\ sock'[s].in_use /\ sock'[s].tcp_sock = conn
      /\ \A r \in Sockets \ {s} : sock'[r] = sock[r]
  BY <1>2 DEF TypeOK
<1>4. \A x : x \in tcp <=> x # NULL /\ \E r \in Sockets : sock[r].in_use /\ x = sock[r].tcp_sock
  BY DEF TcpOwnedOnce
<1>5. /\ \A r, u \in Sockets :
           sock[r].tcp_sock = sock[u].tcp_sock /\ r # u => sock[r].tcp_sock = NULL
      /\ \A r \in Sockets : ~sock[r].in_use => sock[r].tcp_sock = NULL
  BY DEF TcpOwnedOnce
<1>6. \A x : x \in tcp' <=> x # NULL /\ \E r \in Sockets : sock'[r].in_use /\ x = sock'[r].tcp_sock
  BY <1>2, <1>3, <1>4, <1>5
<1>7. tcp' = {sock'[r].tcp_sock : r \in {u \in Sockets : sock'[u].in_use}} \ {NULL}
  BY <1>6
<1>8. /\ \A r, u \in Sockets :
           sock'[r].tcp_sock = sock'[u].tcp_sock /\ r # u => sock'[r].tcp_sock = NULL
      /\ \A r \in Sockets : ~sock'[r].in_use => sock'[r].tcp_sock = NULL
  BY <1>1, <1>3, <1>4, <1>5
<1> QED
  BY <1>7, <1>8 DEF TcpOwnedOnce

\* No action makes two sockets share a slot or leaves one without an owner.
LEMMA TcpNext ==
  ASSUME TypeOK, TcpOwnedOnce, [Next]_vars
  PROVE  TcpOwnedOnce'
<1>1. ASSUME NEW ss \in SUBSET Sockets, socket_close(ss)
      PROVE  TcpOwnedOnce'
  BY <1>1, TcpClose
<1>2. ASSUME NEW p \in Procs, NEW b \in BOOLEAN, sys_socket(p, b)
      PROVE  TcpOwnedOnce'
  <2> DEFINE free == {r \in Sockets : ~sock[r].in_use}
  <2>1. First(free) \in free /\ socket_create(First(free), b)
    BY <1>2, Found DEF sys_socket
  <2> QED
    BY <2>1, TcpCreate
<1>3. ASSUME UNCHANGED <<sock, tcp>>
      PROVE  TcpOwnedOnce'
  BY <1>3 DEF TcpOwnedOnce
<1>4. ASSUME NEW p \in Procs, NEW fds, fd_free(p, fds)
      PROVE  TcpOwnedOnce'
  BY <1>1, <1>4 DEF fd_free
<1>5. ASSUME NEW p \in Procs, NEW fd \in Fds, sys_shutdown(p, fd)
      PROVE  TcpOwnedOnce'
  BY <1>1, <1>5 DEF sys_shutdown
<1> QED
  BY <1>2, <1>3, <1>4, <1>5, Zenon
  DEF Next, vars, sys_open, sys_close, process_fork, process_fork_self, process_exit,
      scheduler_tick, process_kill, process_wait4

-----------------------------------------------------------------------------
(* The theorems.                                                            *)

\* The inductive invariant.
Inv == /\ TypeOK /\ Cleared /\ RefcountCovers /\ RefcountExact
       /\ SocketsHaveOneDescriptor /\ TcpOwnedOnce

\* vfs_init and socket_subsystem_init.
LEMMA InvInit == Init => Inv
<1> SUFFICES ASSUME Init PROVE Inv
  OBVIOUS
<1>1. TypeOK
  <2>1. proc \in [Procs -> Tasks]
    BY Zenon DEF Init, Tasks, FreeSlot
  <2>2. /\ fd_table \in [Procs -> [Fds -> Nodes \cup {NULL}]]
        /\ refcount \in [Files -> 0 .. MAX_REFS]
    BY SlotsAssumption DEF Init, NoFds
  <2>3. sock \in [Sockets -> [in_use : BOOLEAN, tcp_sock : TcpSlots \cup {NULL}]]
    BY DEF Init, Closed
  <2> QED
    BY <2>1, <2>2, <2>3 DEF Init, TypeOK, Tasks
<1>2. Cleared
  BY DEF Init, Cleared, Doomed, FreeSlot
<1>3. \A n \in Nodes : Descriptors(n) = {}
  BY Numbers DEF Init, Descriptors, NoFds, Nodes
<1>4. \A n \in Nodes : Cardinality(Descriptors(n)) = 0
  BY <1>3, FS_EmptySet
<1>5. RefcountCovers /\ RefcountExact
  BY <1>4 DEF Init, RefcountCovers, RefcountExact, Nodes
<1>6. SocketsHaveOneDescriptor
  BY <1>4 DEF Init, SocketsHaveOneDescriptor, Nodes, Closed
<1>7. TcpOwnedOnce
  BY DEF Init, TcpOwnedOnce, Closed
<1> QED
  BY <1>1, <1>2, <1>5, <1>6, <1>7 DEF Inv

\* The invariant holds in every reachable state.
THEOREM FilesInvariant == Spec => []Inv
<1>1. Inv /\ [Next]_vars => Inv'
  BY TypeNext, RefcountNext, SocketsNext, TcpNext DEF Inv
<1> QED
  BY <1>1, InvInit, PTL DEF Spec

\* vfs_open, fd_free and fd_table_clone: a node's count covers its descriptors
\* whatever programs do, and equals their number for careful programs.
THEOREM RefcountsCorrect == Spec => []RefcountSound
<1>1. Inv => RefcountSound
  BY DEF Inv, RefcountSound
<1> QED
  BY <1>1, FilesInvariant, PTL

\* With careful programs a socket in use has exactly one descriptor and a
\* closed one has none.
THEOREM SocketsCorrect == Spec => []SocketsHaveOneDescriptor
<1>1. Inv => SocketsHaveOneDescriptor
  BY DEF Inv
<1> QED
  BY <1>1, FilesInvariant, PTL

\* Whatever programs do, a TCP slot in use belongs to exactly one socket in use.
THEOREM TcpSlotsCorrect == Spec => []TcpOwnedOnce
<1>1. Inv => TcpOwnedOnce
  BY DEF Inv
<1> QED
  BY <1>1, FilesInvariant, PTL

=============================================================================
