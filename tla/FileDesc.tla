------------------------------ MODULE FileDesc ------------------------------
(***************************************************************************)
(* File descriptors, the nodes they name and the socket tables:            *)
(* kernel/fs/vfs.c, kernel/net/socket.c, the slot table of                 *)
(* kernel/net/tcp.c, and the system calls that open, close and inherit     *)
(* descriptors (kernel/syscall/syscall.c, kernel/process/process.c).       *)
(*                                                                         *)
(* Every process and every thread has a table of its own.  fork and clone  *)
(* copy it and count the copies in the nodes; closing any copy calls the   *)
(* node's close operation, which for a socket ends the connection.  Each   *)
(* call runs with interrupts off, so it is one step; processes interleave  *)
(* between calls.                                                          *)
(*                                                                         *)
(* A task may kill itself: it then runs on until the next timer tick in a  *)
(* slot that is free already.  Pid 1 runs on for good when it is killed,   *)
(* because the tick falls back to it and its slot is never given away.     *)
(*                                                                         *)
(* A program is careful when it holds no socket across fork or clone,      *)
(* leaves shutdown alone, does not kill itself and waits for its children  *)
(* before it exits, as the programs of userland/src do.                    *)
(***************************************************************************)
EXTENDS Naturals, FiniteSets

CONSTANTS
  MAX_PROCESSES,     \* slots of process_table
  VFS_MAX_FD,        \* descriptors 3 .. VFS_MAX_FD - 1 are allocated
  Files,             \* nodes of mounted file systems
  MAX_NET_SOCKETS,   \* slots of net_socket_table
  TCP_MAX_SOCKETS,   \* slots of tcp_sockets
  MAX_REFS,          \* bound on a node's reference count
  MAX_OPEN           \* bound on the descriptors open in all tables

ASSUME SlotsAssumption ==
  /\ MAX_PROCESSES \in Nat \ {0}
  /\ VFS_MAX_FD \in Nat
  /\ MAX_NET_SOCKETS \in Nat
  /\ TCP_MAX_SOCKETS \in Nat
  /\ MAX_REFS \in Nat
  /\ MAX_OPEN \in Nat

Procs == 1 .. MAX_PROCESSES          \* slot 1 is pid 1
Fds == 3 .. VFS_MAX_FD - 1
Sockets == 1 .. MAX_NET_SOCKETS
TcpSlots == 1 .. TCP_MAX_SOCKETS
NULL == 0
Nodes == Files \cup Sockets          \* a socket's node lies in its slot

ASSUME FilesAssumption == Files \cap (Sockets \cup {NULL}) = {}

VARIABLES
  proc,       \* state, is_thread and parent slot of each process slot
  fd_table,   \* the node each descriptor names, or NULL
  refcount,   \* refcount of each file node; a socket's is never read
  sock,       \* net_socket_table: in_use, and the TCP slot or NULL
  tcp,        \* the tcp_sockets in use
  careful     \* whether the programs are careful; never changes

vars == <<proc, fd_table, refcount, sock, tcp, careful>>

NoFds == [fd \in Fds |-> NULL]
FreeSlot == [state |-> "free", is_thread |-> FALSE, parent |-> NULL]
Closed == [in_use |-> FALSE, tcp_sock |-> NULL]

\* Only pid 1 runs; vfs_init and socket_subsystem_init cleared the tables.
Init ==
  /\ proc = [p \in Procs |->
       IF p = 1 THEN [FreeSlot EXCEPT !.state = "live"] ELSE FreeSlot]
  /\ fd_table = [p \in Procs |-> NoFds]
  /\ refcount = [f \in Files |-> 0]
  /\ sock = [s \in Sockets |-> Closed]
  /\ tcp = {}
  /\ careful \in BOOLEAN

-----------------------------------------------------------------------------
\* Every search of the code is for the first free slot.
First(S) == CHOOSE x \in S : \A y \in S : x <= y

FreeFds(p) == {fd \in Fds : fd_table[p][fd] = NULL}
Naming(p, n) == {fd \in Fds : fd_table[p][fd] = n}
SocketFds(p) == {fd \in Fds : fd_table[p][fd] \in Sockets}
OpenFds(p) == {fd \in Fds : fd_table[p][fd] # NULL}
Children(p) == {q \in Procs : proc[q].parent = p}

\* A task that killed itself, which has the CPU until the next tick.
Doomed(p) == p # 1 /\ proc[p].state = "killed"

\* p makes the next call.
Running(p) ==
  /\ proc[p].state \in {"live", "killed"}
  /\ \A q \in Procs : Doomed(q) => q = p

\* The bound allows n descriptors more.
MayOpen(n) ==
  n + Cardinality(UNION {{p} \X OpenFds(p) : p \in Procs}) <= MAX_OPEN

\* node takes the first free descriptor of p, if there is one.
fd_alloc(p, node) ==
  fd_table' = [fd_table EXCEPT ![p][First(FreeFds(p))] = node]

\* The counts once the descriptors fds of p are freed.
Unreferenced(p, fds) ==
  [f \in Files |->
     LET k == Cardinality(fds \cap Naming(p, f))
     IN  IF refcount[f] > k THEN refcount[f] - k ELSE 0]

\* Mutant: the TCP slot is not released with the socket.
socket_close_Leak(ss) ==
  /\ sock' = [s \in Sockets |-> IF s \in ss THEN Closed ELSE sock[s]]
  /\ tcp' = tcp

\* Closing a set of sockets; a socket that is not in use has no TCP slot.
socket_close(ss) ==
  /\ sock' = [s \in Sockets |-> IF s \in ss THEN Closed ELSE sock[s]]
  /\ tcp' = tcp \ {sock[s].tcp_sock : s \in ss}

\* fd_free on a set of descriptors of p: the close operation of each node,
\* whoever else has it open, then the reference.
fd_free(p, fds) ==
  /\ socket_close({fd_table[p][fd] : fd \in fds} \cap Sockets)
  /\ refcount' = Unreferenced(p, fds)

-----------------------------------------------------------------------------
\* SYS_OPEN of a path that vfs_open resolves to node f.  When the table is
\* full the reference it took is given back.
sys_open(p, f) ==
  /\ refcount[f] < MAX_REFS /\ MayOpen(1)
  /\ FreeFds(p) # {}
  /\ refcount' = [refcount EXCEPT ![f] = @ + 1]
  /\ fd_alloc(p, f)
  /\ UNCHANGED <<proc, sock, tcp, careful>>

\* SYS_CLOSE.
sys_close(p, fd) ==
  /\ fd_table[p][fd] # NULL
  /\ fd_free(p, {fd})
  /\ fd_table' = [fd_table EXCEPT ![p][fd] = NULL]
  /\ UNCHANGED <<proc, careful>>

\* The TCP slot of a new stream.
tcp_socket_create == First(TcpSlots \ tcp)

\* Slot s is taken, with a TCP slot for a stream; without one it is released.
socket_create(s, stream) ==
  LET conn == IF stream THEN tcp_socket_create ELSE NULL
  IN /\ stream => tcp # TcpSlots
     /\ sock' = [sock EXCEPT ![s] = [in_use |-> TRUE, tcp_sock |-> conn]]
     /\ tcp' = tcp \cup ({conn} \ {NULL})

\* SYS_SOCKET; without a descriptor for it the socket is closed again.
sys_socket(p, stream) ==
  LET free == {s \in Sockets : ~sock[s].in_use}
  IN /\ free # {} /\ FreeFds(p) # {} /\ MayOpen(1)
     /\ socket_create(First(free), stream)
     /\ fd_alloc(p, First(free))
     /\ UNCHANGED <<proc, refcount, careful>>

\* SYS_SHUTDOWN closes the socket and leaves the descriptor.
sys_shutdown(p, fd) ==
  /\ ~careful
  /\ fd_table[p][fd] \in Sockets
  /\ socket_close({fd_table[p][fd]})
  /\ UNCHANGED <<proc, fd_table, refcount, careful>>

\* Mutant: fd_table_clone does not count the copies.
Inherited_Uncounted(p) == refcount

\* The counts once the descriptors of p are copied.
Inherited(p) == [f \in Files |-> refcount[f] + Cardinality(Naming(p, f))]

\* The slots process_fork and process_clone find inactive.
FreeSlots == {q \in Procs \ {1} : proc[q].state \in {"free", "killed"}}

\* process_fork and process_clone: the first free slot is cleared and
\* receives a copy of the table.
process_fork(p, is_thread) ==
  LET child == First(FreeSlots)
  IN /\ FreeSlots # {} /\ child # p
     /\ careful => SocketFds(p) = {}
     /\ \A f \in Files : Inherited(p)[f] <= MAX_REFS
     /\ MayOpen(Cardinality(OpenFds(p)))
     /\ proc' = [proc EXCEPT ![child] =
          [state |-> "live", is_thread |-> is_thread, parent |-> p]]
     /\ fd_table' = [fd_table EXCEPT ![child] = fd_table[p]]
     /\ refcount' = Inherited(p)
     /\ UNCHANGED <<sock, tcp, careful>>

\* The table t once the slots dead are free; pids are not reused, so their
\* children have no parent from then on.
Freed(t, dead) ==
  [q \in Procs |-> IF q \in dead THEN FreeSlot
                   ELSE [t[q] EXCEPT !.parent = IF @ \in dead THEN NULL ELSE @]]

\* The first free slot is that of the caller, which killed itself: it clears
\* its own table, without closing what it has opened since, and is its own
\* parent from then on.
process_fork_self(p, is_thread) ==
  /\ FreeSlots # {} /\ First(FreeSlots) = p
  /\ proc' = [Freed(proc, {p}) EXCEPT ![p] =
       [state |-> "live", is_thread |-> is_thread, parent |-> p]]
  /\ fd_table' = [fd_table EXCEPT ![p] = NoFds]
  /\ UNCHANGED <<refcount, sock, tcp, careful>>

\* The process table once p exited.  A thread's slot, and that of a killed
\* task, is free at once, a process stays until it is waited for; it takes
\* its children with it.
Exited(p) ==
  LET gone == IF proc[p].is_thread \/ Doomed(p) THEN {p} ELSE {}
      children == IF proc[p].is_thread THEN {} ELSE Children(p)
  IN  Freed([proc EXCEPT ![p].state = "zombie"], gone \cup children)

\* The tables of the slots that a step leaves to nobody need no keeping: the
\* next fork into such a slot clears it.
Kept(table) ==
  [q \in Procs |-> IF proc'[q].state \in {"live", "killed"} THEN table[q] ELSE NoFds]

\* Mutant: the descriptors of the exiting process are left open.
process_exit_Open(p) ==
  /\ p # 1
  /\ careful => Children(p) = {}
  /\ proc' = Exited(p)
  /\ fd_table' = Kept(fd_table)
  /\ UNCHANGED <<refcount, sock, tcp, careful>>

\* process_exit; when pid 1 exits the machine stops.  The descriptors of the
\* children it takes with it are not closed.
process_exit(p) ==
  /\ p # 1
  /\ careful => Children(p) = {}
  /\ fd_free(p, Fds)
  /\ proc' = Exited(p)
  /\ fd_table' = Kept(fd_table)
  /\ UNCHANGED careful

\* process_kill of any task in the table, live or zombie.  The slot is free at
\* once and its task nobody's child, but the caller and pid 1 run on.
process_kill(p, q) ==
  /\ proc[q].state \in {"live", "zombie"}
  /\ careful => q # p
  /\ fd_free(q, Fds)
  /\ fd_table' = [fd_table EXCEPT ![q] = NoFds]
  /\ proc' = IF q \in {p, 1}
             THEN [proc EXCEPT ![q].state = "killed", ![q].parent = NULL]
             ELSE Freed(proc, {q})
  /\ UNCHANGED careful

\* The tick takes the CPU from a task that killed itself; what it has opened
\* since is not closed.
scheduler_tick(p) ==
  /\ Doomed(p)
  /\ proc' = Freed(proc, {p})
  /\ fd_table' = Kept(fd_table)
  /\ UNCHANGED <<refcount, sock, tcp, careful>>

\* process_wait4 that finds a task to reap: a child, or any task by its pid.
process_wait4(p, q) ==
  /\ proc[q].state = "zombie"
  /\ proc' = Freed(proc, {q})
  /\ UNCHANGED <<fd_table, refcount, sock, tcp, careful>>

Next ==
  \E p \in {q \in Procs : Running(q)} :
    \/ \E f \in Files : sys_open(p, f)
    \/ \E fd \in Fds : sys_close(p, fd) \/ sys_shutdown(p, fd)
    \/ \E b \in BOOLEAN : sys_socket(p, b) \/ process_fork(p, b) \/ process_fork_self(p, b)
    \/ process_exit(p) \/ scheduler_tick(p)
    \/ \E q \in Procs : process_kill(p, q) \/ process_wait4(p, q)

Spec == Init /\ [][Next]_vars

-----------------------------------------------------------------------------
Descriptors(n) == {d \in Procs \X Fds : fd_table[d[1]][d[2]] = n}

\* The tables hold what their declarations allow.
TypeOK ==
  /\ proc \in [Procs -> [state : {"free", "live", "killed", "zombie"},
                          is_thread : BOOLEAN, parent : Procs \cup {NULL}]]
  /\ fd_table \in [Procs -> [Fds -> Nodes \cup {NULL}]]
  /\ refcount \in [Files -> 0 .. MAX_REFS]
  /\ sock \in [Sockets -> [in_use : BOOLEAN, tcp_sock : TcpSlots \cup {NULL}]]
  /\ tcp \subseteq TcpSlots
  /\ careful \in BOOLEAN

\* vfs_open, fd_free and fd_table_clone: whatever programs do, kill themselves
\* and go on included, a file node's count is never below the number of
\* descriptors, of any process, that name it, so a node with count 0 is named
\* by none.
RefcountCovers ==
  \A f \in Files : refcount[f] >= Cardinality(Descriptors(f))

\* With careful programs the count is exact, across open, failed open, close,
\* fork, clone, exit, kill and the reuse of process slots.
RefcountExact ==
  careful => \A f \in Files : refcount[f] = Cardinality(Descriptors(f))

\* The counts cover the descriptors whatever programs do, and are exact for
\* careful programs.
RefcountSound == TypeOK /\ RefcountCovers /\ RefcountExact

\* With careful programs, exactly one descriptor names each socket in use and
\* none names a closed one: no socket leaks, and none is closed or reused
\* behind a descriptor that still names it.
SocketsHaveOneDescriptor ==
  careful => \A s \in Sockets :
    Cardinality(Descriptors(s)) = IF sock[s].in_use THEN 1 ELSE 0

\* socket_create and socket_close: every TCP slot in use belongs to exactly one
\* socket in use, whatever is shared, shut down or reused, so no connection
\* leaks and no two sockets ever drive the same one.
TcpOwnedOnce ==
  /\ tcp = {sock[s].tcp_sock : s \in {r \in Sockets : sock[r].in_use}} \ {NULL}
  /\ \A r, s \in Sockets :
       sock[r].tcp_sock = sock[s].tcp_sock /\ r # s => sock[r].tcp_sock = NULL
  /\ \A s \in Sockets : ~sock[s].in_use => sock[s].tcp_sock = NULL
=============================================================================
