# A TLA+ model of BangOS

BangOS is a small x86_64 operating system: a UEFI boot loader, a single-CPU
preemptive kernel with paging, a VFS with TarFS and ext2, ATA and virtio-net
drivers, a TCP/IP stack, and user programs linked with musl. These modules
model its concurrent and stateful parts. TLC checks them on small instances;
TLAPS proves the main safety properties for every value of the constants.

Paths below are relative to `src/`.

## The system and how its parts interact

One CPU runs everything. The PIT interrupts 100 times a second;
`scheduler_tick` saves the running task and resumes the next ready one. A
system call clears the interrupt flag (SFMASK), so a handler runs in one piece
up to its first `sti; hlt`. From then on interrupts stay enabled *in that
handler*: the rest of `wait4`, `futex` and `nanosleep` can be preempted
anywhere. User code is always preemptible.

On top of the process table sit the blocking calls. On top of `futex` sit the
mutexes, semaphores and joins of user space. `mmap` and friends change a
process's table of areas, the page table (one for the whole system) and the
frame bitmap together. Files, sockets and the network are reached through
descriptors; they poll their devices and use no interrupts.

| Part | Source | State | Module |
|---|---|---|---|
| Process table, scheduler, process calls | `kernel/process/process.c`, `kernel/syscall/syscall.c`, `kernel/arch/x86_64/idt.c` | `process_table`, `current_proc_idx`, `next_pid` | `Sched`, `MCSched`, `SchedProofs` |
| Context switch (program, stack, FS base) | `kernel/process/process.c` | `tgid`, `segments`, `stack_phys_base`, `fs_base`, page table, MSR | `Context`, `MCContext` |
| Mutex | `userland/include/synch.h`, `userland/src/threads.c` | futex word, counter | `Mutex`, `LockedCounter`, `MutexProofs` |
| Semaphores, bounded queue | same | counts, locks, ring | `ProdCons`, `Fifo`, `ProdConsProofs` |
| Thread creation and join | same | handles, stacks | `Join` |
| Frame allocator | `kernel/mm/memory.c` | `page_bitmap` | `Pmm` |
| Areas, page-table entries, page fault | `kernel/mm/vmm.c`, `kernel/mm/memory.c` | `vmas`, entries, `mmap_curr_base` | `Vmm`, `AddressSpace`, `VmmProofs` |
| Descriptors, VFS, socket slots | `kernel/fs/vfs.c`, `kernel/net/socket.c`, `kernel/syscall/syscall.c` | descriptor tables, reference counts, `net_socket_table`, `tcp_sockets` | `FileDesc`, `FileDescProofs` |
| TCP | `kernel/net/tcp.c`, `kernel/net/socket.c` | connection, receive ring | `Tcp`, `ByteStream` |
| Ethernet, ARP, IPv4, ICMP, UDP, DNS | `kernel/net/*.c` | ARP cache, shared packet buffer, ports | `NetStack` |
| virtio-net | `kernel/drivers/virtio_net.c` | rings | `Virtio` |
| ext2, and sector writes of the ATA driver | `kernel/fs/ext2/ext2.c`, `kernel/drivers/ata.c` | bitmaps, inodes, directory, cached copies | `Ext2` |
| GDT, IDT, other devices, ELF, TarFS, boot, library, tools | | constant or sequential | not modelled (see the end) |

`PROJECT.json` lists every part with its sources, the source lines of every
definition, and the hazards of the code with the properties that cover them.

## The modules

**Sched.** One function per field of `process_t`, indexed by slot. `cpu` is
where the CPU executes, `saved_frame[s]` where slot `s` resumes; a *place* is
"user", a `hlt` loop, or a step of an interruptible scan. One action per system
call (`process_fork`, `process_clone`, `process_execve`, `futex_wait`,
`futex_wake`, `sys_nanosleep`, `schedule_yield`, `process_exit`,
`process_kill`, `process_wait4`, `sys_set_tid_address`), one for an unresolved
fault (`exception_handler`), one for the timer, and the steps after a `hlt`.
`wait4`'s first scan is atomic; its rescans take several steps per slot: the
test, the copy of pid and status, and the three stores that release it
(`active`, `exited`, `state`), each of which the timer may come before. The exit status is cut to eight bits and sleep
times are rounded to ticks as the code does. `died` is a history variable.
`WaitAny` says whether programs wait for pids that are not their children,
which `wait4` allows. `Calls` gives the system calls of each pid's program.

**Context** composes `Sched` with the part of a context that is not in the saved
frame. All tasks map their program and stack at the same addresses of the one
page table; the tick maps those of the task it resumes, except when that is a
thread of the interrupted task's group. It restores the FS base unless that is
0. Each action is the one of `Sched` with its effect on these fields.

**Mutex** has one step per access to shared memory, so threads interleave
between the read and the write of the counter and between the fetch-and-sub
and the reset of `mutex_unlock`. The futex calls are atomic (interrupts are
off). **LockedCounter** is what the workers count on: a critical section for
one thread, in which the increment is one step. **ProdCons** builds the
semaphores and the ring on locks of that kind, which a thread takes in one step
when nobody holds them: `Mutex` justifies the step. **Fifo** is what the
pipeline promises.

**Join** follows the main thread of `/bin/threads` through its demos. A freed
stack may be given to the next thread, handles of later demos may be at the
address of earlier ones, and `clone` fails when the process table is full. When
`malloc` fails, the handle that is joined later was never filled in: it holds
anything.

**Pmm** models the scan of `alloc_pages`, with its skip over full bitmap words
and its restart behind the first used frame. **Vmm** takes its frames first fit,
which is what the scan computes, and models the merging, trimming and splitting
of areas, the page-table entries and the page fault, for one process.
**AddressSpace** gives the effect each call should have on a function from pages
to protections.

**FileDesc** has a descriptor table per task. `fork` and `clone` copy it and
count the copies in the nodes; closing any copy calls the node's close
operation, which for a socket ends the connection. Exit and kill close tables
as a whole. A task that kills itself runs on in its free slot until the next
tick, and the next `fork`, which may be its own, clears the table without
closing what it opened since. Pid 1 runs on for good when it is killed: the tick
falls back to it and its slot is never given away.

**Tcp** is one connection, from `connect` to `close`, with the peer and the
network. Segments are taken only where a call polls; a step is one pass of such
a loop. The receive ring is modelled with its indices. `ipv4_receive` hands on
the rest of the frame, so that padding becomes data. The peer follows RFC 793
within the window, sends its FIN with the last data or after it, and answers an
acknowledgement of what it has not sent yet. **ByteStream** is what a
reader may rely on: bytes arrive once, in order.

**Virtio** is both rings with their wrapping indices, the device, and the
driver's send (with its wait and time limit) and poll. **NetStack** extends it:
`arp_resolve` waits in the middle of `ipv4_send`, whose datagram is already in
the one transmit buffer, and what it polls may be answered by another
`ipv4_send`. The variable `sends` is that stack of calls.

**Ext2** keeps what is on the disk apart from what is in memory: a node has a
copy of its inode, made when it was looked up. A system call is a sequence of
disk writes; data go out sector by sector (a sector of the model is one byte, a
block two), and the machine may lose power between any two writes. The disk may
refuse any of them, and nobody looks: `lost` has the kinds of writes (data, block
bitmap, inode bitmap, inode, directory entry) that were refused so far, and a
property names those it does without. Reads do not fail.

**Modes.** A variable that `Init` chooses and nothing changes says what the
surroundings do; a property names the modes it is about, and one run covers
them all. `careful` in `Vmm`: `mmap` takes free ranges, `mprotect` does not run
beyond an area, and the table has room. `careful` in `FileDesc`: sockets are not
shared, `shutdown` is not used, nobody kills itself, parents wait. `careful` in
`Ext2`: a file is open once at a time, no write starts past the end, and nothing is
created once the nodes are used up. `mode` in `Tcp`: "ideal", "busy" (others
poll, deadlines pass), "lossy", or "padded" (deadlines pass and the link pads short
frames, as `ethernet_send` itself does). `mode` in `NetStack`: "quiet", "open" (hosts send
requests) or "slow" (the device misses the time limit).

## The runs

| Run | Instance | What it shows |
|---|---|---|
| `sched` | 3 slots, 3 pids, every call | Pids stay unique, pid 1 keeps slot 0, one task runs, a blocked task has something that wakes it and is where it waits, zombies do not run, the scan is round robin, and the running task has its own program, stack and FS base |
| `sched_live` | 3 slots, 4 pids, exit code 259 | But for a task that the late stores of a release hit: the table stays consistent; the slot `wait4` releases still holds the child it found; the status is that child's; no child is overlooked; a wait for an ended child returns; ready tasks are dispatched, sleeps end, woken futex waiters return |
| `sched_sleep` | 3 slots, 3 pids | *Violated:* the exit of a child disturbs its parent's `nanosleep`, which never returns |
| `mutex` | 3 threads, 2 iterations | Mutual exclusion, no forgotten sleeper, termination, refinement of `LockedCounter` (no increment is lost) |
| `prodcons` | the demo's own 8 slots and 10 items | Semaphore units are conserved, no lost wake-up, the pipeline ends, refinement of `Fifo` |
| `join` | 3 demos, 3 stacks, room for 2 threads | A join follows the result, frees no stack twice (unless `malloc` failed), and returns if the thread was created |
| `pmm` | 9 frames in words of 3 | The scan is first fit for every bitmap and count; no frame is given out twice |
| `vmm` | 3 areas, 3 pages, 2 frames | Any calls: no frame is mapped twice or free while mapped. Careful ones: every call has its abstract effect, no frame leaks, no entry outlives its area, a fault never replaces a present page |
| `files` | 3 tasks, 2 descriptors each and 3 in all, 1 file, 2 sockets, 1 TCP slot | Whoever kills whom, a file's count covers its descriptors and, for careful programs, equals them; a socket has one descriptor and a TCP slot one socket |
| `tcp` | ring of 3 bytes, stream of 4, frames of at least 2, 1 fault | The ring is a queue in every mode; on a reliable network the reader gets the stream, acknowledged bytes are kept, a failed connect stays closed; an ideal connection completes and shuts down, but for the acknowledgement of a FIN that came with data |
| `net` | rings of 2, indices modulo 4, 2 calls, 1 request | Buffers are conserved across wraps, frames and datagrams leave intact, answers belong to their calls, ports are given back, every call returns |
| `ext2` | 2 inodes, 3 blocks of 2 bytes, 2 names (symmetric), 2 faults | After any failure no entry lacks its inode and no block has two owners, and a name has one entry; data once written stay; what was written is read back; space that is counted can be used; each as far as the disk took the writes it rests on |

An invariant such as `TableSound`, `BytesKept` or `DiskConsistent` is the
conjunction of the named parts defined before it, the type invariant among
them; each part has its own comment.

**Why the bounds are enough.** Three slots are the fewest with a parent, a
child and a bystander that can take a freed slot; a fourth pid lets a slot be
reused and its tenant reaped. Pids are never reused, so `MAX_PID` only bounds
the length of the history. Requests of 0 ns and of one tick and 1 ns meet
both roundings of `nanosleep`. Exit code 259 differs from its low byte. Three
threads allow an owner, a sleeper and a barger on the mutex. Three areas let
one area be split twice; 3 pages give each split a left, a middle and a right
part; 2 frames for 3 pages make allocations fail. Three words of frames give
the scan a word to skip, one to start in and one to cross into. The window of
`Vmm` stands for a part of the `mmap` range whose upper page-table levels
exist.

Two descriptors and two sockets over one TCP slot make tables overflow; three
open descriptors in all (`MAX_OPEN`) are a file that two tasks share next to a
socket or to a table that is full. The ring of `Tcp` is shorter than the stream, so
it wraps and fills; it is longer than the peer's largest segment, because the code
never announces a window that has opened again and a peer that saw it closed would
wait for ever. Frames of 2 bytes pad an acknowledgement and the last byte. Ring indices modulo
4 over 2 descriptors wrap twice in a few packets. Three blocks of 2 bytes give a
file a partial block, a second block and none left; two inodes for two names run
out when one is lost to a failed creation. Two faults (a power failure, or a kind of
write that the disk refuses from time to time, counted once) allow a failure during
the use of what an earlier one left.

**Settings that restrict callers**, besides the modes. `sched_live` has no `kill`
(`UnkilledSpec`; `sched` and the proofs have it) and no waits for strangers, and the
task with a thread does not wait. `UndisturbedSleepEnds` and `WokenReturns`, parts of
`TasksProgress`, are about calls that neither the exit of a child nor the fallback
to slot 0 interrupts (see `sched_sleep` and below). The properties of
`Context` leave out groups in which one of several tasks called `execve`, and tasks
made in its own slot by a task that had killed itself.

**Fairness.** `Sched` assumes the timer keeps firing (weak fairness of
`scheduler_tick`) and that a task that is dispatched again and again executes
instructions (strong fairness per slot: a time slice is 10 ms). `Mutex`,
`ProdCons` and `Join` assume weak fairness of every thread, which is what
`ReadyRuns`, a part of `TasksProgress`, shows of the scheduler. `Tcp` and `NetStack` assume that a call keeps
running: its polls return and its deadline comes. `CallReturns` assumes nothing of
the hosts or the device; `StreamCompletes` needs a peer and a network that make
progress, in mode "ideal" only.

**Deadlock** is checked for `Sched` (the powered-off machine stutters), `Pmm` and
`FileDesc`. The programs of `Mutex`, `ProdCons` and `Join` end, and a join of a
thread that was never created waits for ever. In `Vmm` a process may have used
up its window; the programs of `Tcp`, `NetStack` and `Ext2` end.

## Where code and documentation disagree

One disagreement has a run, `sched_sleep`; `findings` in `PROJECT.json` quotes both
sides. Modelling also showed these, which have no run. The modes and settings
above keep them out of the properties, unless noted:

- `vma_protect` on a range that starts inside of an area and ends beyond it
  creates an area up to the end of the range, so that pages that were never
  mapped become part of the address space (`vmm.c:126`);
  `docs/03-paging-and-memory.md:105` speaks of "modifying permissions" and
  "splitting VMAs".
- `thread_join_handle` frees the stack of a thread that still makes two system
  calls on it (`synch.h:150`, `synch.h:197`); `docs/09-userland-environment.md:148`
  says "Upon thread exit, the kernel clears the thread TID and wakes waiters".
- `docs/15` says that `tcp_receive` "verifies that segment sequence numbers match
  `sock->ack_num`"; the code does not look at them (`tcp.c:279`). Repeated or late
  segments are delivered again. The ring has 16384 bytes, not 4096.
- A request that arrives while `ipv4_send` waits for an address is answered
  through the same buffer, and the datagram leaves with the reply's contents
  (`ipv4.c:45`). Such sends may nest without a bound on the kernel stack.
- After one transmit time-out the driver's `last_used_idx` lags for good, and
  later sends return on the completion of earlier ones (`virtio_net.c:239`).
- Closing one of several copies of a socket's descriptor closes the socket
  (`vfs.c:182`); `shutdown` leaves the descriptor with a slot that may be reused.
- The pool of ext2 nodes is never refilled; when it is empty, `open` with
  `O_CREAT` of a name that exists adds a second entry and then fails
  (`ext2.c:198`). With a full directory block a creation succeeds without a name.
- Two nodes of one file have their own copies of the inode; the later write
  puts an old one back (`ext2.c:296`). A write into a hole does not write the
  inode.
- No caller looks at the result of a block write. A refused bitmap write
  (`ext2.c:76`, `ext2.c:104`) lets the same block or inode be taken again and
  leaves the count of free ones too low; a refused inode write (`ext2.c:423`)
  leaves an entry with an unwritten inode. The run has all of these: the parts of
  `DiskConsistent`, `SpaceUsable` and `DataKept` name the writes they rest on.
- The length of a TCP segment is that of its frame: `ipv4_receive` never reads
  `total_length` (`ipv4.c:72`), and `tcp_receive` takes the padding of a short frame
  for data (`tcp.c:267`). The acknowledgement of a peer that pads to 60 bytes, as
  `ethernet_send` does, puts six zero bytes into the stream, and the code then
  acknowledges bytes that were never sent. In mode "padded" `got` is no prefix of
  what was sent: `ImplementsByteStream` is about links that do not pad.
- A FIN that comes with data is acknowledged up to the data only (`tcp.c:284`), so
  that the peer goes on waiting for the end of its own half of the connection.
- A thread that calls `execve` while its group lives, or whose leader does,
  resumes with the other program mapped (`process.c:579`). A task that killed
  itself and then creates a task may overwrite its own slot (`process.c:150`);
  files and sockets it has opened since the kill are never closed.
- A parent inside `futex_wait` whose child exits becomes ready with its
  `wait_channel` set; `futex_wake` then does not find it (`process.c:450`).
  `WaitsSound` and `TasksProgress` hold all the same: they do not promise
  that a wake reaches that task.
- When no task is ready the tick resumes slot 0 even if pid 1 is asleep
  (`process.c:563`). In `wait4` pid 1 goes on waiting. In `nanosleep` or
  `futex_wait` it is `RUNNING`, and later `READY`, without the event: its timer is
  no longer decremented and `futex_wake` no longer finds it, so that the call may
  never return. `sched_live` includes both; `TasksProgress` says that all others
  make progress, and makes no promise for the call that was interrupted.
- In `wait4`'s rescan the three stores that free a slot can be interrupted after
  the first (`process.c:385`). If `fork` or `clone` takes the slot then, the other
  two stores make the new task's state `FREE`: it is in the table, is never
  dispatched again, and if it has ended already, its own parent waits for ever. The
  runs and the proofs include this. `Overwritten` is such a task, and
  `ZombieNeverRuns`, `ClaimedChildStays`, `WaitReturns` and `TasksProgress` name it
  as their one exception; everything else about the table holds all the same, and the
  stores never hit pid 1 or the task that makes them (`ReleasesOthers`).
- `wait4` accepts the pid of any task. With two waiters for one zombie, the
  later release can free a slot that has a new tenant (`process.c:385`). Set
  `WaitAny = TRUE` in `MCSchedLive.cfg` and check `ClaimedChildStays` alone.
- After a failed `malloc` in `thread_create_handle` the demos join a handle that was
  not filled in (`synch.h:159`); the join may free a stack of another thread or
  wait for ever. `JoinSound` says of such runs only that other joins follow their
  results.
- `kill` frees the slot at once, so a waiting parent gets `-ECHILD`
  (`process.c:467`); if the parent is preempted in its scan, it may release the
  slot's next tenant. Add `"kill"` to `Families` in `MCSched` and check `FairSpec`.
- With a full table of areas a split drops the rest of the area, and the call
  still succeeds (`vmm.c:96`, `vmm.c:133`).
- `mmap` over pages in use overwrites their entries and leaks the frames
  (`syscall.c:253`).
- `mmap` takes frames at once when a contiguous run is free, where
  `docs/03-paging-and-memory.md:112` describes lazy allocation.

## What is proved

The proofs hold for every number of slots, pids, futexes, threads, iterations,
descriptors, files, sockets, areas, pages and frames, and every choice of calls.
The assumptions are the named `ASSUME`s of `Sched`, `Mutex`, `ProdCons`, `FileDesc`
and `Vmm`: counts are natural numbers (most of them positive), futex addresses are not zero,
and files and sockets are different things.

`SchedProofs`:

- `TypeCorrect`: `TypeOK` is inductive, one lemma per group of actions.
- `PidsCorrect`: pids are unique and pid 1 is in slot 0. Inductive relative to
  `TypeOK`, and proved together: `process_exit` tells init by its pid, so that
  slot 0 never becomes a zombie rests on nobody else having pid 1.
- `OneRunningCorrect`: only the current slot is `RUNNING`.
- `BlockedCorrect`: a sleeper has a waker, and wait channel and timer are set
  only inside the call that set them. The two are inductive only together: the
  first says which field will wake the task, the second why no other call can
  have left that field behind.
- `ZombiesCorrect`: an ended task that is still in the table is a zombie in the
  exit loop, unless a late store hit it, and `InitNeverEnds` and `ReleasesOthers`.
  The three are inductive only together, relative to `PidsCorrect`: the tick's
  fallback to slot 0 could otherwise resume a zombie, and a store that is made long
  after its slot was chosen could free the slot of the task that makes it. That it
  does not rests on the frames of all tasks, the saved ones included.
- `TableCorrect` and `WaitsCorrect` join these into `[]TableSound` and
  `[]WaitsSound`.
- `RoundRobin`: the action property `ReadyGetsCloser`. It needs only `TypeOK`
  and arithmetic on the cyclic distance; it bounds the wait of a ready task by
  `MAX_PROCESSES - 1` switches.

`MutexProofs`:

- `MutexInvariant`: `Inv` joins the types, the count of iterations left, mutual
  exclusion with "the word is 0 exactly when nobody owns the mutex", and "while
  a thread sleeps, the word is 2 or some thread is on its way to wake it or to
  set the word to 2". Mutual exclusion alone is not inductive: the store of 0
  in `mutex_unlock` must be known to come from the owner.
- `MutexCorrect`: its consequence, `[]MutexSound`.
- `Refinement`: `Mutex` implements `LockedCounter`. This needs one more part of
  `Inv`: what an owner loaded is still the counter when it stores. So the load
  and the store of `synced_counter++` act as one step for any number of
  threads, which is what the demo reports as full consistency.

`ProdConsProofs`:

- `PipelineCorrect`: `[]PipelineSound`, for every size of the ring and number of
  items. The invariant ties each semaphore's count, the units that a thread has
  taken or is about to give, and the items in the ring to one another, and says of a
  sleeper that the count is 0 or somebody is on the way to wake it.
- `FifoRefinement`: the ring implements `Fifo`, since the semaphores keep the
  producer from a place that is not read yet.

`FileDescProofs`:

- `FilesInvariant`: the types, the three properties below, and `Cleared`: the
  table of a slot in which no task runs is empty, and careful programs do not run
  on after they killed themselves. The counts are not inductive without `Cleared`:
  `fork` and `clone` write over the table of a free slot, and a descriptor left
  there vanishes without its count. That happens to a task that killed itself, so
  that the count is exact for careful programs and a bound for the others. The
  counting rests on lemmas about finite sets of descriptors: one added, some
  removed, a table copied, a table lost.
- `RefcountsCorrect`, `SocketsCorrect`, `TcpSlotsCorrect`: `[]RefcountSound`,
  `[]SocketsHaveOneDescriptor` and `[]TcpOwnedOnce`.

`VmmProofs`:

- `FramesCorrect`: `[]FramesNotShared`, for calls on any ranges. It is inductive
  with the types of entries and bitmap. The allocator enters through
  `FirstFitFree`: a run that first fit returns is free and inside of the pool.
  That the scan of the code is first fit is `ScanIsFirstFit`, which TLC checks:
  the scan is recursive, and what it computes is out of the prover's reach.

Only model-checked: all liveness (out of the prover's reach), the properties
of `wait4` and of `Context`, the areas and the refinement of `AddressSpace` in
`Vmm`, and everything about `Join`, `Pmm`, `Tcp`, `NetStack`, `Virtio` and
`Ext2`.

## Not modelled

- `brk`, and two processes on the one page table in `Vmm`: with `fork`, both map
  and unmap the same addresses, and the properties of `Vmm` do not hold.
- The FPU image. `fork` copies the one saved at the last tick; programs keep
  nothing in these registers across a call. An `execve` that runs out of frames
  half way leaves a mixture of programs mapped.
- The port handshake of the ATA driver, its identification, failing reads, and
  commands to a drive that is busy with one that timed out: their outcome depends
  on the timing of the drive, of which the code says nothing.
- In ext2: mounting, indirect blocks, directories of more than one block, listing,
  and directory entries that a failure cuts in two. In DNS: numeric literals,
  which do not reach the network.
- GDT, IDT and the assembly stubs are constant data or enter `Sched` through what
  they save and the interrupt flag. PCI, PIT, UART and keyboard are port I/O
  without a protocol. The ELF loader and TarFS are pure functions of constant
  files. Boot is a straight sequence. `kstring` is memory functions with unit
  tests. The spinlock is used by no program. The other user programs are
  sequential menus.
- `alloc_pages` with more frames than the pool has reads past the bitmap and has
  no outcome to state a property about.

## Plan

1. `brk` and two processes in `Vmm`, once the code gives each its page table.
2. Theorems: the properties of `wait4` for programs that do not kill or wait for
   strangers; `StackFreedOnce`; `BlocksOwned` of `Ext2`.
