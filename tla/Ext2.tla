-------------------------------- MODULE Ext2 --------------------------------
(***************************************************************************)
(* The ext2 file system (kernel/fs/ext2/ext2.c) under the file calls of    *)
(* syscall.c and vfs.c, on a disk that keeps what was written when the     *)
(* power goes.                                                             *)
(*                                                                         *)
(* Every step writes at most one sector of the disk (ata_write_sectors in  *)
(* kernel/drivers/ata.c): an operation is a sequence of steps, and the     *)
(* power may go between any two of them.  No other call runs meanwhile,    *)
(* since system calls are not interrupted.                                 *)
(*                                                                         *)
(* The files are those of the root directory, whose one block mke2fs has   *)
(* made.  A file is a sequence of cells, each of the size of a sector,     *)
(* BLOCK_SIZE of them in a block.                                          *)
(* Opening a file reads its inode into a node of the pool, which is never  *)
(* given back; writes go to that copy first, and to the disk when the file *)
(* has grown.                                                              *)
(*                                                                         *)
(* careful is whether programs keep to what this supports: a file is open  *)
(* once at a time, nothing is written past its end, and no file is created *)
(* once the nodes are used up.                                             *)
(*                                                                         *)
(* The disk may refuse any write, and no caller looks at the result: what  *)
(* it was to hold is then in memory only.  lost has the kinds of writes    *)
(* that were refused so far.                                               *)
(***************************************************************************)
EXTENDS Naturals, Sequences, FiniteSets, FiniteSetsExt, SequencesExt

CONSTANTS
  INODES,       \* inodes for files
  BLOCKS,       \* blocks for their data
  BLOCK_SIZE,   \* cells, and sectors, of a block
  DIRECT,       \* direct blocks of an inode (12 in the code)
  DIR_ENTRIES,  \* entries the root directory's block has room for
  NODES,        \* nodes of the pool (128)
  Names,
  Fds,
  Lengths,      \* bound: cells in one write
  MAX_WRITES,   \* bound: writes
  MAX_FAULTS    \* bound: power failures, and kinds of writes the disk refuses

ASSUME DiskAssumption ==
  /\ {INODES, BLOCKS, DIR_ENTRIES} \subseteq Nat
  /\ {BLOCK_SIZE, DIRECT, NODES} \subseteq Nat \ {0}
  /\ Lengths \subseteq Nat \ {0}

Inodes == 1 .. INODES
Blocks == 1 .. BLOCKS

\* What is written: data, the two bitmaps, inodes and directory entries.
Kinds == {"data", "block_bitmap", "inode_bitmap", "inode", "entry"}

VARIABLES
  careful,
  lost,                         \* history: what the disk refused
  block_bitmap, inode_bitmap,   \* the disk: what is allocated,
  inode_table,                  \*   the inodes,
  dir,                          \*   the directory's entries, in their order,
  data,                         \*   and the contents of the blocks
  free_blocks, free_inodes,     \* bg_free_blocks_count, bg_free_inodes_count
  pool_count,
  fd,                           \* the open files, with their nodes
  op,                           \* the call in progress
  written,                      \* history: the cells each file has been given
  writes, crashes               \* history: how often

disk == <<block_bitmap, inode_bitmap, inode_table, dir, data>>
memory == <<free_blocks, free_inodes, pool_count, fd, op>>
history == <<written, writes, crashes>>
vars == <<careful, lost, disk, memory, history>>

None == [call |-> "none"]
Closed == [ino |-> 0]
Blank == [links |-> 0, size |-> 0, block |-> [k \in 0 .. DIRECT - 1 |-> 0]]
NewInode == [Blank EXCEPT !.links = 1]

\* ext2_mount_device: the counts are the ones on the disk, which nothing
\* updates; the root directory has a node.
Mounted ==
  /\ free_blocks' = BLOCKS /\ free_inodes' = INODES
  /\ pool_count' = 1
  /\ fd' = [d \in Fds |-> Closed]
  /\ op' = None

Init ==
  /\ careful \in BOOLEAN /\ lost = {}
  /\ block_bitmap = {} /\ inode_bitmap = {}
  /\ inode_table = [i \in Inodes |-> Blank]
  /\ dir = <<>>
  /\ data = [b \in Blocks |-> [k \in 0 .. BLOCK_SIZE - 1 |-> 0]]
  /\ free_blocks = BLOCKS /\ free_inodes = INODES
  /\ pool_count = 1 /\ fd = [d \in Fds |-> Closed] /\ op = None
  /\ written = [i \in Inodes |-> <<>>]
  /\ writes = 0 /\ crashes = 0

-----------------------------------------------------------------------------
ext2_read_block(b) == data[b]
ext2_read_inode(ino) == inode_table[ino]

\* The disk takes a write or refuses it; whoever asked for it goes on.
Write(kind, taken, refused) ==
  \/ taken /\ UNCHANGED lost
  \/ /\ crashes + Cardinality(lost \cup {kind}) <= MAX_FAULTS
     /\ refused /\ lost' = lost \cup {kind}

ext2_write_inode(ino, inode) ==
  Write("inode", inode_table' = [inode_table EXCEPT ![ino] = inode], UNCHANGED inode_table)
ext2_write_block(cells) == op' = [op EXCEPT !.pc = "sector", !.buf = cells]

\* ext2_vfs_finddir on the directory's block: the inode of a name, 0 if none.
Found(name) ==
  LET at == {k \in DOMAIN dir : dir[k].name = name}
  IN IF at = {} THEN 0 ELSE dir[Min(at)].ino

\* ext2_create_vfs_node with the inode as read from the disk.
Node(ino, inode) == [ino |-> ino, inode |-> inode, offset |-> 0]

\* Beyond the direct blocks there are none, since nothing writes indirect ones.
ext2_get_file_block(inode, k) == IF k < DIRECT THEN inode.block[k] ELSE 0

\* ext2_vfs_read of a whole file: a missing block reads as zeros.
Contents(inode) ==
  [k \in 1 .. inode.size |->
     LET b == ext2_get_file_block(inode, (k - 1) \div BLOCK_SIZE)
     IN IF b = 0 THEN 0 ELSE ext2_read_block(b)[(k - 1) % BLOCK_SIZE]]

OpenOf(ino) == {d \in Fds : fd[d].ino = ino}

\* fd_alloc: the first free descriptor, 0 if there is none.
FreeFd == IF OpenOf(0) = {} THEN 0 ELSE Min(OpenOf(0))

\* vfs_lookup of a name: found if it is in the directory and there is a node left
\* for it.
Lookup(name) == IF pool_count < NODES THEN Found(name) ELSE 0

\* SYS_OPEN of a file that the lookup finds; its node is taken even if there is no
\* descriptor for it.
sys_open(name) ==
  /\ op = None /\ Lookup(name) # 0
  /\ careful => OpenOf(Found(name)) = {}
  /\ pool_count' = pool_count + 1
  /\ fd' = [d \in Fds |-> IF d = FreeFd THEN Node(Found(name), ext2_read_inode(Found(name))) ELSE fd[d]]
  /\ UNCHANGED <<careful, lost, disk, free_blocks, free_inodes, op, history>>

\* SYS_STAT takes a node too.
sys_stat(name) ==
  /\ op = None /\ Lookup(name) # 0
  /\ pool_count' = pool_count + 1
  /\ UNCHANGED <<careful, lost, disk, free_blocks, free_inodes, fd, op, history>>

\* SYS_CLOSE; the node is not given back.
sys_close(d) ==
  /\ op = None /\ fd[d] # Closed
  /\ fd' = [fd EXCEPT ![d] = Closed]
  /\ UNCHANGED <<careful, lost, disk, free_blocks, free_inodes, pool_count, op, history>>

\* SYS_READ: what it returns are the next cells of Contents.
sys_read(d, n) ==
  /\ op = None /\ fd[d] # Closed /\ fd[d].offset < fd[d].inode.size
  /\ fd' = [fd EXCEPT ![d].offset = Min({@ + n, fd[d].inode.size})]
  /\ UNCHANGED <<careful, lost, disk, free_blocks, free_inodes, pool_count, op, history>>

\* SYS_LSEEK, to any place within the file or one past it.
sys_lseek(d, offset) ==
  /\ op = None /\ fd[d] # Closed
  /\ offset <= fd[d].inode.size + IF careful THEN 0 ELSE 1
  /\ offset # fd[d].offset
  /\ fd' = [fd EXCEPT ![d].offset = offset]
  /\ UNCHANGED <<careful, lost, disk, free_blocks, free_inodes, pool_count, op, history>>

-----------------------------------------------------------------------------
\* The contents of files are what programs wrote: careful ones, to a disk that
\* has taken everything but directory entries.
Trusted == careful /\ lost \subseteq {"entry"}

\* Nothing is recalled of what was written once it is not claimed to be there.
Recalled(w) == IF Trusted THEN w ELSE [i \in Inodes |-> <<>>]

\* Mutant: the count of blocks is decremented, as in ext2_alloc_block.
ext2_alloc_inode_WrongCount ==
  LET free == Inodes \ inode_bitmap
  IN \/ /\ free_inodes = 0 \/ free = {}
        /\ op' = None /\ UNCHANGED <<lost, inode_bitmap, free_inodes, free_blocks>>
     \/ /\ free_inodes # 0 /\ free # {}
        /\ op' = [op EXCEPT !.pc = "inode", !.ino = Min(free)]
        /\ Write("inode_bitmap", inode_bitmap' = inode_bitmap \cup {Min(free)},
                 UNCHANGED inode_bitmap)
        /\ free_blocks' = free_blocks - 1
        /\ UNCHANGED free_inodes

\* ext2_alloc_inode, for ext2_vfs_create: the first inode free on the disk is
\* taken, marked there and counted, or the call fails.
ext2_alloc_inode ==
  LET free == Inodes \ inode_bitmap
  IN \/ /\ free_inodes = 0 \/ free = {}
        /\ op' = None /\ UNCHANGED <<lost, inode_bitmap, free_inodes, free_blocks>>
     \/ /\ free_inodes # 0 /\ free # {}
        /\ op' = [op EXCEPT !.pc = "inode", !.ino = Min(free)]
        /\ Write("inode_bitmap", inode_bitmap' = inode_bitmap \cup {Min(free)},
                 UNCHANGED inode_bitmap)
        /\ free_inodes' = free_inodes - 1
        /\ UNCHANGED free_blocks

\* SYS_OPEN with O_CREAT of a file that the lookup does not find: vfs_open calls
\* ext2_vfs_create.
sys_creat(name) ==
  /\ op = None /\ Lookup(name) = 0
  /\ careful => pool_count < NODES
  /\ op' = [call |-> "create", pc |-> "alloc", name |-> name, ino |-> 0]
  /\ UNCHANGED <<careful, lost, disk, free_blocks, free_inodes, pool_count, fd, history>>

create_alloc ==
  /\ op.call = "create" /\ op.pc = "alloc"
  /\ ext2_alloc_inode
  /\ UNCHANGED <<careful, block_bitmap, inode_table, dir, data, pool_count, fd, history>>

create_inode ==
  /\ op.call = "create" /\ op.pc = "inode"
  /\ ext2_write_inode(op.ino, NewInode)
  /\ written' = Recalled([written EXCEPT ![op.ino] = <<>>])
  /\ op' = [op EXCEPT !.pc = "entry"]
  /\ UNCHANGED <<careful, block_bitmap, inode_bitmap, dir, data, free_blocks, free_inodes,
                 pool_count, fd, writes, crashes>>

\* The entry goes behind the last one, if the block has room for it.
create_entry ==
  /\ op.call = "create" /\ op.pc = "entry"
  /\ IF Len(dir) < DIR_ENTRIES
     THEN Write("entry", dir' = Append(dir, [name |-> op.name, ino |-> op.ino]), UNCHANGED dir)
     ELSE UNCHANGED <<lost, dir>>
  /\ op' = [op EXCEPT !.pc = "node"]
  /\ UNCHANGED <<careful, block_bitmap, inode_bitmap, inode_table, data, free_blocks, free_inodes,
                 pool_count, fd, history>>

\* The call succeeds if there is a node left.
create_node ==
  /\ op.call = "create" /\ op.pc = "node"
  /\ op' = None
  /\ IF pool_count < NODES
     THEN /\ pool_count' = pool_count + 1
          /\ fd' = [d \in Fds |-> IF d = FreeFd THEN Node(op.ino, NewInode) ELSE fd[d]]
     ELSE UNCHANGED <<pool_count, fd>>
  /\ UNCHANGED <<careful, lost, disk, free_blocks, free_inodes, history>>

-----------------------------------------------------------------------------
\* SYS_WRITE of n cells at the descriptor's offset.  Each write has contents of its
\* own, where something is claimed of contents; 0 is what a new block holds.
sys_write(d, n) ==
  /\ op = None /\ fd[d] # Closed /\ writes < MAX_WRITES
  /\ op' = [call |-> "write", pc |-> "block", d |-> d, off |-> fd[d].offset, n |-> n, done |-> 0,
            v |-> IF Trusted THEN writes + 1 ELSE 0, buf |-> <<>>, sector |-> 0]
  /\ writes' = writes + 1
  /\ UNCHANGED <<careful, lost, disk, free_blocks, free_inodes, pool_count, fd, written, crashes>>

\* The loop of ext2_vfs_write: the position, and the block of the file it is in.
Pos == op.off + op.done
FileBlk == Pos \div BLOCK_SIZE
Chunk == Min({BLOCK_SIZE - (Pos % BLOCK_SIZE), op.n - op.done})
More == op.done < op.n /\ FileBlk < DIRECT
Allocated == fd[op.d].inode.block[FileBlk] # 0

\* Mutant: a block is taken without marking it.
ext2_alloc_block_Unmarked ==
  LET free == Blocks \ block_bitmap
  IN \/ /\ free_blocks = 0 \/ free = {}
        /\ op' = [op EXCEPT !.pc = "grow"] /\ UNCHANGED <<lost, block_bitmap, free_blocks, fd>>
     \/ /\ free_blocks # 0 /\ free # {}
        /\ fd' = [fd EXCEPT ![op.d].inode.block[FileBlk] = Min(free)]
        /\ free_blocks' = free_blocks - 1
        /\ op' = [op EXCEPT !.pc = "clear"]
        /\ UNCHANGED <<lost, block_bitmap>>

\* ext2_alloc_block for a block that the inode does not have: the first one free
\* on the disk is taken, marked there and counted; without one, the loop ends.
ext2_alloc_block ==
  LET free == Blocks \ block_bitmap
  IN \/ /\ free_blocks = 0 \/ free = {}
        /\ op' = [op EXCEPT !.pc = "grow"] /\ UNCHANGED <<lost, block_bitmap, free_blocks, fd>>
     \/ /\ free_blocks # 0 /\ free # {}
        /\ fd' = [fd EXCEPT ![op.d].inode.block[FileBlk] = Min(free)]
        /\ Write("block_bitmap", block_bitmap' = block_bitmap \cup {Min(free)},
                 UNCHANGED block_bitmap)
        /\ free_blocks' = free_blocks - 1
        /\ op' = [op EXCEPT !.pc = "clear"]

write_alloc ==
  /\ op.call = "write" /\ op.pc = "block" /\ More /\ ~Allocated
  /\ ext2_alloc_block
  /\ UNCHANGED <<careful, inode_bitmap, inode_table, dir, data, free_inodes, pool_count,
                 history>>

\* The block as it was, or cleared if it is new.
Base == [k \in 0 .. BLOCK_SIZE - 1 |->
           IF op.pc = "clear" THEN 0 ELSE ext2_read_block(fd[op.d].inode.block[FileBlk])[k]]

\* The chunk is put into it, and the block handed to the disk.
write_data ==
  LET lo == Pos % BLOCK_SIZE
  IN /\ op.call = "write"
     /\ op.pc = "clear" \/ (op.pc = "block" /\ More /\ Allocated)
     /\ ext2_write_block([k \in DOMAIN Base |-> IF k \in lo .. lo + Chunk - 1 THEN op.v ELSE Base[k]])
     /\ UNCHANGED <<careful, lost, disk, free_blocks, free_inodes, pool_count, fd, history>>

BlockDone == [op EXCEPT !.pc = "block", !.buf = <<>>, !.sector = 0, !.done = @ + Chunk]

\* ata_write_sectors: the sectors of the block, one command each.  When one
\* fails it gives up, which ext2_vfs_write does not look at.
ata_write_sector ==
  LET b == fd[op.d].inode.block[FileBlk]
  IN /\ op.call = "write" /\ op.pc = "sector"
     /\ Write("data",
          /\ data' = [data EXCEPT ![b][op.sector] = op.buf[op.sector]]
          /\ op' = IF op.sector + 1 < BLOCK_SIZE THEN [op EXCEPT !.sector = @ + 1] ELSE BlockDone,
          op' = BlockDone /\ UNCHANGED data)
     /\ UNCHANGED <<careful, block_bitmap, inode_bitmap, inode_table, dir, free_blocks, free_inodes,
                    pool_count, fd, history>>

\* The cells of a file after a write of n cells at off: a gap reads as zeros.
Patched(s, off, n, v) ==
  [k \in 1 .. Max({Len(s), off + n}) |->
     IF k \in off + 1 .. off + n THEN v ELSE IF k <= Len(s) THEN s[k] ELSE 0]

\* Mutant: the inode is only written when the file gets another block.
Grown_Block(old, end) == end > old.size /\ (end - 1) \div BLOCK_SIZE > (old.size - 1) \div BLOCK_SIZE

\* The inode goes to the disk if the file has grown.
Grown(old, end) == end > old.size

\* The open file after a write.
Advanced(node, inode, n) == [node EXCEPT !.inode = inode, !.offset = @ + n]

\* The end of ext2_vfs_write and of the call.
write_inode ==
  LET node == fd[op.d]
      end == op.off + op.done
      new == IF end > node.inode.size THEN [node.inode EXCEPT !.size = end] ELSE node.inode
  IN /\ op.call = "write"
     /\ op.pc = "grow" \/ (op.pc = "block" /\ ~More)
     /\ fd' = [fd EXCEPT ![op.d] = Advanced(@, new, op.done)]
     /\ IF Grown(node.inode, end) THEN ext2_write_inode(node.ino, new)
        ELSE UNCHANGED <<lost, inode_table>>
     /\ written' = Recalled([written EXCEPT ![node.ino] =
                      IF op.done = 0 /\ end <= Len(@) THEN @ ELSE Patched(@, op.off, op.done, op.v)])
     /\ op' = None
     /\ UNCHANGED <<careful, block_bitmap, inode_bitmap, dir, data, free_blocks, free_inodes,
                    pool_count, writes, crashes>>

-----------------------------------------------------------------------------
\* Power failure and restart: what the interrupted write has put on the disk is
\* what its file holds.
Crash ==
  /\ crashes + Cardinality(lost) < MAX_FAULTS /\ crashes' = crashes + 1
  /\ Mounted
  /\ written' = Recalled([i \in Inodes |->
                   IF op.call = "write" /\ fd[op.d].ino = i THEN Contents(inode_table[i]) ELSE written[i]])
  /\ UNCHANGED <<careful, lost, disk, writes>>

Next ==
  \/ \E name \in Names : sys_open(name) \/ sys_creat(name) \/ sys_stat(name)
  \/ \E d \in Fds : sys_close(d)
  \/ \E d \in Fds, k \in 0 .. DIRECT * BLOCK_SIZE : sys_lseek(d, k)
  \/ \E d \in Fds, n \in Lengths : sys_read(d, n) \/ sys_write(d, n)
  \/ create_alloc \/ create_inode \/ create_entry \/ create_node
  \/ write_alloc \/ write_data \/ ata_write_sector \/ write_inode
  \/ Crash

Spec == Init /\ [][Next]_vars

-----------------------------------------------------------------------------
Files == {dir[k].ino : k \in DOMAIN dir}
BlocksOf(inode) == {inode.block[k] : k \in DOMAIN inode.block} \ {0}

\* The types of the state.
TypeOK ==
  /\ block_bitmap \subseteq Blocks /\ inode_bitmap \subseteq Inodes
  /\ \A i \in Inodes : inode_table[i].size \in 0 .. DIRECT * BLOCK_SIZE + 1
  /\ Len(dir) <= DIR_ENTRIES /\ lost \subseteq Kinds
  /\ free_blocks \in 0 .. BLOCKS /\ free_inodes \in 0 .. INODES
  /\ pool_count \in 1 .. NODES

\* ext2_alloc_block: whatever the programs do and wherever the power goes, a block
\* of a file, by the disk or by the copy of an open file, is marked as used and
\* belongs to no other file, unless the disk refused to mark a block.
BlocksOwned ==
  LET all == {<<i, inode_table[i]>> : i \in Inodes}
               \cup {<<fd[d].ino, fd[d].inode>> : d \in {e \in Fds : fd[e] # Closed}}
  IN "block_bitmap" \notin lost => \A x, y \in all :
       /\ BlocksOf(x[2]) \subseteq block_bitmap
       /\ x[1] # y[1] => BlocksOf(x[2]) \cap BlocksOf(y[2]) = {}

\* ext2_vfs_create: an entry is on the disk only after its inode, and no two
\* entries have the same inode, wherever the power goes, unless the disk refused
\* to mark or to write an inode.
EntriesHaveInodes ==
  lost \cap {"inode_bitmap", "inode"} = {} =>
    \A k \in DOMAIN dir :
      /\ dir[k].ino \in inode_bitmap /\ inode_table[dir[k].ino].links = 1
      /\ \A j \in DOMAIN dir : dir[j].ino = dir[k].ino => j = k

\* vfs_open: a name is in the directory once, whatever the disk refuses, as long
\* as no file is created after the nodes are used up (the lookup of an existing
\* name fails then).
NamesOnce == careful => \A j, k \in DOMAIN dir : dir[j].name = dir[k].name => j = k

\* What a file-system checker would look for, at any moment the power may go:
\* blocks and inodes in use are marked and have one owner, names one entry; each
\* as long as the disk takes the writes that this rests on.
DiskConsistent == TypeOK /\ BlocksOwned /\ EntriesHaveInodes /\ NamesOnce

\* ext2_vfs_write: a file on the disk holds what was written to it; at any moment
\* of a write in progress, and so after a power failure, the cells outside of it
\* are as they were.  Only directory entries may be refused.
Durable ==
  Trusted => \A i \in Files :
    LET now == Contents(inode_table[i])
        busy == IF op.call = "write" /\ fd[op.d].ino = i THEN op.off + 1 .. op.off + op.n ELSE {}
    IN /\ Len(now) = Len(written[i])
       /\ \A k \in DOMAIN now \ busy : now[k] = written[i][k]

\* ext2_vfs_read: an open file reads as what was written to it.
ReadsBack ==
  Trusted /\ op = None =>
    \A d \in Fds : fd[d] # Closed => Contents(fd[d].inode) = written[fd[d].ino]

\* Written data are what the disk holds and what open files read.
DataKept == Durable /\ ReadsBack

\* The counts of free blocks and inodes in memory, which are not kept on the disk,
\* never say that it is full when it is not, through any number of restarts, as
\* long as the disk marks what is taken.
SpaceUsable ==
  /\ "block_bitmap" \notin lost /\ free_blocks = 0 => block_bitmap = Blocks
  /\ "inode_bitmap" \notin lost /\ free_inodes = 0 => inode_bitmap = Inodes

\* Names are interchangeable.
NameSymmetry == Permutations(Names)
=============================================================================
