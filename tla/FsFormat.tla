------------------------------ MODULE FsFormat ------------------------------
(***************************************************************************)
(* The file system formatter, src/lab5/fsformat.c: it lays out an image    *)
(* from front to back, with a super block, the bitmap, the root inode and  *)
(* then, for each file on its command line, an inode, the data and the     *)
(* blocks of pointers to it; the directory and the bitmap come last.       *)
(*                                                                         *)
(* A step is the code from one alloc() to the next, so that whatever a     *)
(* panic leaves on the disk is a state.  Opening and reading the files is  *)
(* left out, with its panics; file names fit in NAME_MAX, and no length    *)
(* is within a block of 2^32.                                              *)
(***************************************************************************)
EXTENDS Integers, Sequences

CONSTANTS
  BLKSIZE,         \* bytes in a block
  BLKBITSIZE,      \* bits in a block of the bitmap
  DirentSize,      \* sizeof(struct dirent)
  N_DIRECT, N_INDIRECT,
  START_DIR_ENTS,  \* entries the directory array is made for
  NBlocks,         \* values of the NBLOCKS argument
  Arguments,       \* the FILE arguments: sequences of [name, len]
  NoName,          \* an empty name
  StaleNames,      \* what d_name of an entry that nobody wrote may read as,
  StaleInums       \* and its d_inum: any number, past the end of the disk too

ASSUME FormatAssumption ==
  /\ {BLKSIZE, BLKBITSIZE, DirentSize, N_DIRECT, N_INDIRECT, START_DIR_ENTS}
       \subseteq Nat \ {0}
  /\ BLKSIZE % DirentSize = 0
  /\ NBlocks \subseteq {n \in Nat : n >= 2}
  /\ StaleInums \subseteq Nat
  /\ \A a \in Arguments : Len(a) \in Nat /\ \A f \in 1..Len(a) :
       /\ a[f].name # NoName
       /\ a[f].len \in 0..BLKSIZE * (N_DIRECT + N_INDIRECT + N_INDIRECT * N_INDIRECT)

\* The files a command line has room for fit in a directory: fsformat.c does not
\* look, and a directory of 4096-byte blocks holds millions of names.
ASSUME DirectoryAssumption ==
  \A a \in Arguments :
    Len(a) * DirentSize <= BLKSIZE * (N_DIRECT + N_INDIRECT + N_INDIRECT * N_INDIRECT)

BLKDIRENTS == BLKSIZE \div DirentSize

\* ROUNDUP(bytes, BLKSIZE) / BLKSIZE
Blocks(bytes) == (bytes + BLKSIZE - 1) \div BLKSIZE

VARIABLES
  nblocks, argv,  \* the command line
  diskpos,        \* how many blocks are allocated
  disk,           \* the image: what is in each block
  ents, capacity, \* the directory's entries, as a sequence, and the array's size
  lost,           \* history: the files whose entries idiradd() did not write
  next,           \* the file main()'s loop is at
  job,            \* finishinode()'s arguments, with the inode's number
  slot,           \* its j
  pc

vars == <<nblocks, argv, diskpos, disk, ents, lost, capacity, next, job, slot, pc>>

\* What a block may hold.  A block of pointers that is not written is all 0.
Zero == [kind |-> "zero"]
Super(root) == [kind |-> "super", s_root |-> root]
Bitmap(free) == [kind |-> "bitmap", free |-> free]
Pointers(to) == [kind |-> "pointers", to |-> to]
Data(f, k) == [kind |-> "data", file |-> f, block |-> k]
Dirents(d) == [kind |-> "dirents", ents |-> d]
NewInode ==
  [kind |-> "inode", i_size |-> 0, i_direct |-> [i \in 0..N_DIRECT-1 |-> 0],
   i_indirect |-> 0, i_double |-> 0]

NoEntry == [name |-> NoName, inum |-> 0]

\* What malloc() and realloc() leave in an entry
Stale == [name : StaleNames, inum : StaleInums]

nbitblocks == (nblocks + BLKBITSIZE - 1) \div BLKBITSIZE
BitmapBlocks == 1..nbitblocks
root == nbitblocks + 1

Init ==
  /\ nblocks \in NBlocks /\ argv \in Arguments
  /\ diskpos = 0 /\ disk = [b \in 0..nblocks-1 |-> Zero]
  /\ ents = <<>> /\ lost = {} /\ capacity = START_DIR_ENTS /\ next = 1
  /\ job = [inum |-> 0, start |-> 0, len |-> 0] /\ slot = 0
  /\ pc = "opendisk"

-----------------------------------------------------------------------------
(* alloc() *)

\* The number of blocks the next alloc() is asked for
Need ==
  CASE pc = "opendisk" -> 1 + nbitblocks
    [] pc = "read" -> Blocks(argv[next].len)
    [] pc = "files" /\ next > Len(argv) -> Blocks(Len(ents) * DirentSize)
    [] OTHER -> 1

\* alloc() leaves the last block alone
Fits(n) == diskpos + n < nblocks

Alloc(n) == Fits(n) /\ diskpos' = diskpos + n

Working == pc \notin {"finishdisk", "done", "panic"}

\* panic("out of disk blocks") and exit; the image stays as it is.
OutOfBlocks ==
  /\ Working /\ ~Fits(Need)
  /\ diskpos' = diskpos + Need /\ pc' = "panic"
  /\ UNCHANGED <<nblocks, argv, disk, ents, lost, capacity, next, job, slot>>

-----------------------------------------------------------------------------
(* opendisk() *)

OpenDisk ==
  /\ pc = "opendisk" /\ Alloc(Need) /\ pc' = "root"
  /\ disk' = [b \in 0..nblocks-1 |->
                IF b \in BitmapBlocks THEN Bitmap(0..BLKBITSIZE-1) ELSE disk[b]]
  /\ UNCHANGED <<nblocks, argv, ents, lost, capacity, next, job, slot>>

MakeRoot ==
  /\ pc = "root" /\ Alloc(1) /\ pc' = "files"
  /\ disk' = [disk EXCEPT ![diskpos] = NewInode, ![0] = Super(diskpos)]
  /\ UNCHANGED <<nblocks, argv, ents, lost, capacity, next, job, slot>>

-----------------------------------------------------------------------------
(* finishinode(), for job: the inode itself, and after each of its alloc()s
   the block it got *)

\* Pointers to count blocks of a file, from its block `base` on; 0 past its end
PointersFrom(j, base, count) ==
  [i \in 0..count-1 |-> IF base + i < Blocks(j.len) THEN j.start + base + i ELSE 0]

SizedInode(ino, j) ==
  [ino EXCEPT !.i_size = j.len, !.i_direct = PointersFrom(j, 0, N_DIRECT)]

\* Where the program goes on when the inode is finished
Leave(inum) ==
  IF inum = root THEN pc' = "finishdisk" /\ UNCHANGED next
                 ELSE pc' = "files" /\ next' = next + 1

\* Finished, unless the file fills the pointers there are up to block `reached`
GoOn(reached, label) ==
  IF Blocks(job'.len) >= reached THEN pc' = label /\ UNCHANGED next ELSE Leave(job'.inum)

AllocIndirect ==
  /\ pc = "indirect" /\ Alloc(1)
  /\ disk' = [disk EXCEPT ![job.inum].i_indirect = diskpos,
                          ![diskpos] = Pointers(PointersFrom(job, N_DIRECT, N_INDIRECT))]
  /\ UNCHANGED job
  /\ GoOn(N_DIRECT + N_INDIRECT, "double")
  /\ UNCHANGED <<nblocks, argv, ents, lost, capacity, slot>>

AllocDouble ==
  /\ pc = "double" /\ Alloc(1) /\ pc' = "slots" /\ slot' = 0
  /\ disk' = [disk EXCEPT ![job.inum].i_double = diskpos,
                          ![diskpos] = Pointers([i \in 0..N_INDIRECT-1 |-> 0])]
  /\ UNCHANGED <<nblocks, argv, ents, lost, capacity, next, job>>

\* Variation: the first indirect block is counted twice
SlotBaseLate(j) == N_DIRECT + N_INDIRECT + (j + 1) * N_INDIRECT

\* The first block of the file that the j-th entry of the double block is for
SlotBase(j) == N_DIRECT + N_INDIRECT + j * N_INDIRECT

\* Every entry gets a block, whatever the length.
AllocSlot ==
  /\ pc = "slots" /\ Alloc(1)
  /\ LET d == disk[job.inum].i_double IN
       disk' = [disk EXCEPT ![d].to[slot] = diskpos,
                            ![diskpos] = Pointers(PointersFrom(job, SlotBase(slot), N_INDIRECT))]
  /\ slot' = slot + 1
  /\ IF slot + 1 < N_INDIRECT THEN UNCHANGED <<pc, next>> ELSE Leave(job.inum)
  /\ UNCHANGED <<nblocks, argv, ents, lost, capacity, job>>

-----------------------------------------------------------------------------
(* writeinode(), finishidir(), finishdisk() *)

\* idiradd() takes the entry's address first and may then have the array moved,
\* which leaves the entry as malloc() gave it, in its name and in its number.
MustGrow == Len(ents) + 1 >= capacity

AddEntry ==
  /\ pc = "files" /\ next <= Len(argv) /\ Alloc(1) /\ pc' = "read"
  /\ \/ /\ ents' = Append(ents, [name |-> argv[next].name, inum |-> diskpos])
        /\ UNCHANGED lost
     \/ /\ MustGrow
        /\ \E e \in Stale : ents' = Append(ents, e)
        /\ lost' = lost \cup {next}
  /\ capacity' = IF MustGrow THEN 4 * capacity ELSE capacity
  /\ disk' = [disk EXCEPT ![diskpos] = NewInode]
  /\ job' = [job EXCEPT !.inum = diskpos]
  /\ UNCHANGED <<nblocks, argv, next, slot>>

ReadFile ==
  /\ pc = "read" /\ Alloc(Need)
  /\ job' = [job EXCEPT !.start = diskpos, !.len = argv[next].len]
  /\ disk' = [b \in 0..nblocks-1 |->
                CASE b = job.inum -> SizedInode(disk[b], job')
                  [] b \in diskpos..diskpos'-1 -> Data(next, b - diskpos)
                  [] OTHER -> disk[b]]
  /\ GoOn(N_DIRECT, "indirect")
  /\ UNCHANGED <<nblocks, argv, ents, lost, capacity, slot>>

\* The n-th entry of the array, and the zeros memmove() does not reach
EntryAt(n) == IF n < Len(ents) THEN ents[n + 1] ELSE NoEntry

\* Variation: the size is that of the entries
DirSizeExact(bytes) == bytes

\* The root's size, in whole blocks
DirSize(bytes) == Blocks(bytes) * BLKSIZE

WriteDirectory ==
  /\ pc = "files" /\ next > Len(argv) /\ Alloc(Need)
  /\ job' = [inum |-> root, start |-> diskpos, len |-> DirSize(Len(ents) * DirentSize)]
  /\ disk' = [b \in 0..nblocks-1 |->
                CASE b = root -> SizedInode(disk[b], job')
                  [] b \in diskpos..diskpos'-1 ->
                       Dirents([n \in 0..BLKDIRENTS-1 |->
                                  EntryAt((b - diskpos) * BLKDIRENTS + n)])
                  [] OTHER -> disk[b]]
  /\ GoOn(N_DIRECT, "indirect")
  /\ UNCHANGED <<nblocks, argv, ents, lost, capacity, slot>>

\* Variation: one bit more
UsedBitsOneMore(b) == b <= diskpos

\* The bits finishdisk() clears
UsedBits(b) == b < diskpos

FinishDisk ==
  /\ pc = "finishdisk" /\ pc' = "done"
  /\ disk' = [b \in 0..nblocks-1 |->
                IF b \in BitmapBlocks
                THEN Bitmap({i \in disk[b].free : ~UsedBits((b - 1) * BLKBITSIZE + i)})
                ELSE disk[b]]
  /\ UNCHANGED <<nblocks, argv, diskpos, ents, lost, capacity, next, job, slot>>

Next ==
  \/ OpenDisk \/ MakeRoot
  \/ AddEntry \/ ReadFile \/ WriteDirectory
  \/ AllocIndirect \/ AllocDouble \/ AllocSlot
  \/ FinishDisk \/ OutOfBlocks

Spec == Init /\ [][Next]_vars

TypeOK ==
  /\ nblocks \in NBlocks /\ argv \in Arguments
  /\ DOMAIN disk = 0..nblocks-1
  /\ diskpos \in Nat /\ (pc # "panic" => diskpos < nblocks)
  /\ ents \in Seq([name : StaleNames \cup {argv[f].name : f \in 1..Len(argv)},
                    inum : StaleInums \cup 0..nblocks-1])
  /\ lost \subseteq 1..Len(argv)
  /\ capacity \in Nat /\ next \in 1..Len(argv)+1 /\ slot \in 0..N_INDIRECT
  /\ job \in [inum : 0..nblocks-1, start : 0..nblocks-1, len : Nat]
  /\ pc \in {"opendisk", "root", "files", "read", "indirect", "double", "slots",
             "finishdisk", "done", "panic"}
=============================================================================
