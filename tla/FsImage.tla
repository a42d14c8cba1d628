------------------------------ MODULE FsImage -------------------------------
(***************************************************************************)
(* What the file system (src/lab5/bitmap.c, dir.c, fs_types.h) makes of    *)
(* the image FsFormat.tla writes: it has to read back every file, find it  *)
(* by its name, and never give away a block that is in use.                *)
(***************************************************************************)
EXTENDS FsFormat, FiniteSetsExt

-----------------------------------------------------------------------------
(* Reading an image *)

s_root == disk[0].s_root

\* The pointer at position i of block b, 0 when there is no such block
PointerAt(b, i) == IF b = 0 THEN 0 ELSE disk[b].to[i]

\* The k-th block of a file, over the three kinds of pointers an inode has
FileBlock(ino, k) ==
  LET indirect == k - N_DIRECT
      double == indirect - N_INDIRECT
  IN CASE indirect < 0 -> ino.i_direct[k]
       [] indirect >= 0 /\ double < 0 -> PointerAt(ino.i_indirect, indirect)
       [] OTHER -> PointerAt(PointerAt(ino.i_double, double \div N_INDIRECT),
                             double % N_INDIRECT)

\* The directory, as dir_lookup() goes through it
RootDir == disk[s_root]
DirPositions == 0..(RootDir.i_size \div BLKSIZE) * BLKDIRENTS - 1
DirEntry(n) == disk[FileBlock(RootDir, n \div BLKDIRENTS)].ents[n % BLKDIRENTS]

\* dir_lookup(): the first entry of that name, or -ENOENT
ENOENT == 2
dir_lookup(name) ==
  LET hits == {n \in DirPositions : DirEntry(n).name = name}
  IN IF hits = {} THEN -ENOENT ELSE DirEntry(Min(hits)).inum

block_is_free(b) == b % BLKBITSIZE \in disk[1 + b \div BLKBITSIZE].free

-----------------------------------------------------------------------------
(* Every block in use, with where it is named: <<block, position>> *)

\* The entries that idiradd() lost name no inode, whatever number they hold.
Inodes ==
  {s_root} \cup ({DirEntry(n).inum : n \in {m \in DirPositions : m + 1 \notin lost}} \ {0})

InodePointers(b) ==
  [i \in 0..N_DIRECT+1 |->
     CASE i < N_DIRECT -> disk[b].i_direct[i]
       [] i = N_DIRECT -> disk[b].i_indirect
       [] OTHER -> disk[b].i_double]

PointerBlocks ==
  LET direct == {disk[b].i_indirect : b \in Inodes} \ {0}
      double == {disk[b].i_double : b \in Inodes} \ {0}
  IN direct \cup double
       \cup ({disk[d].to[i] : d \in double, i \in 0..N_INDIRECT-1} \ {0})

PointersIn(b) == IF b \in Inodes THEN InodePointers(b) ELSE disk[b].to

\* The places that name a block
Links ==
  {l \in UNION {{b} \X DOMAIN PointersIn(b) : b \in Inodes \cup PointerBlocks} :
     PointersIn(l[1])[l[2]] # 0}
Linked == {PointersIn(l[1])[l[2]] : l \in Links}
InUse == {0} \cup BitmapBlocks \cup Inodes \cup Linked

-----------------------------------------------------------------------------
(* Properties *)

\* The sizes the directory's array goes through (fsformat.c:188)
Capacity[i \in 0..Len(argv)] == IF i = 0 THEN START_DIR_ENTS ELSE 4 * Capacity[i - 1]

\* The files whose entries idiradd() may have lost, being the first that do not
\* fit in the array
MayBeLost == {Capacity[i] : i \in 0..Len(argv)}
Kept == (1..Len(argv)) \ lost

\* Only such a file is ever lost, and every other reads back what was put in, from
\* the first block to the last, whatever kinds of pointers its length takes: the
\* layout finishinode() writes is the one the file system walks.
FilesReadBack ==
  pc = "done" =>
    /\ lost \subseteq MayBeLost
    /\ \A f \in Kept :
         LET e == DirEntry(f - 1)
             ino == disk[e.inum]
         IN /\ e.name = argv[f].name /\ ino.i_size = argv[f].len
            /\ \A k \in 0..Blocks(argv[f].len)-1 : disk[FileBlock(ino, k)] = Data(f, k)

\* Nothing is allocated past the end of the disk (TypeOK).  In a finished image
\* a block is in use for one purpose only, and the bitmap says so.  The other way
\* round, a block that it says is used is reachable, unless an entry was lost:
\* nothing leaks, although finishinode() takes pointer blocks it does not need.
\* A lost entry may hold the number of any block, a free one or one past the end
\* of the disk too: it is not counted as naming one.
BitmapExact ==
  /\ TypeOK
  /\ pc = "done" =>
    LET used == {b \in 0..nblocks-1 : ~block_is_free(b)}
    IN /\ Cardinality(Linked) = Cardinality(Links)
       /\ Linked \cap ({0} \cup BitmapBlocks \cup Inodes) = {}
       /\ InUse \subseteq used
       /\ lost = {} => used \subseteq InUse

\* The directory is one that dir.c can work on: its size is in whole blocks
\* (dir.c asserts it), a lookup finds the first file of that name, unless a lost
\* entry before it happens to read as that name, and each entry after the last one
\* is free for dir_alloc_dirent().
EntryName(f) == IF f \in lost THEN DirEntry(f - 1).name ELSE argv[f].name
DirectoryUsable ==
  pc = "done" =>
    /\ RootDir.i_size % BLKSIZE = 0
    /\ \A f \in Kept :
         (\A g \in 1..f-1 : EntryName(g) # argv[f].name) =>
           dir_lookup(argv[f].name) = DirEntry(f - 1).inum
    /\ Cardinality(DirPositions) >= Len(argv)
    /\ \A n \in DirPositions : n >= Len(argv) => DirEntry(n) = NoEntry

\* fsformat.c:220: "Copy name and inumber to directory entry."  So the entry just
\* added has the name and the number of the inode just made.
EntryCopied ==
  pc = "read" => ents[Len(ents)] = [name |-> argv[next].name, inum |-> job.inum]
=============================================================================
