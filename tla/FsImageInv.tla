----------------------------- MODULE FsImageInv -----------------------------
(***************************************************************************)
(* The inductive invariant behind the properties of FsImage.tla.  The      *)
(* formatter goes through the image from front to back, so where each      *)
(* thing is follows from the lengths of the files alone.                   *)
(***************************************************************************)
EXTENDS FsImage

\* Blocks finishinode() takes for pointers to a file of n blocks
Extra(n) ==
  IF n < N_DIRECT THEN 0 ELSE IF n < N_DIRECT + N_INDIRECT THEN 1 ELSE 2 + N_INDIRECT

\* Where the inode of file f is, and where the directory's blocks are
Size(f) == Blocks(argv[f].len)
Space(f) == 1 + Size(f) + Extra(Size(f))
At[f \in 1..Len(argv)+1] == IF f = 1 THEN root + 1 ELSE At[f - 1] + Space(f - 1)

\* finishinode()'s arguments for file f and for the directory
FileJob(f) == [inum |-> At[f], start |-> At[f] + 1, len |-> argv[f].len]
DirJob ==
  [inum |-> root, start |-> At[Len(argv) + 1], len |-> DirSize(Len(argv) * DirentSize)]

\* The first block after those of j, when n blocks of pointers are made
PastEnd(j, n) == j.start + Blocks(j.len) + n

\* What finishinode() has written for j when it has made n blocks of pointers: to
\* blocks of the file, to the first of these, to the second, and the second's own.
LaidOut(j, n) ==
  LET first == PastEnd(j, 0) IN
  /\ disk[j.inum] =
       [kind |-> "inode", i_size |-> j.len, i_direct |-> PointersFrom(j, 0, N_DIRECT),
        i_indirect |-> IF n > 0 THEN first ELSE 0,
        i_double |-> IF n > 1 THEN first + 1 ELSE 0]
  /\ n > 0 => disk[first] = Pointers(PointersFrom(j, N_DIRECT, N_INDIRECT))
  /\ n > 1 => disk[first + 1] =
       Pointers([i \in 0..N_INDIRECT-1 |-> IF i + 2 < n THEN first + 2 + i ELSE 0])
  /\ \A i \in 0..N_INDIRECT-1 : i + 2 < n =>
       disk[first + 2 + i] = Pointers(PointersFrom(j, SlotBase(i), N_INDIRECT))

\* The blocks of file f, and those of the directory
FileWritten(f) == \A k \in 0..Size(f)-1 : disk[At[f] + 1 + k] = Data(f, k)
DirWritten ==
  \A k \in 0..Blocks(DirJob.len)-1 :
    disk[DirJob.start + k] =
      Dirents([n \in 0..BLKDIRENTS-1 |-> EntryAt(k * BLKDIRENTS + n)])

FileDone(f) == LaidOut(FileJob(f), Extra(Size(f))) /\ FileWritten(f)

-----------------------------------------------------------------------------
InFinish == pc \in {"indirect", "double", "slots"}
Finished == pc \in {"finishdisk", "done"}

\* How many blocks of pointers finishinode() has made for job
Made == CASE pc = "indirect" -> 0 [] pc = "double" -> 1 [] pc = "slots" -> 2 + slot

\* Whether an entry has been made for the file the loop is at
Entered == pc = "read" \/ (InFinish /\ job.inum # root)

\* Every entry is the one of its file, but for those idiradd() lost, and the array
\* has a size that it grows to.
EntriesInv ==
  /\ Len(ents) = IF Entered THEN next ELSE next - 1
  /\ Len(ents) <= Len(argv)
  /\ lost \subseteq (1..Len(ents)) \cap MayBeLost
  /\ \A f \in 1..Len(ents) :
       IF f \in lost THEN ents[f] \in Stale
                     ELSE ents[f] = [name |-> argv[f].name, inum |-> At[f]]
  /\ \E i \in 0..Len(ents) : capacity = Capacity[i]
  /\ Len(ents) < capacity

\* The blocks before the first inode, and those not allocated yet
FrontInv ==
  /\ pc \in {"opendisk", "root"} => next = 1
  /\ pc # "opendisk" => diskpos > nbitblocks
  /\ pc # "opendisk" => \A b \in BitmapBlocks :
       disk[b] = Bitmap({i \in 0..BLKBITSIZE-1 :
                           pc = "done" => ~UsedBits((b - 1) * BLKBITSIZE + i)})
  /\ pc = "opendisk" => diskpos = 0
  /\ pc = "root" => diskpos = root
  /\ pc \notin {"opendisk", "root"} => disk[0] = Super(root)

\* The root's inode, before it is its turn
RootWaits == disk[root] = NewInode

\* Where the main program is: the files before `next` are done, and what has been
\* allocated ends with what has been made.
FilesInv ==
  pc \notin {"opendisk", "root"} => \A f \in 1..next-1 : FileDone(f)

\* In finishinode(), with n blocks of pointers made, for file m or, after the
\* last file, for the directory
Stage(j, n, m) ==
  /\ LaidOut(j, n) /\ diskpos = PastEnd(j, n)
  /\ \/ m <= Len(argv) /\ j = FileJob(m) /\ FileWritten(m) /\ RootWaits
     \/ m = Len(argv) + 1 /\ j = DirJob /\ DirWritten

PlaceInv ==
  /\ pc = "files" => RootWaits /\ diskpos = At[next]
  /\ pc = "read" =>
       /\ next <= Len(argv) /\ RootWaits
       /\ job.inum = At[next] /\ disk[At[next]] = NewInode /\ diskpos = At[next] + 1
  /\ InFinish => Made < Extra(Blocks(job.len)) /\ Stage(job, Made, next)
  /\ Finished => next = Len(argv) + 1 /\ Stage(job, Extra(Blocks(job.len)), next)

\* A panic leaves the image as it is, and nobody goes on from there.
IInv == TypeOK /\ (pc # "panic" => EntriesInv /\ FrontInv /\ FilesInv /\ PlaceInv)
=============================================================================
