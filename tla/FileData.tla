------------------------------- MODULE FileData -------------------------------
(* What is in a file of the CS202 file system (lab5): reading, writing,        *)
(* cutting and flushing one inode (inode.c), with direct, indirect and         *)
(* double-indirect pointers, on a disk that other files fill and empty.        *)
(* Blocks are counted, not numbered: that no two uses share a block is checked *)
(* in FileSystem.  inode_block_walk, inode_get_block and inode_truncate_blocks *)
(* are modelled as their comments promise.  Positions stay below MaxSize, the  *)
(* image of MAX_FILE_SIZE, which no 32-bit position reaches in the code.       *)
EXTENDS Naturals, Sequences, FiniteSets, Functions

CONSTANTS BLKSIZE, N_DIRECT, N_INDIRECT,
          NBlocks,      \* free blocks of the disk when the file is empty
          Buffers       \* what a write may be given: sequences of bytes

N_DOUBLE == N_INDIRECT * N_INDIRECT
FileBlks == 0..N_DIRECT+N_INDIRECT+N_DOUBLE-1
MaxSize  == (N_DIRECT + N_INDIRECT + N_DOUBLE) * BLKSIZE

ASSUME SizesAssumption == {BLKSIZE, N_DIRECT, N_INDIRECT} \subseteq Nat \ {0} /\ NBlocks \in Nat
ASSUME BuffersAssumption == \A buf \in Buffers : buf \in Seq(0..255)

VARIABLES file,     \* [size, have, data]: i_size, the blocks it has, what is in its data blocks
          free      \* blocks free in the bitmap

vars == <<file, free>>

(* A block the inode can have: data, or pointers: the indirect block, the      *)
(* double-indirect block and the indirect blocks under it.                     *)
Data(n) == <<"data", n>>
Ind     == <<"ind", 0>>
Dbl     == <<"dbl", 0>>
Sub(k)  == <<"sub", k>>
Slots   == {Data(n) : n \in FileBlks} \cup {Ind, Dbl} \cup {Sub(k) : k \in 0..N_INDIRECT-1}
Cleared == [o \in 0..BLKSIZE-1 |-> 0]

ceil(n) == (n + BLKSIZE - 1) \div BLKSIZE       \* ROUNDUP(n, BLKSIZE) / BLKSIZE

(* The pointer blocks on the way to file block n, from the inode on.           *)
SubOf(n) == (n - N_DIRECT - N_INDIRECT) \div N_INDIRECT
Pointers(n) ==
    IF n < N_DIRECT THEN {}
    ELSE IF n < N_DIRECT + N_INDIRECT THEN {Ind}
    ELSE {Dbl, Sub(SubOf(n))}

-----------------------------------------------------------------------------
(* The functions take the state s = [r, file, free] and return it changed.     *)

Alloc(s, slot) ==
    IF s.r # "ok" \/ slot \in s.file.have THEN s
    ELSE IF s.free = 0 THEN [s EXCEPT !.r = "ENOSPC"]
    ELSE [s EXCEPT !.free = @ - 1, !.file.have = @ \cup {slot}]

inode_get_block(s, n) ==
    LET reached == IF n < N_DIRECT THEN s
                   ELSE IF n < N_DIRECT + N_INDIRECT THEN Alloc(s, Ind)
                   ELSE Alloc(Alloc(s, Dbl), Sub(SubOf(n))) IN
    Alloc(reached, Data(n))

(* inode_block_walk without alloc: -ENOENT for a pointer block that is not     *)
(* there; the slot it finds may be empty.                                      *)
Walkable(f, n) == Pointers(n) \subseteq f.have
Stored(f, n)   == Walkable(f, n) /\ Data(n) \in f.have

FreeSlots(s, gone) == [s EXCEPT !.free = @ + Cardinality(s.file.have \cap gone),
                                !.file.have = @ \ gone,
                                !.file.data = [n \in FileBlks |-> IF Data(n) \in gone THEN Cleared ELSE @[n]]]

(* inode_free_block for one block after another; it frees nothing where there  *)
(* is no pointer block or no block.                                            *)
inode_free_block(s, blks) == FreeSlots(s, {Data(n) : n \in {k \in blks : Stored(s.file, k)}})

(* Mutants: the block the new end is in goes too; the indirect blocks under    *)
(* the double-indirect block stay.                                             *)
TruncateRoundsDown(s, newsize) == inode_free_block(s, (newsize \div BLKSIZE)..ceil(s.file.size)-1)
TruncateKeepsSubs(s, newsize) ==
    FreeSlots(inode_free_block(s, ceil(newsize)..ceil(s.file.size)-1), {x \in {Ind, Dbl} : ceil(newsize) <= N_DIRECT})

inode_truncate_blocks(s, newsize) ==
    LET new == ceil(newsize)
        t == inode_free_block(s, new..ceil(s.file.size)-1)
        u == IF new <= N_DIRECT THEN FreeSlots(t, {Ind}) ELSE t IN
    IF new <= N_DIRECT + N_INDIRECT THEN FreeSlots(u, {Dbl} \cup {Sub(k) : k \in 0..N_INDIRECT-1}) ELSE u

inode_set_size(s, newsize) ==
    LET t == IF s.file.size > newsize THEN inode_truncate_blocks(s, newsize) ELSE s IN
    [t EXCEPT !.file.size = newsize]

(* inode_read and inode_write go from offset to end in turns, each up to the   *)
(* end of a block.                                                             *)
bn(pos, end) == IF BLKSIZE - (pos % BLKSIZE) < end - pos THEN BLKSIZE - (pos % BLKSIZE) ELSE end - pos

ReadTurn(f, end, t) ==
    LET b == t.pos \div BLKSIZE
        Part == [i \in 1..bn(t.pos, end) |-> IF Stored(f, b) THEN f.data[b][(t.pos % BLKSIZE) + i - 1] ELSE 0] IN
    IF t.pos = end THEN t ELSE [pos |-> t.pos + bn(t.pos, end), bytes |-> t.bytes \o Part]

(* Mutant: reads past the end.                                                 *)
ReadUnclipped(f, offset, count) ==
    LET Turn[k \in 0..count] ==
          IF k = 0 THEN [pos |-> offset, bytes |-> <<>>] ELSE ReadTurn(f, offset + count, Turn[k-1]) IN
    Turn[count].bytes

inode_read(f, offset, count) ==
    LET n == IF offset >= f.size THEN 0 ELSE IF count < f.size - offset THEN count ELSE f.size - offset
        Turn[k \in 0..n] ==
          IF k = 0 THEN [pos |-> offset, bytes |-> <<>>] ELSE ReadTurn(f, offset + n, Turn[k-1]) IN
    Turn[n].bytes

(* A block that cannot be had ends the loop; what is done stays done.          *)
WriteTurn(buf, offset, t) ==
    LET end  == offset + Len(buf)
        b    == t.pos \div BLKSIZE
        from == t.pos % BLKSIZE
        g    == inode_get_block(t.s, b)
        to   == from + bn(t.pos, end) IN
    IF t.s.r # "ok" \/ t.pos = end THEN t
    ELSE IF g.r # "ok" THEN [t EXCEPT !.s = g]
    ELSE [pos |-> t.pos + bn(t.pos, end),
          s   |-> [g EXCEPT !.file.data[b] =
                      [o \in 0..BLKSIZE-1 |-> IF o \in from..to-1 THEN buf[t.pos - offset + o - from + 1] ELSE @[o]]]]

inode_write(s, buf, offset) ==
    LET end == offset + Len(buf)
        Turn[k \in 0..Len(buf)] ==
          IF k = 0 THEN [pos |-> offset, s |-> IF end > s.file.size THEN inode_set_size(s, end) ELSE s]
          ELSE WriteTurn(buf, offset, Turn[k-1]) IN
    Turn[Len(buf)].s

(* The blocks inode_flush writes out.                                          *)
inode_flush(f) ==
    {Data(i) : i \in {j \in 0..ceil(f.size)-1 : Stored(f, j)}}
    \cup ({Ind, Dbl} \cap f.have)
    \cup (IF Dbl \in f.have THEN {Sub(k) : k \in 0..N_INDIRECT-1} \cap f.have ELSE {})

(* The blocks inode_stat counts.                                               *)
inode_stat(f) == Cardinality({i \in 0..ceil(f.size)-1 : Stored(f, i)})

-----------------------------------------------------------------------------
Now     == [r |-> "ok", file |-> file, free |-> free]
Done(s) == file' = s.file /\ free' = s.free

fs_write(buf, offset) == offset + Len(buf) <= MaxSize /\ Done(inode_write(Now, buf, offset))

fs_truncate(size) == Done(inode_set_size(Now, size))

(* Other files take the last blocks and give them back.                        *)
OthersTake == free > 0 /\ free' = 0 /\ UNCHANGED file
OthersGive == free = 0 /\ free' = NBlocks - Cardinality(file.have) /\ UNCHANGED file

Init ==
    /\ file = [size |-> 0, have |-> {}, data |-> [n \in FileBlks |-> Cleared]]
    /\ free = NBlocks

Next ==
    \/ \E buf \in Buffers, offset \in 0..MaxSize-1 : fs_write(buf, offset)
    \/ \E size \in 0..MaxSize : fs_truncate(size)
    \/ OthersTake \/ OthersGive

Spec == Init /\ [][Next]_vars

-----------------------------------------------------------------------------
Bytes == {0} \cup UNION {Range(buf) : buf \in Buffers}

TypeOK ==
    /\ file.size \in 0..MaxSize /\ file.have \subseteq Slots
    /\ file.data \in [FileBlks -> [0..BLKSIZE-1 -> Bytes]]
    /\ free \in 0..NBlocks

(* The file as bytes by position, those past its end included.                 *)
Content(f) == [p \in 0..MaxSize-1 |-> IF Stored(f, p \div BLKSIZE) THEN f.data[p \div BLKSIZE][p % BLKSIZE] ELSE 0]

(* pread: whatever range is asked for, across blocks and holes and up to the   *)
(* end, the loop returns the bytes at those positions.                         *)
ReadsContent ==
    \A offset \in 0..MaxSize : \A count \in 0..MaxSize-offset+1 :
        inode_read(file, offset, count) =
            [i \in 1..(IF offset + count <= file.size THEN count
                       ELSE IF offset < file.size THEN file.size - offset ELSE 0) |-> Content(file)[offset + i - 1]]

(* No block is out of reach: each is below the end of the file, where          *)
(* inode_flush() writes it out and inode_truncate_blocks() will find it, and   *)
(* has the pointer blocks that lead to it.                                     *)
BlocksReachable ==
    /\ inode_flush(file) = file.have
    /\ \A n \in FileBlks : Data(n) \in file.have => Walkable(file, n)
    /\ Sub(0) \in file.have \/ Sub(N_INDIRECT-1) \in file.have => Dbl \in file.have

(* Nothing leaks: cutting the file to nothing (inode_free() does) gives back   *)
(* every block, pointer blocks included, and st_blocks counts the data blocks. *)
CutsClean ==
    /\ inode_set_size(Now, 0).file.have = {}
    /\ inode_set_size(Now, 0).free = free + Cardinality(file.have)
    /\ inode_stat(file) = Cardinality({n \in FileBlks : Data(n) \in file.have})

(* The blocks of the file and the free ones: none is lost to the disk.         *)
NoBlockLost == TypeOK /\ BlocksReachable /\ CutsClean

(* Writes and cuts are those of a file of bytes (ByteFile), over all the ways  *)
(* of finding or failing to find blocks.                                       *)
Promise == INSTANCE ByteFile WITH content <- Content(file), length <- file.size

KeepsPromise == Promise!Spec
=============================================================================
