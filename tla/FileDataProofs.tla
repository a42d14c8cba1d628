--------------------------- MODULE FileDataProofs -----------------------------
(* Proofs about FileData.tla, for blocks and pointer tables of any size, any   *)
(* disk and any writes: no block of a file is lost or out of reach, a read     *)
(* returns the bytes at its positions, and the inode implements ByteFile.      *)
EXTENDS FileData, FiniteSetTheorems, WellFoundedInduction, TLAPS

-----------------------------------------------------------------------------
(* Arithmetic and induction *)

LEMMA DivMod ==
  ASSUME NEW a \in Nat, NEW m \in Nat, m > 0
  PROVE  a \div m \in Nat /\ a % m \in 0..m-1 /\ a = m * (a \div m) + (a % m)
OBVIOUS

\* A product is below another when a factor is.
LEMMA ProductLess ==
  ASSUME NEW m \in Nat, NEW a \in Nat, NEW b \in Nat, a < b
  PROVE  m * a + m <= m * b /\ m * a \in Nat /\ m * b \in Nat
<1>1. PICK k \in Nat : b = a + 1 + k
  <2>1. b - a - 1 \in Nat /\ b = a + 1 + (b - a - 1)
    OBVIOUS
  <2> QED
    BY <2>1
<1>2. m * b = m * a + m + m * k /\ m * k \in Nat /\ m * a \in Nat /\ m * b \in Nat
  BY <1>1
<1> QED
  BY <1>2

\* Quotient and remainder are unique.
LEMMA DivUnique ==
  ASSUME NEW m \in Nat, m > 0, NEW s \in Nat, NEW z \in 0..m-1, NEW a \in Nat, a = m * s + z
  PROVE  a \div m = s /\ a % m = z
<1>1. PICK q, r : q = a \div m /\ r = a % m
  OBVIOUS
<1>2. q \in Nat /\ r \in 0..m-1 /\ a = m * q + r
  BY <1>1, DivMod
<1>3. PICK x, y : x = m * q /\ y = m * s
  OBVIOUS
<1>4. x \in Nat /\ y \in Nat
  BY <1>2, <1>3
<1>5. x + r = y + z
  BY <1>2, <1>3
<1>6. ~(q < s)
  <2> SUFFICES ASSUME q < s PROVE FALSE
    OBVIOUS
  <2>1. x + m <= y
    BY <1>2, <1>3, ProductLess
  <2> QED
    BY <1>2, <1>4, <1>5, <2>1
<1>7. ~(s < q)
  <2> SUFFICES ASSUME s < q PROVE FALSE
    OBVIOUS
  <2>1. y + m <= x
    BY <1>2, <1>3, ProductLess
  <2> QED
    BY <1>2, <1>4, <1>5, <2>1
<1>8. q = s
  BY <1>2, <1>6, <1>7
<1>9. r = z
  BY <1>2, <1>3, <1>4, <1>5, <1>8
<1> QED
  BY <1>1, <1>8, <1>9

LEMMA SetInduction ==
  ASSUME NEW P, 0 \in P, \A n \in Nat : n \in P => n + 1 \in P
  PROVE  Nat \subseteq P
<1> SUFFICES ASSUME Nat \ P # {} PROVE FALSE
  OBVIOUS
<1>1. PICK x \in Nat \ P : \A y \in Nat \ P : ~(<<y, x>> \in OpToRel(<, Nat))
  BY NatLessThanWellFounded, WFMin, Zenon
<1>2. \A y \in Nat : y < x => y \in P
  <2>1. \A u, v \in Nat : v < u => <<v, u>> \in OpToRel(<, Nat)
    BY DEF OpToRel
  <2> QED
    BY <1>1, <2>1
<1>3. x \in Nat /\ x \notin P /\ x # 0
  BY <1>1, Zenon
<1>4. x - 1 \in Nat /\ x - 1 < x /\ (x - 1) + 1 = x
  BY <1>3
<1>5. x - 1 \in P
  BY <1>2, <1>4
<1>6. x \in P
  BY <1>4, <1>5
<1> QED
  BY <1>3, <1>6

-----------------------------------------------------------------------------
(* Positions and blocks *)

NFile == N_DIRECT + N_INDIRECT + N_DOUBLE

LEMMA Sizes ==
  /\ BLKSIZE \in Nat /\ BLKSIZE > 0 /\ N_DIRECT \in Nat /\ N_DIRECT > 0
  /\ N_INDIRECT \in Nat /\ N_INDIRECT > 0 /\ N_DOUBLE \in Nat /\ NBlocks \in Nat
  /\ NFile \in Nat /\ FileBlks = 0..NFile-1 /\ MaxSize \in Nat /\ MaxSize = BLKSIZE * NFile
<1>1. /\ BLKSIZE \in Nat /\ BLKSIZE > 0 /\ N_DIRECT \in Nat /\ N_DIRECT > 0
      /\ N_INDIRECT \in Nat /\ N_INDIRECT > 0 /\ NBlocks \in Nat
  BY SizesAssumption
<1>2. N_DOUBLE \in Nat
  BY <1>1 DEF N_DOUBLE
<1>3. NFile \in Nat /\ FileBlks = 0..NFile-1
  BY <1>1, <1>2 DEF NFile, FileBlks
<1>4. MaxSize = BLKSIZE * NFile
  BY <1>1, <1>3 DEF MaxSize, NFile
<1>5. MaxSize \in Nat
  BY <1>1, <1>3, <1>4
<1> QED
  BY <1>1, <1>2, <1>3, <1>4, <1>5

Blk(p) == p \div BLKSIZE
Off(p) == p % BLKSIZE

LEMMA BlkOff ==
  ASSUME NEW p \in Nat
  PROVE  Blk(p) \in Nat /\ Off(p) \in 0..BLKSIZE-1 /\ p = BLKSIZE * Blk(p) + Off(p)
BY Sizes, DivMod DEF Blk, Off

\* Further on in the same block.
LEMMA SameBlock ==
  ASSUME NEW p \in Nat, NEW j \in Nat, Off(p) + j < BLKSIZE
  PROVE  Blk(p + j) = Blk(p) /\ Off(p + j) = Off(p) + j
<1>1. PICK q, r, x : q = Blk(p) /\ r = Off(p) /\ x = BLKSIZE * q
  OBVIOUS
<1>2. q \in Nat /\ r \in 0..BLKSIZE-1 /\ p = x + r /\ BLKSIZE \in Nat /\ BLKSIZE > 0
  BY <1>1, BlkOff, Sizes
<1>3. x \in Nat
  BY <1>1, <1>2
<1>4. PICK z, a : z = r + j /\ a = p + j
  OBVIOUS
<1>5. z \in 0..BLKSIZE-1 /\ a = x + z /\ a \in Nat
  <2>1. r + j < BLKSIZE
    BY <1>1, Zenon
  <2> QED
    BY <1>2, <1>3, <1>4, <2>1
<1>6. a = BLKSIZE * q + z
  BY <1>1, <1>5
<1>7. a \div BLKSIZE = q /\ a % BLKSIZE = z
  BY <1>2, <1>5, <1>6, DivUnique
<1> QED
  BY <1>1, <1>4, <1>7 DEF Blk, Off

\* Two positions of one block.
LEMMA OneBlock ==
  ASSUME NEW p \in Nat, NEW q \in Nat, Blk(p) = Blk(q)
  PROVE  q = p + (Off(q) - Off(p))
<1>1. PICK a, r, t, x : a = Blk(p) /\ r = Off(p) /\ t = Off(q) /\ x = BLKSIZE * a
  OBVIOUS
<1>2. p = x + r /\ q = x + t /\ r \in Nat /\ t \in Nat /\ a \in Nat /\ BLKSIZE \in Nat
  <2>1. p = BLKSIZE * a + r /\ a \in Nat /\ r \in 0..BLKSIZE-1
    BY <1>1, BlkOff
  <2>2. q = BLKSIZE * a + t /\ t \in 0..BLKSIZE-1
    BY <1>1, BlkOff
  <2> QED
    BY <1>1, <2>1, <2>2, Sizes
<1>3. x \in Nat
  BY <1>1, <1>2
<1>4. q = p + (t - r)
  BY <1>2, <1>3
<1> QED
  BY <1>1, <1>4

\* The first position of block n and below.
LEMMA BlkBelow ==
  ASSUME NEW p \in Nat, NEW n \in Nat
  PROVE  (p < BLKSIZE * n) <=> (Blk(p) < n)
<1>1. PICK q, r, x, y : q = Blk(p) /\ r = Off(p) /\ x = BLKSIZE * q /\ y = BLKSIZE * n
  OBVIOUS
<1>2. q \in Nat /\ r \in 0..BLKSIZE-1 /\ p = x + r /\ BLKSIZE \in Nat /\ BLKSIZE > 0
  BY <1>1, BlkOff, Sizes
<1>3. x \in Nat /\ y \in Nat
  BY <1>1, <1>2
<1>4. ASSUME q < n PROVE p < y
  <2>1. x + BLKSIZE <= y
    BY <1>1, <1>2, <1>4, ProductLess
  <2> QED
    BY <1>2, <1>3, <2>1
<1>5. ASSUME ~(q < n) PROVE ~(p < y)
  <2>1. q = n \/ n < q
    BY <1>2, <1>5
  <2>2. y <= x
    <3>1. CASE q = n
      BY <1>1, <1>3, <3>1
    <3>2. CASE n < q
      <4>1. y + BLKSIZE <= x
        BY <1>1, <1>2, <3>2, ProductLess
      <4> QED
        BY <1>2, <1>3, <4>1
    <3> QED
      BY <2>1, <3>1, <3>2
  <2> QED
    BY <1>2, <1>3, <2>2
<1> QED
  BY <1>1, <1>4, <1>5

LEMMA BlkInFile ==
  ASSUME NEW p \in 0..MaxSize-1
  PROVE  p \in Nat /\ Blk(p) \in FileBlks /\ Off(p) \in 0..BLKSIZE-1
<1>1. p \in Nat /\ p < BLKSIZE * NFile /\ NFile \in Nat
  BY Sizes
<1>2. Blk(p) < NFile /\ Blk(p) \in Nat /\ Off(p) \in 0..BLKSIZE-1
  BY <1>1, BlkBelow, BlkOff
<1> QED
  BY <1>1, <1>2, Sizes

\* The blocks below position n.
LEMMA Ceil ==
  ASSUME NEW n \in Nat
  PROVE  /\ ceil(n) \in Nat
         /\ \A p \in Nat : Blk(p) < ceil(n) <=> n > 0 /\ Blk(p) <= Blk(n - 1)
         /\ n = 0 => ceil(n) = 0
         /\ n > 0 => n - 1 \in Nat /\ ceil(n) = Blk(n - 1) + 1
         /\ n <= MaxSize => ceil(n) <= NFile
<1>0. BLKSIZE \in Nat /\ BLKSIZE > 0 /\ NFile \in Nat /\ MaxSize \in Nat
  BY Sizes
<1>1. ASSUME n = 0 PROVE ceil(n) = 0
  <2>1. n + BLKSIZE - 1 \in Nat /\ n + BLKSIZE - 1 = BLKSIZE * 0 + (BLKSIZE - 1)
    BY <1>0, <1>1
  <2>2. BLKSIZE - 1 \in 0..BLKSIZE-1
    BY <1>0
  <2> QED
    BY <1>0, <2>1, <2>2, DivUnique DEF ceil
<1>2. ASSUME n > 0 PROVE n - 1 \in Nat /\ ceil(n) = Blk(n - 1) + 1
  <2>1. n - 1 \in Nat
    BY <1>2
  <2>2. PICK q, r, x : q = Blk(n - 1) /\ r = Off(n - 1) /\ x = BLKSIZE * q
    OBVIOUS
  <2>3. q \in Nat /\ r \in 0..BLKSIZE-1 /\ n - 1 = x + r
    BY <2>1, <2>2, BlkOff
  <2>4. x \in Nat /\ BLKSIZE * (q + 1) = x + BLKSIZE /\ q + 1 \in Nat
    <3>1. q \in Nat /\ BLKSIZE \in Nat /\ q + 1 \in Nat
      BY <1>0, <2>3
    <3>2. BLKSIZE * q \in Nat
      BY <3>1
    <3>3. BLKSIZE * (q + 1) = BLKSIZE * q + BLKSIZE
      BY <3>1
    <3> QED
      BY <2>2, <3>1, <3>2, <3>3, Zenon
  <2>5. n + BLKSIZE - 1 = BLKSIZE * (q + 1) + r /\ n + BLKSIZE - 1 \in Nat
    <3>1. n = x + r + 1
      BY <2>3, <2>4
    <3>2. n + BLKSIZE - 1 = (x + BLKSIZE) + r /\ n + BLKSIZE - 1 \in Nat
      BY <1>0, <2>3, <2>4, <3>1
    <3> QED
      BY <2>4, <3>2, Zenon
  <2>6. (n + BLKSIZE - 1) \div BLKSIZE = q + 1
    BY <1>0, <2>3, <2>4, <2>5, DivUnique
  <2> QED
    BY <2>1, <2>2, <2>6 DEF ceil
<1>3. ceil(n) \in Nat
  <2>1. n > 0 => Blk(n - 1) \in Nat
    BY <1>2, BlkOff
  <2> QED
    BY <1>1, <1>2, <2>1
<1>4. ASSUME NEW p \in Nat PROVE Blk(p) < ceil(n) <=> n > 0 /\ Blk(p) <= Blk(n - 1)
  <2>1. Blk(p) \in Nat
    BY BlkOff
  <2>2. CASE n = 0
    BY <1>1, <2>1, <2>2
  <2>3. CASE n > 0
    <3>1. Blk(n - 1) \in Nat
      BY <1>2, <2>3, BlkOff
    <3> QED
      BY <1>2, <2>1, <2>3, <3>1
  <2> QED
    BY <2>2, <2>3
<1>5. ASSUME n <= MaxSize PROVE ceil(n) <= NFile
  <2>1. CASE n = 0
    BY <1>0, <1>1, <2>1
  <2>2. CASE n > 0
    <3>1. n - 1 \in Nat /\ n - 1 < BLKSIZE * NFile
      BY <1>0, <1>2, <1>5, <2>2, Sizes
    <3>2. Blk(n - 1) < NFile /\ Blk(n - 1) \in Nat
      BY <1>0, <3>1, BlkBelow, BlkOff
    <3> QED
      BY <1>0, <1>2, <2>2, <3>2
  <2> QED
    BY <2>1, <2>2
<1> QED
  BY <1>1, <1>2, <1>3, <1>4, <1>5

-----------------------------------------------------------------------------
(* The inode *)

Block  == [0..BLKSIZE-1 -> Bytes]
Files  == [size : 0..MaxSize, have : SUBSET Slots, data : [FileBlks -> Block]]
States == [r : {"ok", "ENOSPC"}, file : Files, free : Nat]

\* Each block is below the end of the file and has the pointer blocks that lead
\* to it, and so has each pointer block but the first; the data of blocks that
\* the file does not have are zeros.
Sound(f) ==
  /\ IsFiniteSet(f.have)
  /\ \A n \in FileBlks : Data(n) \in f.have => n < ceil(f.size) /\ Walkable(f, n)
  /\ \A k \in 0..N_INDIRECT-1 : Sub(k) \in f.have => Dbl \in f.have
  /\ Ind \in f.have => ceil(f.size) > N_DIRECT
  /\ Dbl \in f.have => ceil(f.size) > N_DIRECT + N_INDIRECT
  /\ \A n \in FileBlks : Data(n) \notin f.have => f.data[n] = Cleared

Used(s) == s.free + Cardinality(s.file.have)

IInv ==
  /\ file \in Files /\ Sound(file)
  /\ free \in Nat /\ free + Cardinality(file.have) <= NBlocks

LEMMA SubRange ==
  ASSUME NEW n \in FileBlks, ~(n < N_DIRECT), ~(n < N_DIRECT + N_INDIRECT)
  PROVE  SubOf(n) \in 0..N_INDIRECT-1
<1>1. PICK m, z, w : m = N_INDIRECT /\ z = n - N_DIRECT - N_INDIRECT /\ w = N_INDIRECT * N_INDIRECT
  OBVIOUS
<1>2. /\ N_DIRECT \in Nat /\ m \in Nat /\ m > 0 /\ n \in Nat /\ n < NFile
      /\ NFile = N_DIRECT + m + N_DOUBLE /\ N_DOUBLE = w /\ w \in Nat
  BY <1>1, Sizes DEF NFile, N_DOUBLE
<1>3. z \in Nat /\ z < w
  BY <1>1, <1>2
<1>4. PICK q, r, x : q = z \div m /\ r = z % m /\ x = m * q
  OBVIOUS
<1>5. q \in Nat /\ r \in 0..m-1 /\ z = x + r
  BY <1>2, <1>3, <1>4, DivMod
<1>6. ~(m <= q)
  <2> SUFFICES ASSUME m <= q PROVE FALSE
    OBVIOUS
  <2>1. w <= x
    <3>1. CASE m = q
      BY <1>1, <1>2, <1>4, <3>1
    <3>2. CASE m < q
      <4>1. m * m + m <= m * q /\ m * m \in Nat
        BY <1>2, <1>5, <3>2, ProductLess
      <4> QED
        BY <1>1, <1>2, <1>4, <4>1
    <3> QED
      BY <1>2, <1>5, <3>1, <3>2
  <2>2. x \in Nat
    BY <1>2, <1>4, <1>5
  <2> QED
    BY <1>2, <1>3, <1>5, <2>1, <2>2
<1> QED
  BY <1>1, <1>2, <1>4, <1>5, <1>6 DEF SubOf

LEMMA SlotsApart ==
  /\ \A m, n : Data(m) = Data(n) => m = n
  /\ \A m, n : Sub(m) = Sub(n) => m = n
  /\ \A n : Data(n) # Ind /\ Data(n) # Dbl /\ Ind # Sub(n) /\ Dbl # Sub(n)
  /\ \A m, n : Data(m) # Sub(n)
  /\ Ind # Dbl
BY DEF Data, Ind, Dbl, Sub

LEMMA SlotsAre ==
  /\ \A n \in FileBlks : Data(n) \in Slots
  /\ Ind \in Slots /\ Dbl \in Slots
  /\ \A k \in 0..N_INDIRECT-1 : Sub(k) \in Slots
  /\ \A x \in Slots : \/ \E n \in FileBlks : x = Data(n)
                      \/ x = Ind \/ x = Dbl
                      \/ \E k \in 0..N_INDIRECT-1 : x = Sub(k)
BY DEF Slots

LEMMA ClearedType == Cleared \in Block /\ \A o \in 0..BLKSIZE-1 : Cleared[o] = 0
BY DEF Cleared, Block, Bytes

\* What Walkable and Stored say, case by case.
LEMMA WalkCases ==
  ASSUME NEW f, NEW n
  PROVE  Walkable(f, n) <=>
           \/ n < N_DIRECT
           \/ ~(n < N_DIRECT) /\ n < N_DIRECT + N_INDIRECT /\ Ind \in f.have
           \/ /\ ~(n < N_DIRECT) /\ ~(n < N_DIRECT + N_INDIRECT)
              /\ Dbl \in f.have /\ Sub(SubOf(n)) \in f.have
<1>1. CASE n < N_DIRECT
  BY <1>1 DEF Walkable, Pointers
<1>2. CASE ~(n < N_DIRECT) /\ n < N_DIRECT + N_INDIRECT
  BY <1>2 DEF Walkable, Pointers
<1>3. CASE ~(n < N_DIRECT) /\ ~(n < N_DIRECT + N_INDIRECT)
  BY <1>3 DEF Walkable, Pointers
<1> QED
  BY <1>1, <1>2, <1>3

-----------------------------------------------------------------------------
(* Blocks taken *)

\* alloc_block() for one slot.
LEMMA AllocIs ==
  ASSUME NEW s \in States, NEW slot \in Slots, IsFiniteSet(s.file.have),
         NEW t, t = Alloc(s, slot)
  PROVE  /\ t \in States /\ IsFiniteSet(t.file.have)
         /\ t.file.size = s.file.size /\ t.file.data = s.file.data
         /\ Used(t) = Used(s)
         /\ s.r # "ok" => t = s
         /\ t.r = "ok" => s.r = "ok" /\ t.file.have = s.file.have \cup {slot}
         /\ t.r # "ok" => t.file.have = s.file.have
<1>1. CASE s.r # "ok" \/ slot \in s.file.have
  <2>1. t = s
    BY <1>1 DEF Alloc
  <2> QED
    BY <1>1, <2>1 DEF States
<1>2. CASE s.r = "ok" /\ slot \notin s.file.have /\ s.free = 0
  <2>1. t = [s EXCEPT !.r = "ENOSPC"]
    BY <1>2 DEF Alloc
  <2>2. t \in States /\ t.r = "ENOSPC" /\ t.file = s.file /\ t.free = s.free
    BY <2>1 DEF States
  <2> QED
    BY <1>2, <2>2 DEF Used
<1>3. CASE s.r = "ok" /\ slot \notin s.file.have /\ s.free # 0
  <2>1. t = [s EXCEPT !.free = @ - 1, !.file.have = @ \cup {slot}]
    BY <1>3 DEF Alloc
  <2>2. s.file \in Files /\ s.free \in Nat /\ s.file.have \subseteq Slots
    BY DEF States, Files
  <2>3. t = [r |-> s.r, file |-> [s.file EXCEPT !.have = @ \cup {slot}], free |-> s.free - 1]
    BY <2>1 DEF States
  <2>4. /\ t.file \in Files /\ t.file.have = s.file.have \cup {slot}
        /\ t.file.size = s.file.size /\ t.file.data = s.file.data
    BY <2>2, <2>3 DEF Files
  <2>5. s.free - 1 \in Nat
    BY <1>3, <2>2
  <2>6. t \in States /\ t.r = "ok" /\ t.free = s.free - 1
    BY <1>3, <2>3, <2>4, <2>5 DEF States
  <2>7. /\ IsFiniteSet(t.file.have)
        /\ Cardinality(t.file.have) = Cardinality(s.file.have) + 1
        /\ Cardinality(s.file.have) \in Nat
    BY <1>3, <2>4, FS_AddElement, FS_CardinalityType
  <2>8. Used(t) = Used(s)
    BY <2>2, <2>6, <2>7 DEF Used
  <2> QED
    BY <1>3, <2>4, <2>6, <2>7, <2>8
<1> QED
  BY <1>1, <1>2, <1>3

\* What may be given to a file without an end or a path missing.
Allowed(f, x) ==
  \/ x = Ind /\ ceil(f.size) > N_DIRECT
  \/ x = Dbl /\ ceil(f.size) > N_DIRECT + N_INDIRECT
  \/ Dbl \in f.have /\ \E k \in 0..N_INDIRECT-1 : x = Sub(k)
  \/ \E n \in FileBlks : x = Data(n) /\ n < ceil(f.size) /\ Walkable(f, n)

LEMMA SoundAlloc ==
  ASSUME NEW s \in States, Sound(s.file), NEW slot \in Slots, NEW t, t = Alloc(s, slot),
         s.r = "ok" => Allowed(s.file, slot)
  PROVE  Sound(t.file)
<1>1. /\ t \in States /\ IsFiniteSet(t.file.have)
      /\ t.file.size = s.file.size /\ t.file.data = s.file.data
      /\ t.r = "ok" => s.r = "ok" /\ t.file.have = s.file.have \cup {slot}
      /\ t.r # "ok" => t.file.have = s.file.have
  <2>1. IsFiniteSet(s.file.have)
    BY DEF Sound
  <2> QED
    BY <2>1, AllocIs
<1>2. CASE t.r # "ok"
  BY <1>1, <1>2 DEF Sound, Walkable
<1>3. CASE t.r = "ok"
  <2>1. t.file.have = s.file.have \cup {slot} /\ Allowed(s.file, slot)
    BY <1>1, <1>3
  <2>2. \A n \in FileBlks : Walkable(s.file, n) => Walkable(t.file, n)
    BY <2>1 DEF Walkable
  <2>3. ASSUME NEW n \in FileBlks, Data(n) \in t.file.have
        PROVE  n < ceil(t.file.size) /\ Walkable(t.file, n)
    <3>1. CASE Data(n) \in s.file.have
      BY <1>1, <2>2, <3>1 DEF Sound
    <3>2. CASE Data(n) = slot
      BY <1>1, <2>1, <2>2, <3>2, SlotsApart DEF Allowed
    <3> QED
      BY <2>1, <2>3, <3>1, <3>2
  <2>4. ASSUME NEW k \in 0..N_INDIRECT-1, Sub(k) \in t.file.have PROVE Dbl \in t.file.have
    <3>1. CASE Sub(k) \in s.file.have
      BY <2>1, <3>1 DEF Sound
    <3>2. CASE Sub(k) = slot
      BY <2>1, <3>2, SlotsApart DEF Allowed
    <3> QED
      BY <2>1, <2>4, <3>1, <3>2
  <2>5. Ind \in t.file.have => ceil(t.file.size) > N_DIRECT
    BY <1>1, <2>1, SlotsApart DEF Sound, Allowed
  <2>6. Dbl \in t.file.have => ceil(t.file.size) > N_DIRECT + N_INDIRECT
    BY <1>1, <2>1, SlotsApart DEF Sound, Allowed
  <2>7. \A n \in FileBlks : Data(n) \notin t.file.have => t.file.data[n] = Cleared
    BY <1>1, <2>1 DEF Sound
  <2> QED
    BY <1>1, <2>3, <2>4, <2>5, <2>6, <2>7 DEF Sound
<1> QED
  BY <1>2, <1>3

\* One Alloc after another.
Grows(s, t) ==
  /\ t \in States /\ Sound(t.file)
  /\ t.file.size = s.file.size /\ t.file.data = s.file.data /\ Used(t) = Used(s)
  /\ t.r = "ok" => s.r = "ok" /\ s.file.have \subseteq t.file.have
  /\ s.r # "ok" => t = s

LEMMA AllocGrows ==
  ASSUME NEW s \in States, Sound(s.file), NEW slot \in Slots, NEW t, t = Alloc(s, slot),
         s.r = "ok" => Allowed(s.file, slot)
  PROVE  Grows(s, t) /\ (t.r = "ok" => slot \in t.file.have)
<1>1. IsFiniteSet(s.file.have)
  BY DEF Sound
<1>2. Sound(t.file)
  BY SoundAlloc
<1> QED
  BY <1>1, <1>2, AllocIs DEF Grows

LEMMA GrowsOn ==
  ASSUME NEW s, NEW t, NEW u, Grows(s, t), Grows(t, u)
  PROVE  Grows(s, u)
BY DEF Grows

\* inode_get_block(): a block of the file as it is, with all that leads to it,
\* or an error with every block accounted for.
LEMMA GetBlock ==
  ASSUME NEW s \in States, Sound(s.file), NEW n \in FileBlks, n < ceil(s.file.size),
         NEW g, g = inode_get_block(s, n)
  PROVE  Grows(s, g) /\ (g.r = "ok" => Stored(g.file, n))
<1> DEFINE one == Alloc(s, Dbl)
           reached == IF n < N_DIRECT THEN s
                      ELSE IF n < N_DIRECT + N_INDIRECT THEN Alloc(s, Ind)
                      ELSE Alloc(one, Sub(SubOf(n)))
<1>1. g = Alloc(reached, Data(n))
  BY DEF inode_get_block
<1>0. n \in Nat /\ N_DIRECT \in Nat /\ N_INDIRECT \in Nat /\ ceil(s.file.size) \in Nat
  <2>1. s.file.size \in Nat
    BY Sizes DEF States, Files
  <2> QED
    BY <2>1, Sizes, Ceil
<1>2. Grows(s, reached) /\ (reached.r = "ok" => Walkable(reached.file, n))
  <2>1. CASE n < N_DIRECT
    <3>1. reached = s
      BY <2>1
    <3>2. Walkable(s.file, n)
      BY <2>1, WalkCases
    <3> QED
      BY <3>1, <3>2 DEF Grows
  <2>2. CASE ~(n < N_DIRECT) /\ n < N_DIRECT + N_INDIRECT
    <3>1. reached = Alloc(s, Ind)
      BY <2>2
    <3>2. Allowed(s.file, Ind)
      BY <1>0, <2>2 DEF Allowed
    <3>3. Grows(s, reached) /\ (reached.r = "ok" => Ind \in reached.file.have)
      BY <3>1, <3>2, SlotsAre, AllocGrows
    <3> QED
      BY <2>2, <3>3, WalkCases
  <2>3. CASE ~(n < N_DIRECT) /\ ~(n < N_DIRECT + N_INDIRECT)
    <3>1. reached = Alloc(one, Sub(SubOf(n)))
      BY <2>3
    <3>2. Allowed(s.file, Dbl)
      BY <1>0, <2>3 DEF Allowed
    <3> HIDE DEF reached
    <3>3. Grows(s, one) /\ (one.r = "ok" => Dbl \in one.file.have)
      BY <3>2, SlotsAre, AllocGrows
    <3> HIDE DEF one
    <3>4. SubOf(n) \in 0..N_INDIRECT-1
      BY <2>3, SubRange
    <3>5. one.r = "ok" => Allowed(one.file, Sub(SubOf(n)))
      BY <3>3, <3>4 DEF Allowed
    <3>6. one \in States /\ Sound(one.file) /\ Sub(SubOf(n)) \in Slots
      BY <3>3, <3>4, SlotsAre DEF Grows
    <3>7. Grows(one, reached) /\ (reached.r = "ok" => Sub(SubOf(n)) \in reached.file.have)
      BY <3>1, <3>5, <3>6, AllocGrows
    <3>8. reached.r = "ok" => Dbl \in reached.file.have
      BY <3>3, <3>7 DEF Grows
    <3>9. reached.r = "ok" => Walkable(reached.file, n)
      BY <2>3, <3>7, <3>8, WalkCases
    <3> QED
      BY <3>3, <3>7, <3>9, GrowsOn
  <2> QED
    BY <2>1, <2>2, <2>3
<1> HIDE DEF reached
<1>3. reached \in States /\ Sound(reached.file) /\ reached.file.size = s.file.size
  BY <1>2 DEF Grows
<1>4. reached.r = "ok" => Allowed(reached.file, Data(n))
  BY <1>2, <1>3 DEF Allowed
<1>5. Grows(reached, g) /\ (g.r = "ok" => Data(n) \in g.file.have)
  BY <1>1, <1>3, <1>4, SlotsAre, AllocGrows
<1>6. g.r = "ok" => Walkable(g.file, n)
  BY <1>2, <1>5 DEF Grows, Walkable
<1> QED
  BY <1>2, <1>5, <1>6, GrowsOn DEF Stored

-----------------------------------------------------------------------------
(* Blocks given back *)

LEMMA BlkMono ==
  ASSUME NEW p \in Nat, NEW q \in Nat, p <= q
  PROVE  Blk(p) <= Blk(q)
<1>1. PICK a, b, x : a = Blk(p) /\ b = Blk(q) /\ x = BLKSIZE * (b + 1)
  OBVIOUS
<1>2. a \in Nat /\ b \in Nat /\ b + 1 \in Nat
  BY <1>1, BlkOff
<1>3. x \in Nat
  BY <1>1, <1>2, Sizes
<1>4. q < x
  <2>1. Blk(q) < b + 1
    BY <1>1, <1>2
  <2> QED
    BY <1>1, <1>2, <2>1, BlkBelow
<1>5. p < x
  BY <1>3, <1>4
<1>6. Blk(p) < b + 1
  BY <1>1, <1>2, <1>5, BlkBelow
<1> QED
  BY <1>1, <1>2, <1>6

LEMMA CeilMono ==
  ASSUME NEW m \in Nat, NEW n \in Nat, m <= n
  PROVE  ceil(m) <= ceil(n) /\ ceil(m) \in Nat /\ ceil(n) \in Nat
<1>1. ceil(m) \in Nat /\ ceil(n) \in Nat
  BY Ceil
<1>2. CASE m = 0
  <2>1. ceil(m) = 0
    BY <1>2, Ceil
  <2> QED
    BY <1>1, <2>1
<1>3. CASE m > 0
  <2>1. m - 1 \in Nat /\ n - 1 \in Nat /\ m - 1 <= n - 1 /\ n > 0
    BY <1>3
  <2>2. ceil(m) = Blk(m - 1) + 1
    BY <1>3, Ceil
  <2>3. ceil(n) = Blk(n - 1) + 1
    BY <2>1, Ceil
  <2>4. Blk(m - 1) <= Blk(n - 1)
    BY <2>1, BlkMono
  <2>5. Blk(m - 1) \in Nat /\ Blk(n - 1) \in Nat
    BY <2>1, BlkOff
  <2> QED
    BY <1>1, <2>2, <2>3, <2>4, <2>5
<1> QED
  BY <1>2, <1>3

LEMMA FreeIs ==
  ASSUME NEW s \in States, IsFiniteSet(s.file.have), NEW gone, NEW t, t = FreeSlots(s, gone)
  PROVE  /\ t \in States /\ IsFiniteSet(t.file.have)
         /\ t.r = s.r /\ t.file.size = s.file.size /\ t.file.have = s.file.have \ gone
         /\ Used(t) = Used(s)
         /\ \A n \in FileBlks :
              t.file.data[n] = IF Data(n) \in gone THEN Cleared ELSE s.file.data[n]
<1> DEFINE back == s.file.have \cap gone
           data == [n \in FileBlks |-> IF Data(n) \in gone THEN Cleared ELSE s.file.data[n]]
<1>1. s.file \in Files /\ s.free \in Nat /\ s.file.data \in [FileBlks -> Block]
  BY DEF States, Files
<1>2. data \in [FileBlks -> Block]
  BY <1>1, ClearedType
<1>3. t = [r |-> s.r, file |-> [size |-> s.file.size, have |-> s.file.have \ gone, data |-> data],
           free |-> s.free + Cardinality(back)]
  BY DEF FreeSlots, States, Files
<1> HIDE DEF data
<1>4. /\ IsFiniteSet(back) /\ IsFiniteSet(s.file.have \ gone)
      /\ Cardinality(back) \in Nat /\ Cardinality(s.file.have \ gone) \in Nat
      /\ Cardinality(s.file.have) \in Nat
      /\ Cardinality(s.file.have \ gone) + Cardinality(back) = Cardinality(s.file.have)
  <2>1. IsFiniteSet(back) /\ IsFiniteSet(s.file.have \ gone)
    BY FS_Subset
  <2>2. PICK a, b : a = s.file.have \ gone /\ b = back
    OBVIOUS
  <2>3. a \cup b = s.file.have /\ a \cap b = {}
    BY <2>2
  <2>4. IsFiniteSet(a) /\ IsFiniteSet(b)
    BY <2>1, <2>2
  <2>5. Cardinality(a \cup b) = Cardinality(a) + Cardinality(b) - Cardinality(a \cap b)
    BY <2>4, FS_Union
  <2>6. Cardinality(a) \in Nat /\ Cardinality(b) \in Nat /\ Cardinality(a \cap b) = 0
    BY <2>3, <2>4, FS_CardinalityType, FS_EmptySet
  <2>7. Cardinality(s.file.have) = Cardinality(a) + Cardinality(b)
    <3>1. Cardinality(s.file.have) = Cardinality(a) + Cardinality(b) - Cardinality({})
      BY <2>3, <2>5, Zenon
    <3>2. Cardinality({}) = 0
      BY FS_EmptySet
    <3>3. PICK x, y : x = Cardinality(a) /\ y = Cardinality(b)
      OBVIOUS
    <3>4. x \in Nat /\ y \in Nat
      BY <2>6, <3>3
    <3>5. x + y - 0 = x + y
      BY <3>4
    <3> QED
      BY <3>1, <3>2, <3>3, <3>5
  <2>8. Cardinality(back) = Cardinality(b) /\ Cardinality(s.file.have \ gone) = Cardinality(a)
    BY <2>2
  <2>9. PICK x, y, w : x = Cardinality(a) /\ y = Cardinality(b) /\ w = Cardinality(s.file.have)
    OBVIOUS
  <2>10. x \in Nat /\ y \in Nat /\ w = x + y
    BY <2>6, <2>7, <2>9
  <2>11. w \in Nat
    BY <2>10
  <2>12. Cardinality(back) \in Nat /\ Cardinality(s.file.have \ gone) \in Nat /\ Cardinality(s.file.have) \in Nat
    BY <2>8, <2>9, <2>10, <2>11, Zenon
  <2>13. Cardinality(s.file.have \ gone) + Cardinality(back) = Cardinality(s.file.have)
    BY <2>8, <2>9, <2>10, Zenon
  <2> QED
    BY <2>1, <2>12, <2>13, Zenon
<1> HIDE DEF back
<1>5. t.file \in Files
  BY <1>1, <1>2, <1>3 DEF Files
<1>6. t \in States
  BY <1>1, <1>3, <1>4, <1>5 DEF States
<1>7. /\ t.r = s.r /\ t.file.size = s.file.size /\ t.file.have = s.file.have \ gone
      /\ t.file.data = data /\ t.free = s.free + Cardinality(back)
  BY <1>3
<1>8. Used(t) = Used(s)
  BY <1>1, <1>4, <1>7 DEF Used
<1> QED
  BY <1>4, <1>6, <1>7, <1>8 DEF data

\* inode_truncate_blocks(): what is past the new end goes, and the pointer
\* blocks with the last block they lead to.
LEMMA Truncated ==
  ASSUME NEW s \in States, Sound(s.file), NEW z \in 0..MaxSize,
         NEW t, t = inode_truncate_blocks(s, z)
  PROVE  /\ t \in States /\ t.r = s.r /\ t.file.size = s.file.size /\ Used(t) = Used(s)
         /\ IsFiniteSet(t.file.have) /\ t.file.have \subseteq s.file.have
         /\ \A n \in FileBlks :
              /\ n < ceil(z) => /\ t.file.data[n] = s.file.data[n]
                                /\ Data(n) \in t.file.have <=> Data(n) \in s.file.have
              /\ ~(n < ceil(z)) => Data(n) \notin t.file.have /\ t.file.data[n] = Cleared
         /\ Ind \in t.file.have <=> Ind \in s.file.have /\ ceil(z) > N_DIRECT
         /\ Dbl \in t.file.have <=> Dbl \in s.file.have /\ ceil(z) > N_DIRECT + N_INDIRECT
         /\ \A k \in 0..N_INDIRECT-1 : Sub(k) \in t.file.have <=>
              Sub(k) \in s.file.have /\ ceil(z) > N_DIRECT + N_INDIRECT
<1>0. /\ ceil(z) \in Nat /\ ceil(s.file.size) \in Nat /\ N_DIRECT \in Nat /\ N_INDIRECT \in Nat
      /\ IsFiniteSet(s.file.have)
  <2>1. s.file.size \in Nat /\ z \in Nat
    BY Sizes DEF States, Files
  <2> QED
    BY <2>1, Sizes, Ceil DEF Sound
<1>1. PICK cut : cut = {Data(n) : n \in {k \in ceil(z)..ceil(s.file.size)-1 : Stored(s.file, k)}}
  OBVIOUS
<1>2. PICK a : a = FreeSlots(s, cut)
  OBVIOUS
<1>3. PICK b : b = IF ceil(z) <= N_DIRECT THEN FreeSlots(a, {Ind}) ELSE a
  OBVIOUS
<1>4. PICK under : under = {Dbl} \cup {Sub(k) : k \in 0..N_INDIRECT-1}
  OBVIOUS
<1>5. t = IF ceil(z) <= N_DIRECT + N_INDIRECT THEN FreeSlots(b, under) ELSE b
  BY <1>1, <1>2, <1>3, <1>4 DEF inode_truncate_blocks, inode_free_block
<1>6. \A n \in FileBlks : Data(n) \in cut <=> ~(n < ceil(z)) /\ Data(n) \in s.file.have
  <2>1. ASSUME NEW n \in FileBlks, Data(n) \in cut
        PROVE  ~(n < ceil(z)) /\ Data(n) \in s.file.have
    BY <1>0, <1>1, <2>1, SlotsApart DEF Stored
  <2>2. ASSUME NEW n \in FileBlks, ~(n < ceil(z)), Data(n) \in s.file.have
        PROVE  Data(n) \in cut
    <3>1. Stored(s.file, n) /\ n < ceil(s.file.size) /\ n \in Nat
      BY <2>2, Sizes DEF Stored, Sound
    <3>2. n \in ceil(z)..ceil(s.file.size)-1
      BY <1>0, <2>2, <3>1
    <3> QED
      BY <1>1, <3>1, <3>2
  <2> QED
    BY <2>1, <2>2
<1>7. Ind \notin cut /\ Dbl \notin cut /\ \A k : Sub(k) \notin cut
  BY <1>1, SlotsApart
<1>8. /\ a \in States /\ IsFiniteSet(a.file.have) /\ a.r = s.r /\ a.file.size = s.file.size
      /\ a.file.have = s.file.have \ cut /\ Used(a) = Used(s)
      /\ \A n \in FileBlks :
           a.file.data[n] = IF Data(n) \in cut THEN Cleared ELSE s.file.data[n]
  BY <1>0, <1>2, FreeIs
<1>9. /\ b \in States /\ IsFiniteSet(b.file.have) /\ b.r = s.r /\ b.file.size = s.file.size
      /\ b.file.have = IF ceil(z) <= N_DIRECT THEN a.file.have \ {Ind} ELSE a.file.have
      /\ Used(b) = Used(s)
      /\ \A n \in FileBlks : b.file.data[n] = a.file.data[n]
  <2>1. CASE ceil(z) <= N_DIRECT
    <3>0. PICK one : one = {Ind}
      OBVIOUS
    <3>1. b = FreeSlots(a, one)
      BY <1>3, <2>1, <3>0
    <3>2. /\ b \in States /\ IsFiniteSet(b.file.have) /\ b.r = a.r
          /\ b.file.size = a.file.size /\ b.file.have = a.file.have \ one /\ Used(b) = Used(a)
          /\ \A n \in FileBlks :
               b.file.data[n] = IF Data(n) \in one THEN Cleared ELSE a.file.data[n]
      <4>1. a \in States /\ IsFiniteSet(a.file.have)
        BY <1>8
      <4> QED
        BY <3>1, <4>1, FreeIs
    <3>3. \A n : Data(n) \notin one
      BY <3>0, SlotsApart
    <3> QED
      BY <1>8, <2>1, <3>0, <3>2, <3>3
  <2>2. CASE ~(ceil(z) <= N_DIRECT)
    BY <1>3, <1>8, <2>2
  <2> QED
    BY <2>1, <2>2
<1>10. /\ t \in States /\ IsFiniteSet(t.file.have) /\ t.r = s.r /\ t.file.size = s.file.size
       /\ t.file.have = IF ceil(z) <= N_DIRECT + N_INDIRECT THEN b.file.have \ under ELSE b.file.have
       /\ Used(t) = Used(s)
       /\ \A n \in FileBlks : t.file.data[n] = b.file.data[n]
  <2>1. CASE ceil(z) <= N_DIRECT + N_INDIRECT
    <3>1. t = FreeSlots(b, under) /\ \A n : Data(n) \notin under
      BY <1>4, <1>5, <2>1, SlotsApart
    <3> QED
      BY <1>9, <2>1, <3>1, FreeIs
  <2>2. CASE ~(ceil(z) <= N_DIRECT + N_INDIRECT)
    BY <1>5, <1>9, <2>2
  <2> QED
    BY <2>1, <2>2
<1>11. /\ \A n : Data(n) \notin under /\ Data(n) # Ind
       /\ Ind \notin under /\ Dbl \in under /\ Dbl # Ind
       /\ \A k \in 0..N_INDIRECT-1 : Sub(k) \in under /\ Sub(k) # Ind
  BY <1>4, SlotsApart
<1>12. ASSUME NEW n \in FileBlks
       PROVE  /\ n < ceil(z) => /\ t.file.data[n] = s.file.data[n]
                                /\ Data(n) \in t.file.have <=> Data(n) \in s.file.have
              /\ ~(n < ceil(z)) => Data(n) \notin t.file.have /\ t.file.data[n] = Cleared
  <2>1. Data(n) \in t.file.have <=> Data(n) \in s.file.have /\ Data(n) \notin cut
    BY <1>8, <1>9, <1>10, <1>11
  <2>2. t.file.data[n] = IF Data(n) \in cut THEN Cleared ELSE s.file.data[n]
    BY <1>8, <1>9, <1>10
  <2>3. Data(n) \notin s.file.have => s.file.data[n] = Cleared
    BY DEF Sound
  <2> QED
    BY <1>6, <2>1, <2>2, <2>3
<1>13. Ind \in t.file.have <=> Ind \in s.file.have /\ ceil(z) > N_DIRECT
  BY <1>0, <1>7, <1>8, <1>9, <1>10, <1>11
<1>14. Dbl \in t.file.have <=> Dbl \in s.file.have /\ ceil(z) > N_DIRECT + N_INDIRECT
  BY <1>0, <1>7, <1>8, <1>9, <1>10, <1>11
<1>15. ASSUME NEW k \in 0..N_INDIRECT-1
       PROVE  Sub(k) \in t.file.have <=>
                Sub(k) \in s.file.have /\ ceil(z) > N_DIRECT + N_INDIRECT
  BY <1>0, <1>7, <1>8, <1>9, <1>10, <1>11
<1>16. t.file.have \subseteq s.file.have
  BY <1>8, <1>9, <1>10
<1> QED
  BY <1>10, <1>12, <1>13, <1>14, <1>15, <1>16

\* inode_set_size(): the file keeps what is below its new end, and is zeros past
\* it, whichever way the end moves.
LEMMA SizeSet ==
  ASSUME NEW s \in States, Sound(s.file), NEW z \in 0..MaxSize,
         NEW t, t = inode_set_size(s, z)
  PROVE  /\ t \in States /\ Sound(t.file) /\ t.r = s.r /\ t.file.size = z /\ Used(t) = Used(s)
         /\ \A n \in FileBlks :
              t.file.data[n] = IF n < ceil(z) THEN s.file.data[n] ELSE Cleared
<1>1. PICK u : u = IF s.file.size > z THEN inode_truncate_blocks(s, z) ELSE s
  OBVIOUS
<1>2. t = [u EXCEPT !.file.size = z]
  BY <1>1 DEF inode_set_size
<1>3. s.file.size \in Nat /\ z \in Nat /\ ceil(z) \in Nat /\ ceil(s.file.size) \in Nat
  <2>1. s.file.size \in Nat /\ z \in Nat
    BY Sizes DEF States, Files
  <2> QED
    BY <2>1, Ceil
<1>4. /\ N_DIRECT \in Nat /\ N_INDIRECT \in Nat /\ FileBlks \subseteq Nat
  BY Sizes
<1>5. /\ u \in States /\ u.r = s.r /\ Used(u) = Used(s) /\ IsFiniteSet(u.file.have)
      /\ \A n \in FileBlks :
           /\ u.file.data[n] = IF n < ceil(z) THEN s.file.data[n] ELSE Cleared
           /\ Data(n) \in u.file.have => n < ceil(z) /\ Walkable(u.file, n)
           /\ Data(n) \notin u.file.have => u.file.data[n] = Cleared
      /\ Ind \in u.file.have => ceil(z) > N_DIRECT
      /\ Dbl \in u.file.have => ceil(z) > N_DIRECT + N_INDIRECT
      /\ \A k \in 0..N_INDIRECT-1 : Sub(k) \in u.file.have => Dbl \in u.file.have
  <2>1. CASE s.file.size > z
    <3>1. u = inode_truncate_blocks(s, z)
      BY <1>1, <2>1
    <3>2. /\ u \in States /\ u.r = s.r /\ Used(u) = Used(s) /\ IsFiniteSet(u.file.have)
          /\ \A n \in FileBlks :
               /\ n < ceil(z) => /\ u.file.data[n] = s.file.data[n]
                                 /\ Data(n) \in u.file.have <=> Data(n) \in s.file.have
               /\ ~(n < ceil(z)) => Data(n) \notin u.file.have /\ u.file.data[n] = Cleared
          /\ Ind \in u.file.have <=> Ind \in s.file.have /\ ceil(z) > N_DIRECT
          /\ Dbl \in u.file.have <=> Dbl \in s.file.have /\ ceil(z) > N_DIRECT + N_INDIRECT
          /\ \A k \in 0..N_INDIRECT-1 : Sub(k) \in u.file.have <=>
               Sub(k) \in s.file.have /\ ceil(z) > N_DIRECT + N_INDIRECT
      BY <3>1, Truncated
    <3>3. ASSUME NEW n \in FileBlks, Data(n) \in u.file.have
          PROVE  n < ceil(z) /\ Walkable(u.file, n)
      <4>1. n < ceil(z) /\ Data(n) \in s.file.have
        BY <3>2, <3>3
      <4>2. Walkable(s.file, n)
        BY <4>1 DEF Sound
      <4>3. CASE n < N_DIRECT
        BY <4>1, <4>3, WalkCases
      <4>4. CASE ~(n < N_DIRECT) /\ n < N_DIRECT + N_INDIRECT
        <5>1. Ind \in s.file.have /\ ceil(z) > N_DIRECT
          BY <1>3, <1>4, <4>1, <4>2, <4>4, WalkCases
        <5> QED
          BY <3>2, <4>1, <4>4, <5>1, WalkCases
      <4>5. CASE ~(n < N_DIRECT) /\ ~(n < N_DIRECT + N_INDIRECT)
        <5>1. Dbl \in s.file.have /\ Sub(SubOf(n)) \in s.file.have
          BY <4>2, <4>5, WalkCases
        <5>2. ceil(z) > N_DIRECT + N_INDIRECT
          BY <1>3, <1>4, <4>1, <4>5
        <5>3. SubOf(n) \in 0..N_INDIRECT-1
          BY <4>5, SubRange
        <5> QED
          BY <3>2, <4>1, <4>5, <5>1, <5>2, <5>3, WalkCases
      <4> QED
        BY <4>3, <4>4, <4>5
    <3>4. ASSUME NEW k \in 0..N_INDIRECT-1, Sub(k) \in u.file.have PROVE Dbl \in u.file.have
      BY <3>2, <3>4 DEF Sound
    <3>5. \A n \in FileBlks : Data(n) \notin u.file.have => u.file.data[n] = Cleared
      BY <3>2 DEF Sound
    <3> QED
      BY <3>2, <3>3, <3>4, <3>5
  <2>2. CASE ~(s.file.size > z)
    <3>1. u = s
      BY <1>1, <2>2
    <3>2. ceil(s.file.size) <= ceil(z)
      BY <1>3, <2>2, CeilMono
    <3>3. ASSUME NEW n \in FileBlks, ~(n < ceil(z)) PROVE s.file.data[n] = Cleared
      <4>1. ~(n < ceil(s.file.size))
        BY <1>3, <1>4, <3>2, <3>3
      <4> QED
        BY <4>1 DEF Sound
    <3>4. ASSUME NEW n \in FileBlks, n < ceil(s.file.size) PROVE n < ceil(z)
      BY <1>3, <1>4, <3>2, <3>4
    <3>5. /\ Ind \in s.file.have => ceil(z) > N_DIRECT
          /\ Dbl \in s.file.have => ceil(z) > N_DIRECT + N_INDIRECT
      BY <1>3, <1>4, <3>2 DEF Sound
    <3> QED
      BY <3>1, <3>3, <3>4, <3>5 DEF Sound
  <2> QED
    BY <2>1, <2>2
<1>6. /\ t \in States /\ t.r = u.r /\ t.free = u.free /\ t.file.size = z
      /\ t.file.have = u.file.have /\ t.file.data = u.file.data
  <2>1. u \in States /\ u.file \in Files
    BY <1>5 DEF States
  <2>2. /\ [u.file EXCEPT !.size = z] \in Files
        /\ t = [u EXCEPT !.file = [u.file EXCEPT !.size = z]]
    BY <1>2, <2>1 DEF Files, States
  <2> QED
    BY <2>1, <2>2 DEF Files, States
<1>7. Used(t) = Used(s)
  BY <1>5, <1>6 DEF Used
<1>8. Sound(t.file)
  BY <1>5, <1>6 DEF Sound, Walkable
<1> QED
  BY <1>5, <1>6, <1>7, <1>8

-----------------------------------------------------------------------------
(* Bytes by position *)

\* The byte at position p, wherever its block is.
At(f, p) == f.data[Blk(p)][Off(p)]

LEMMA ContentIs ==
  ASSUME NEW f \in Files, Sound(f)
  PROVE  /\ Content(f) \in [0..MaxSize-1 -> Bytes]
         /\ \A p \in 0..MaxSize-1 : Content(f)[p] = At(f, p)
<1>1. ASSUME NEW p \in 0..MaxSize-1
      PROVE  /\ At(f, p) \in Bytes
             /\ (IF Stored(f, Blk(p)) THEN f.data[Blk(p)][Off(p)] ELSE 0) = At(f, p)
  <2>1. PICK b, o : b = Blk(p) /\ o = Off(p)
    OBVIOUS
  <2>2. b \in FileBlks /\ o \in 0..BLKSIZE-1
    BY <2>1, BlkInFile
  <2>3. At(f, p) = f.data[b][o]
    BY <2>1 DEF At
  <2>4. f.data[b] \in Block
    BY <2>2 DEF Files
  <2>5. f.data[b][o] \in Bytes
    BY <2>2, <2>4 DEF Block
  <2>6. ASSUME ~Stored(f, b) PROVE f.data[b][o] = 0
    <3>1. Data(b) \notin f.have
      BY <2>2, <2>6 DEF Stored, Sound
    <3>2. f.data[b] = Cleared
      BY <2>2, <3>1 DEF Sound
    <3> QED
      BY <2>2, <3>2, ClearedType
  <2> QED
    BY <2>1, <2>3, <2>5, <2>6
<1>2. Content(f) = [p \in 0..MaxSize-1 |-> IF Stored(f, Blk(p)) THEN f.data[Blk(p)][Off(p)] ELSE 0]
  BY DEF Content, Blk, Off
<1> QED
  BY <1>1, <1>2

\* A turn of a loop: at least a byte, to the end or to the end of a block.
LEMMA Turn ==
  ASSUME NEW pos \in Nat, NEW end \in Nat, pos < end, NEW d, d = bn(pos, end)
  PROVE  /\ d \in Nat /\ d > 0 /\ pos + d <= end /\ Off(pos) + d <= BLKSIZE
         /\ pos + d = end \/ (pos + d) % BLKSIZE = 0
<1>1. PICK r : r = Off(pos)
  OBVIOUS
<1>2. r \in 0..BLKSIZE-1 /\ BLKSIZE \in Nat
  BY <1>1, BlkOff, Sizes
<1>3. d = IF BLKSIZE - r < end - pos THEN BLKSIZE - r ELSE end - pos
  BY <1>1 DEF bn, Off
<1>4. d \in Nat /\ d > 0 /\ pos + d <= end /\ r + d <= BLKSIZE
  BY <1>2, <1>3
<1>5. ASSUME pos + d # end PROVE (pos + d) % BLKSIZE = 0
  <2>1. d = BLKSIZE - r
    BY <1>2, <1>3, <1>5
  <2>2. PICK q, x : q = Blk(pos) /\ x = BLKSIZE * q
    OBVIOUS
  <2>3. q \in Nat /\ q + 1 \in Nat /\ pos = x + r
    BY <1>1, <2>2, BlkOff
  <2>4. x \in Nat
    BY <1>2, <2>2, <2>3
  <2>5. BLKSIZE * (q + 1) = x + BLKSIZE
    BY <1>2, <2>2, <2>3
  <2>6. pos + d = x + BLKSIZE /\ pos + d \in Nat
    BY <1>2, <2>1, <2>3, <2>4
  <2>7. pos + d = BLKSIZE * (q + 1) + 0
    BY <1>2, <2>4, <2>5, <2>6
  <2>8. 0 \in 0..BLKSIZE-1 /\ BLKSIZE > 0
    BY Sizes
  <2> QED
    BY <1>2, <2>3, <2>6, <2>7, <2>8, DivUnique
<1> QED
  BY <1>1, <1>4, <1>5

-----------------------------------------------------------------------------
(* Reading *)

ReadRule(f, offset, n, g) ==
  [k \in 0..n |-> IF k = 0 THEN [pos |-> offset, bytes |-> <<>>]
                  ELSE ReadTurn(f, offset + n, g[k-1])]

\* The same over the first m turns.
ReadUpTo(f, offset, n, m, g) ==
  [k \in 0..m |-> IF k = 0 THEN [pos |-> offset, bytes |-> <<>>]
                  ELSE ReadTurn(f, offset + n, g[k-1])]

\* The turns of the loop are defined.
LEMMA ReadTurns ==
  ASSUME NEW f, NEW offset \in Nat, NEW n \in Nat
  PROVE  \E g : g = ReadRule(f, offset, n, g)
<1> DEFINE P == {m \in Nat : \E g : g = ReadUpTo(f, offset, n, m, g)}
<1>1. 0 \in P
  <2>1. PICK g : g = [k \in 0..0 |-> [pos |-> offset, bytes |-> <<>>]]
    OBVIOUS
  <2>2. g = ReadUpTo(f, offset, n, 0, g)
    BY <2>1 DEF ReadUpTo
  <2> QED
    BY <2>2
<1>2. ASSUME NEW m \in Nat, m \in P PROVE m + 1 \in P
  <2>1. PICK g : g = ReadUpTo(f, offset, n, m, g)
    BY <1>2
  <2>2. PICK h : h = [k \in 0..m+1 |-> IF k = m + 1 THEN ReadTurn(f, offset + n, g[m]) ELSE g[k]]
    OBVIOUS
  <2>3. \A k \in 0..m : h[k] = g[k]
    BY <2>2
  <2>4. ASSUME NEW k \in 0..m+1
        PROVE  h[k] = IF k = 0 THEN [pos |-> offset, bytes |-> <<>>]
                      ELSE ReadTurn(f, offset + n, h[k-1])
    <3>1. CASE k = m + 1
      <4>1. h[k] = ReadTurn(f, offset + n, g[m])
        BY <2>2, <3>1
      <4>2. k # 0 /\ k - 1 = m /\ m \in 0..m
        BY <3>1
      <4>3. h[k - 1] = g[m]
        BY <2>3, <4>2
      <4> QED
        BY <4>1, <4>2, <4>3, Zenon
    <3>2. CASE k # m + 1
      <4>1. k \in 0..m
        BY <3>2
      <4>2. g[k] = IF k = 0 THEN [pos |-> offset, bytes |-> <<>>]
                   ELSE ReadTurn(f, offset + n, g[k-1])
        BY <2>1, <4>1 DEF ReadUpTo
      <4>3. k # 0 => k - 1 \in 0..m
        BY <4>1
      <4>4. k # 0 => h[k - 1] = g[k - 1]
        BY <2>3, <4>3
      <4>5. h[k] = g[k]
        BY <2>3, <4>1
      <4> QED
        BY <4>2, <4>4, <4>5, Zenon
    <3> QED
      BY <3>1, <3>2
  <2>5. h = ReadUpTo(f, offset, n, m + 1, h)
    BY <2>2, <2>4 DEF ReadUpTo
  <2> QED
    BY <2>5
<1> HIDE DEF P
<1>3. Nat \subseteq P
  BY <1>1, <1>2, SetInduction
<1>4. \E g : g = ReadUpTo(f, offset, n, n, g)
  BY <1>3 DEF P
<1> QED
  BY <1>4 DEF ReadUpTo, ReadRule

\* What has been read when the loop is at t.pos.
ReadSoFar(f, offset, n, k, t) ==
  /\ t.pos \in offset..offset+n
  /\ t.pos = offset + n \/ offset + k <= t.pos
  /\ t.bytes = [i \in 1..t.pos-offset |-> Content(f)[offset + i - 1]]

\* Two runs of one function, one after the other.
LEMMA Concat ==
  ASSUME NEW S, NEW a \in Nat, NEW b \in Nat, NEW c,
         \A i \in 1..a+b : c[i] \in S,
         NEW u, u = [i \in 1..a |-> c[i]], NEW v, v = [i \in 1..b |-> c[a + i]]
  PROVE  u \o v = [i \in 1..a+b |-> c[i]]
<1>1. \A i \in 1..a : i \in 1..a+b
  OBVIOUS
<1>2. \A i \in 1..b : a + i \in 1..a+b
  OBVIOUS
<1>3. u \in Seq(S) /\ Len(u) = a
  BY <1>1
<1>4. v \in Seq(S) /\ Len(v) = b
  BY <1>2
<1>5. u \o v \in Seq(S) /\ Len(u \o v) = a + b
  BY <1>3, <1>4
<1>6. ASSUME NEW i \in 1..a+b PROVE (u \o v)[i] = c[i]
  <2>1. CASE i <= a
    <3>1. (u \o v)[i] = u[i] /\ i \in 1..a
      BY <1>3, <1>4, <2>1
    <3> QED
      BY <3>1
  <2>2. CASE ~(i <= a)
    <3>1. (u \o v)[i] = v[i - a] /\ i - a \in 1..b /\ a + (i - a) = i
      BY <1>3, <1>4, <2>2
    <3> QED
      BY <3>1
  <2> QED
    BY <2>1, <2>2
<1>7. DOMAIN (u \o v) = 1..a+b
  BY <1>5
<1> QED
  BY <1>5, <1>6, <1>7

\* One turn reads on.
LEMMA ReadTurnIs ==
  ASSUME NEW f \in Files, Sound(f), NEW offset \in Nat, NEW n \in Nat, offset + n <= MaxSize,
         NEW k \in Nat, NEW t, ReadSoFar(f, offset, n, k, t)
  PROVE  ReadSoFar(f, offset, n, k + 1, ReadTurn(f, offset + n, t))
<1>1. PICK pos, end : pos = t.pos /\ end = offset + n
  OBVIOUS
<1>2. /\ pos \in Nat /\ end \in Nat /\ offset <= pos /\ pos <= end /\ end <= MaxSize
      /\ pos = end \/ offset + k <= pos
  BY <1>1 DEF ReadSoFar
<1>3. CASE pos = end
  <2>1. ReadTurn(f, offset + n, t) = t
    BY <1>1, <1>3 DEF ReadTurn
  <2> QED
    BY <1>1, <1>3, <2>1 DEF ReadSoFar
<1>4. CASE pos # end
  <2>1. PICK d, b, r : d = bn(pos, end) /\ b = Blk(pos) /\ r = Off(pos)
    OBVIOUS
  <2>2. pos < end
    BY <1>2, <1>4
  <2>3. d \in Nat /\ d > 0 /\ pos + d <= end /\ r + d <= BLKSIZE
    BY <1>2, <2>1, <2>2, Turn
  <2>4. PICK Part : Part = [i \in 1..d |-> IF Stored(f, b) THEN f.data[b][r + i - 1] ELSE 0]
    OBVIOUS
  <2>5. PICK u : u = ReadTurn(f, offset + n, t)
    OBVIOUS
  <2>6. u = [pos |-> pos + d, bytes |-> t.bytes \o Part]
    BY <1>1, <1>4, <2>1, <2>4, <2>5 DEF ReadTurn, Blk, Off
  <2>7. PICK c : c = [i \in 1..n |-> Content(f)[offset + i - 1]]
    OBVIOUS
  <2>8. PICK a : a = pos - offset
    OBVIOUS
  <2>9. a \in Nat /\ a + d <= n /\ (pos + d) - offset = a + d /\ pos = offset + a
    BY <1>1, <1>2, <2>3, <2>8
  <2>10. \A i \in 1..n : c[i] \in Bytes
    <3>1. ASSUME NEW i \in 1..n PROVE c[i] \in Bytes
      <4>1. offset + i - 1 \in 0..MaxSize-1
        BY <1>1, <1>2, Sizes
      <4> QED
        BY <2>7, <4>1, ContentIs
    <3> QED
      BY <3>1
  <2>11. t.bytes = [i \in 1..a |-> c[i]]
    <3>1. t.bytes = [i \in 1..a |-> Content(f)[offset + i - 1]]
      BY <1>1, <2>8 DEF ReadSoFar
    <3>2. \A i \in 1..a : i \in 1..n
      BY <2>3, <2>9
    <3> QED
      BY <2>7, <3>1, <3>2
  <2>12. Part = [i \in 1..d |-> c[a + i]]
    <3>1. ASSUME NEW i \in 1..d
          PROVE  (IF Stored(f, b) THEN f.data[b][r + i - 1] ELSE 0) = c[a + i]
      <4>1. PICK j, p : j = i - 1 /\ p = pos + j
        OBVIOUS
      <4>2. j \in Nat /\ r + j < BLKSIZE
        <5>1. r \in Nat /\ BLKSIZE \in Nat
          BY <1>2, <2>1, BlkOff, Sizes
        <5> QED
          BY <2>3, <4>1, <5>1
      <4>3. Blk(p) = b /\ Off(p) = r + j
        BY <1>2, <2>1, <4>1, <4>2, SameBlock
      <4>4. p \in 0..MaxSize-1
        BY <1>2, <2>3, <4>1, <4>2, Sizes
      <4>5. Content(f)[p] = IF Stored(f, Blk(p)) THEN f.data[Blk(p)][Off(p)] ELSE 0
        BY <4>4 DEF Content, Blk, Off
      <4>6. a + i \in 1..n /\ offset + (a + i) - 1 = p
        BY <1>2, <2>3, <2>9, <4>1
      <4>7. c[a + i] = Content(f)[p]
        BY <2>7, <4>6
      <4>8. r + i - 1 = r + j
        <5>1. r \in Nat
          BY <1>2, <2>1, BlkOff
        <5> QED
          BY <4>1, <5>1
      <4> QED
        BY <4>3, <4>5, <4>7, <4>8, Zenon
    <3> QED
      BY <2>4, <3>1
  <2>13. \A i \in 1..a+d : c[i] \in Bytes
    BY <2>3, <2>9, <2>10
  <2>14. t.bytes \o Part = [i \in 1..a+d |-> c[i]]
    BY <2>3, <2>9, <2>11, <2>12, <2>13, Concat
  <2>15. u.bytes = [i \in 1..u.pos-offset |-> Content(f)[offset + i - 1]]
    <3>0. u.pos = pos + d
      BY <2>6
    <3>1. u.pos - offset = a + d
      BY <2>9, <3>0
    <3>2. \A i \in 1..a+d : i \in 1..n
      BY <2>3, <2>9
    <3>3. u.bytes = [i \in 1..a+d |-> c[i]]
      BY <2>6, <2>14
    <3> QED
      BY <2>7, <3>1, <3>2, <3>3
  <2>16. /\ u.pos \in offset..offset+n
         /\ u.pos = offset + n \/ offset + (k + 1) <= u.pos
    <3>1. u.pos = pos + d
      BY <2>6
    <3> QED
      BY <1>1, <1>2, <1>4, <2>3, <3>1
  <2> QED
    BY <2>5, <2>15, <2>16 DEF ReadSoFar
<1> QED
  BY <1>3, <1>4

BytesAt(f, offset, n) == [i \in 1..n |-> Content(f)[offset + i - 1]]

\* The loop from offset reads what is at the n positions from there.
LEMMA ReadLoop ==
  ASSUME NEW f \in Files, Sound(f), NEW offset \in Nat, NEW n \in Nat, offset + n <= MaxSize,
         NEW g, g = ReadRule(f, offset, n, g)
  PROVE  g[n].bytes = BytesAt(f, offset, n)
<1> DEFINE P == {k \in Nat : k <= n => ReadSoFar(f, offset, n, k, g[k])}
<1>1. 0 \in P
  <2>1. g[0] = [pos |-> offset, bytes |-> <<>>]
    BY DEF ReadRule
  <2>2. <<>> = [i \in 1..0 |-> Content(f)[offset + i - 1]]
    OBVIOUS
  <2>3. offset - offset = 0
    OBVIOUS
  <2> QED
    BY <2>1, <2>2, <2>3 DEF ReadSoFar
<1>2. ASSUME NEW k \in Nat, k \in P PROVE k + 1 \in P
  <2>1. SUFFICES ASSUME k + 1 <= n PROVE ReadSoFar(f, offset, n, k + 1, g[k+1])
    OBVIOUS
  <2>2. PICK t : t = g[k]
    OBVIOUS
  <2>3. ReadSoFar(f, offset, n, k, t)
    BY <1>2, <2>1, <2>2
  <2>4. k + 1 \in 0..n /\ k + 1 # 0 /\ (k + 1) - 1 = k
    BY <2>1
  <2>5. g[k+1] = ReadTurn(f, offset + n, t)
    BY <2>2, <2>4 DEF ReadRule
  <2> QED
    BY <2>3, <2>5, ReadTurnIs
<1> HIDE DEF P
<1>3. n \in P
  BY <1>1, <1>2, SetInduction
<1>4. PICK t : t = g[n]
  OBVIOUS
<1>5. ReadSoFar(f, offset, n, n, t)
  BY <1>3, <1>4 DEF P
<1>6. t.pos = offset + n
  BY <1>5 DEF ReadSoFar
<1>7. t.pos - offset = n
  BY <1>6
<1>8. t.bytes = [i \in 1..t.pos-offset |-> Content(f)[offset + i - 1]]
  BY <1>5 DEF ReadSoFar
<1>9. t.bytes = [i \in 1..n |-> Content(f)[offset + i - 1]]
  BY <1>7, <1>8
<1>10. t.bytes = BytesAt(f, offset, n)
  BY <1>9 DEF BytesAt
<1> QED
  BY <1>4, <1>10

AllTurns(f, offset, n) == CHOOSE h : h = ReadRule(f, offset, n, h)

LEMMA ReadChosen ==
  ASSUME NEW f \in Files, Sound(f), NEW offset \in Nat, NEW n \in Nat, offset + n <= MaxSize
  PROVE  AllTurns(f, offset, n)[n].bytes = BytesAt(f, offset, n)
<1>1. PICK g : g = AllTurns(f, offset, n)
  OBVIOUS
<1>2. g = ReadRule(f, offset, n, g)
  <2>1. \E h : h = ReadRule(f, offset, n, h)
    BY ReadTurns
  <2> QED
    BY <1>1, <2>1, Zenon DEF AllTurns
<1>3. g[n].bytes = BytesAt(f, offset, n)
  BY <1>2, ReadLoop
<1> QED
  BY <1>1, <1>3

\* inode_read(), clipped at the end of the file.
LEMMA ReadIs ==
  ASSUME NEW f \in Files, Sound(f), NEW offset \in Nat, NEW count \in Nat, NEW n \in Nat,
         n = IF offset >= f.size THEN 0 ELSE IF count < f.size - offset THEN count ELSE f.size - offset,
         offset <= MaxSize
  PROVE  inode_read(f, offset, count) = BytesAt(f, offset, n)
<1>1. f.size \in Nat /\ f.size <= MaxSize /\ MaxSize \in Nat
  BY Sizes DEF Files
<1>2. offset + n <= MaxSize
  BY <1>1
<1>3. inode_read(f, offset, count) = AllTurns(f, offset, n)[n].bytes
  BY Zenon DEF inode_read, ReadRule, AllTurns
<1>4. AllTurns(f, offset, n)[n].bytes = BytesAt(f, offset, n)
  BY <1>2, ReadChosen
<1> QED
  BY <1>3, <1>4, Zenon

-----------------------------------------------------------------------------
(* Writing *)

WriteRule(s, buf, offset, n, g) ==
  [k \in 0..n |-> IF k = 0 THEN [pos |-> offset, s |-> s] ELSE WriteTurn(buf, offset, g[k-1])]

\* The turns of the loop are defined.
LEMMA WriteTurns ==
  ASSUME NEW s, NEW buf, NEW offset \in Nat, NEW n \in Nat
  PROVE  \E g : g = WriteRule(s, buf, offset, n, g)
<1> DEFINE P == {m \in Nat : \E g : g = WriteRule(s, buf, offset, m, g)}
<1>1. 0 \in P
  <2>1. PICK g : g = [k \in 0..0 |-> [pos |-> offset, s |-> s]]
    OBVIOUS
  <2>2. g = WriteRule(s, buf, offset, 0, g)
    BY <2>1 DEF WriteRule
  <2> QED
    BY <2>2
<1>2. ASSUME NEW m \in Nat, m \in P PROVE m + 1 \in P
  <2>1. PICK g : g = WriteRule(s, buf, offset, m, g)
    BY <1>2
  <2>2. PICK h : h = [k \in 0..m+1 |-> IF k = m + 1 THEN WriteTurn(buf, offset, g[m]) ELSE g[k]]
    OBVIOUS
  <2>3. \A k \in 0..m : h[k] = g[k]
    BY <2>2
  <2>4. ASSUME NEW k \in 0..m+1
        PROVE  h[k] = IF k = 0 THEN [pos |-> offset, s |-> s] ELSE WriteTurn(buf, offset, h[k-1])
    <3>1. CASE k = m + 1
      <4>1. h[k] = WriteTurn(buf, offset, g[m])
        BY <2>2, <3>1
      <4>2. k # 0 /\ k - 1 = m /\ m \in 0..m
        BY <3>1
      <4>3. h[k - 1] = g[m]
        BY <2>3, <4>2
      <4> QED
        BY <4>1, <4>2, <4>3, Zenon
    <3>2. CASE k # m + 1
      <4>1. k \in 0..m
        BY <3>2
      <4>2. g[k] = IF k = 0 THEN [pos |-> offset, s |-> s] ELSE WriteTurn(buf, offset, g[k-1])
        BY <2>1, <4>1 DEF WriteRule
      <4>3. k # 0 => k - 1 \in 0..m
        BY <4>1
      <4>4. k # 0 => h[k - 1] = g[k - 1]
        BY <2>3, <4>3
      <4>5. h[k] = g[k]
        BY <2>3, <4>1
      <4> QED
        BY <4>2, <4>4, <4>5, Zenon
    <3> QED
      BY <3>1, <3>2
  <2>5. h = WriteRule(s, buf, offset, m + 1, h)
    BY <2>2, <2>4 DEF WriteRule
  <2> QED
    BY <2>5
<1> HIDE DEF P
<1>3. Nat \subseteq P
  BY <1>1, <1>2, SetInduction
<1> QED
  BY <1>3 DEF P

\* The loop at t.pos, with what is below it stored and nothing else changed;
\* unless it has failed, it has come at least k bytes.
WriteSoFar(s, buf, offset, k, t) ==
  /\ t \in [pos : Nat, s : States] /\ Sound(t.s.file) /\ Used(t.s) = Used(s) /\ t.s.file.size = s.file.size
  /\ t.pos \in offset..offset+Len(buf)
  /\ t.s.r = "ok" => t.pos = offset + Len(buf) \/ offset + k <= t.pos
  /\ t.pos = offset \/ t.pos = offset + Len(buf) \/ t.pos % BLKSIZE = 0
  /\ \A p \in 0..MaxSize-1 :
       At(t.s.file, p) = IF offset <= p /\ p < t.pos THEN buf[p - offset + 1] ELSE At(s.file, p)

\* One block of a file changed.
Put(g, b, blk) == [g EXCEPT !.file.data[b] = blk]

LEMMA Stores ==
  ASSUME NEW g \in States, Sound(g.file), NEW b \in FileBlks, Stored(g.file, b),
         NEW blk \in Block, NEW u, u = Put(g, b, blk)
  PROVE  /\ u \in States /\ Sound(u.file) /\ Used(u) = Used(g) /\ u.r = g.r
         /\ u.file.size = g.file.size
         /\ \A n \in FileBlks : u.file.data[n] = IF n = b THEN blk ELSE g.file.data[n]
<1>1. PICK f, data : f = g.file /\ data = [g.file.data EXCEPT ![b] = blk]
  OBVIOUS
<1>2. f \in Files /\ f.data \in [FileBlks -> Block]
  BY <1>1 DEF States, Files
<1>3. data \in [FileBlks -> Block] /\ \A n \in FileBlks : data[n] = IF n = b THEN blk ELSE f.data[n]
  BY <1>1, <1>2
<1>4. PICK h : h = [f EXCEPT !.data = data]
  OBVIOUS
<1>5. h \in Files /\ h.size = f.size /\ h.have = f.have /\ h.data = data
  BY <1>2, <1>3, <1>4 DEF Files
<1>6. u = [g EXCEPT !.file = h]
  BY <1>1, <1>4 DEF States, Put
<1>7. u \in States /\ u.file = h /\ u.r = g.r /\ u.free = g.free
  BY <1>5, <1>6 DEF States
<1>8. Used(u) = Used(g)
  BY <1>1, <1>5, <1>7 DEF Used
<1>9. Data(b) \in f.have
  BY <1>1 DEF Stored
<1>10. Sound(h)
  <2>1. Sound(f)
    BY <1>1
  <2>2. \A n \in FileBlks : Data(n) \notin h.have => h.data[n] = Cleared
    BY <1>3, <1>5, <1>9, <2>1 DEF Sound
  <2> QED
    BY <1>5, <2>1, <2>2 DEF Sound, Walkable
<1> QED
  BY <1>1, <1>3, <1>5, <1>7, <1>8, <1>10

\* What one turn puts in a block of g.
NewBlock(g, buf, pos, offset, d) ==
  [o \in 0..BLKSIZE-1 |-> IF o \in Off(pos)..(Off(pos) + d)-1
                          THEN buf[pos - offset + o - Off(pos) + 1] ELSE g.file.data[Blk(pos)][o]]

LEMMA NewBlockIs ==
  ASSUME NEW g \in States, NEW buf \in Buffers, NEW offset \in Nat, NEW pos \in Nat,
         offset <= pos, pos < offset + Len(buf), Blk(pos) \in FileBlks,
         NEW d, d = bn(pos, offset + Len(buf)),
         NEW blk, blk = NewBlock(g, buf, pos, offset, d)
  PROVE  /\ blk \in Block
         /\ \A p \in Nat : Blk(p) = Blk(pos) =>
              blk[Off(p)] = IF pos <= p /\ p < pos + d THEN buf[p - offset + 1] ELSE At(g.file, p)
         /\ \A p \in Nat : pos <= p /\ p < pos + d => Blk(p) = Blk(pos)
<1>1. buf \in Seq(0..255) /\ Len(buf) \in Nat /\ \A i \in 1..Len(buf) : buf[i] \in Bytes
  <2>1. buf \in Seq(0..255)
    BY BuffersAssumption
  <2>2. ASSUME NEW i \in 1..Len(buf) PROVE buf[i] \in Bytes
    <3>1. i \in DOMAIN buf
      BY <2>1
    <3> QED
      BY <3>1 DEF Bytes, Range
  <2> QED
    BY <2>1, <2>2
<1>2. PICK r, b, end : r = Off(pos) /\ b = Blk(pos) /\ end = offset + Len(buf)
  OBVIOUS
<1>3. r \in 0..BLKSIZE-1 /\ b \in FileBlks /\ end \in Nat /\ BLKSIZE \in Nat /\ r \in Nat
  BY <1>1, <1>2, BlkOff, Sizes
<1>4. d \in Nat /\ d > 0 /\ pos + d <= end /\ r + d <= BLKSIZE
  BY <1>2, <1>3, Turn
<1>5. g.file.data[b] \in Block
  BY <1>3 DEF States, Files
<1>6. blk = [o \in 0..BLKSIZE-1 |-> IF o \in r..(r + d)-1 THEN buf[pos - offset + o - r + 1]
                                    ELSE g.file.data[b][o]]
  BY <1>2 DEF NewBlock
<1>7. ASSUME NEW o \in 0..BLKSIZE-1
      PROVE  /\ r <= o /\ o < r + d => blk[o] = buf[pos - offset + o - r + 1]
             /\ ~(r <= o /\ o < r + d) => blk[o] = g.file.data[b][o]
             /\ blk[o] \in Bytes
  <2>1. o \in Nat /\ (o \in r..(r + d)-1 <=> r <= o /\ o < r + d)
    BY <1>3, <1>4
  <2>2. CASE r <= o /\ o < r + d
    <3>1. blk[o] = buf[pos - offset + o - r + 1]
      BY <1>6, <2>1, <2>2
    <3>2. pos - offset + o - r + 1 \in 1..Len(buf)
      <4>1. PICK m, j, l : m = pos - offset /\ j = o - r /\ l = Len(buf)
        OBVIOUS
      <4>2. l \in Nat /\ end = offset + l
        BY <1>1, <1>2, <4>1
      <4>3. m \in Nat /\ m + d <= l
        BY <1>4, <4>1, <4>2
      <4>4. j \in Nat /\ j < d
        BY <1>3, <1>4, <2>1, <2>2, <4>1
      <4>5. m + j + 1 \in 1..l
        BY <1>4, <4>2, <4>3, <4>4
      <4> QED
        BY <4>1, <4>5
    <3> QED
      BY <1>1, <2>2, <3>1, <3>2
  <2>3. CASE ~(r <= o /\ o < r + d)
    <3>1. blk[o] = g.file.data[b][o]
      BY <1>6, <2>1, <2>3
    <3> QED
      BY <1>5, <2>3, <3>1 DEF Block
  <2> QED
    BY <2>2, <2>3
<1>8. blk \in Block
  <2>1. blk = [o \in 0..BLKSIZE-1 |-> blk[o]]
    BY <1>6
  <2> QED
    BY <1>7, <2>1 DEF Block
<1>9. ASSUME NEW p \in Nat, Blk(p) = Blk(pos)
      PROVE  blk[Off(p)] = IF pos <= p /\ p < pos + d THEN buf[p - offset + 1] ELSE At(g.file, p)
  <2>1. PICK o : o = Off(p)
    OBVIOUS
  <2>2. o \in 0..BLKSIZE-1 /\ o \in Nat
    BY <1>3, <2>1, BlkOff
  <2>3. p = pos + (o - r)
    BY <1>2, <1>9, <2>1, OneBlock
  <2>4. (pos <= p /\ p < pos + d) <=> (r <= o /\ o < r + d)
    BY <1>3, <1>4, <2>2, <2>3
  <2>5. pos - offset + o - r + 1 = p - offset + 1
    BY <1>3, <2>2, <2>3
  <2>6. At(g.file, p) = g.file.data[b][o]
    BY <1>2, <1>9, <2>1 DEF At
  <2>7. CASE pos <= p /\ p < pos + d
    <3>1. blk[o] = buf[pos - offset + o - r + 1]
      BY <1>7, <2>2, <2>4, <2>7
    <3> QED
      BY <2>1, <2>5, <2>7, <3>1, Zenon
  <2>8. CASE ~(pos <= p /\ p < pos + d)
    <3>1. blk[o] = g.file.data[b][o]
      BY <1>7, <2>2, <2>4, <2>8
    <3> QED
      BY <2>1, <2>6, <2>8, <3>1, Zenon
  <2> QED
    BY <2>7, <2>8
<1>10. ASSUME NEW p \in Nat, pos <= p, p < pos + d PROVE Blk(p) = Blk(pos)
  <2>1. PICK j : j = p - pos
    OBVIOUS
  <2>2. j \in Nat /\ p = pos + j /\ r + j < BLKSIZE
    BY <1>3, <1>4, <1>10, <2>1
  <2> QED
    BY <1>2, <2>2, SameBlock
<1> QED
  BY <1>8, <1>9, <1>10

\* One turn writes on, or fails with everything as it was.
LEMMA WriteTurnIs ==
  ASSUME NEW s \in States, NEW buf \in Buffers, NEW offset \in Nat,
         offset + Len(buf) <= s.file.size,
         NEW k \in Nat, NEW t, WriteSoFar(s, buf, offset, k, t)
  PROVE  WriteSoFar(s, buf, offset, k + 1, WriteTurn(buf, offset, t))
<1>0. Len(buf) \in Nat
  BY BuffersAssumption
<1>1. PICK pos, end, v, u : /\ pos = t.pos /\ end = offset + Len(buf)
                            /\ v = t.s /\ u = WriteTurn(buf, offset, t)
  OBVIOUS
<1>2. /\ v \in States /\ Sound(v.file) /\ Used(v) = Used(s) /\ v.file.size = s.file.size
      /\ pos \in Nat /\ end \in Nat /\ offset <= pos /\ pos <= end
      /\ v.r = "ok" => pos = end \/ offset + k <= pos
      /\ pos = offset \/ pos = end \/ pos % BLKSIZE = 0
      /\ \A p \in 0..MaxSize-1 :
           At(v.file, p) = IF offset <= p /\ p < pos THEN buf[p - offset + 1] ELSE At(s.file, p)
  BY <1>0, <1>1 DEF WriteSoFar
<1>3. CASE v.r # "ok" \/ pos = end
  <2>1. u = t
    BY <1>1, <1>3 DEF WriteTurn
  <2>2. v.r = "ok" => pos = end
    BY <1>3
  <2> QED
    BY <1>1, <2>1, <2>2 DEF WriteSoFar
<1>4. CASE v.r = "ok" /\ pos # end
  <2>1. PICK b, d, g : b = Blk(pos) /\ d = bn(pos, end) /\ g = inode_get_block(v, b)
    OBVIOUS
  <2>2. pos < end /\ v.file.size \in Nat /\ v.file.size <= MaxSize /\ end <= v.file.size
    <3>1. v.file.size \in Nat /\ v.file.size <= MaxSize
      BY <1>2, Sizes DEF States, Files
    <3> QED
      BY <1>1, <1>2, <1>4, <3>1
  <2>3. b \in FileBlks /\ b < ceil(v.file.size)
    <3>1. pos \in 0..MaxSize-1
      BY <1>2, <2>2, Sizes
    <3>2. v.file.size > 0 /\ v.file.size - 1 \in Nat /\ pos <= v.file.size - 1
      BY <1>2, <2>2
    <3>3. b <= Blk(v.file.size - 1)
      BY <1>2, <2>1, <3>2, BlkMono
    <3> QED
      BY <1>2, <2>1, <2>2, <3>1, <3>2, <3>3, BlkInFile, Ceil
  <2>4. Grows(v, g) /\ (g.r = "ok" => Stored(g.file, b))
    BY <1>2, <2>1, <2>3, GetBlock
  <2>5. /\ g \in States /\ Sound(g.file) /\ g.file.size = v.file.size
        /\ g.file.data = v.file.data /\ Used(g) = Used(v)
    BY <2>4 DEF Grows
  <2>6. \A p : At(g.file, p) = At(v.file, p)
    BY <2>5 DEF At
  <2>7. CASE g.r # "ok"
    <3>1. u = [t EXCEPT !.s = g]
      BY <1>1, <1>4, <2>1, <2>7 DEF WriteTurn, Blk
    <3>2. u.pos = pos /\ u.s = g /\ u \in [pos : Nat, s : States]
      BY <1>1, <2>5, <3>1 DEF WriteSoFar
    <3> QED
      BY <1>1, <1>2, <2>5, <2>6, <2>7, <3>2 DEF WriteSoFar
  <2>8. CASE g.r = "ok"
    <3>1. PICK blk : blk = NewBlock(g, buf, pos, offset, d)
      OBVIOUS
    <3>2. u = [pos |-> pos + d, s |-> [g EXCEPT !.file.data[b] = blk]]
      BY <1>1, <1>4, <2>1, <2>8, <3>1, Zenon DEF WriteTurn, NewBlock, Blk, Off
    <3>3. PICK w : w = [g EXCEPT !.file.data[b] = blk]
      OBVIOUS
    <3>4. u.pos = pos + d /\ u.s = w
      BY <3>2, <3>3
    <3>5. /\ blk \in Block
          /\ \A p \in Nat : Blk(p) = b =>
               blk[Off(p)] = IF pos <= p /\ p < pos + d THEN buf[p - offset + 1] ELSE At(g.file, p)
          /\ \A p \in Nat : pos <= p /\ p < pos + d => Blk(p) = b
      BY <1>1, <1>2, <2>1, <2>2, <2>3, <2>5, <3>1, NewBlockIs
    <3>6. Stored(g.file, b)
      BY <2>4, <2>8
    <3>7. /\ w \in States /\ Sound(w.file) /\ Used(w) = Used(g) /\ w.file.size = g.file.size
          /\ \A n \in FileBlks : w.file.data[n] = IF n = b THEN blk ELSE g.file.data[n]
      <4>1. g \in States /\ Sound(g.file) /\ b \in FileBlks /\ blk \in Block
        BY <2>3, <2>5, <3>5
      <4>2. w = Put(g, b, blk)
        BY <3>3 DEF Put
      <4> QED
        BY <3>6, <4>1, <4>2, Stores
    <3>8. d \in Nat /\ d > 0 /\ pos + d <= end /\ (pos + d = end \/ (pos + d) % BLKSIZE = 0)
      BY <1>2, <2>1, <2>2, Turn
    <3>9. ASSUME NEW p \in 0..MaxSize-1
          PROVE  At(w.file, p) = IF offset <= p /\ p < pos + d THEN buf[p - offset + 1]
                                 ELSE At(s.file, p)
      <4>1. p \in Nat /\ Blk(p) \in FileBlks
        BY BlkInFile
      <4>2. w.file.data[Blk(p)] = IF Blk(p) = b THEN blk ELSE g.file.data[Blk(p)]
        BY <3>7, <4>1
      <4>3. At(w.file, p) = IF pos <= p /\ p < pos + d THEN buf[p - offset + 1] ELSE At(g.file, p)
        <5>1. CASE Blk(p) = b
          <6>1. At(w.file, p) = blk[Off(p)]
            BY <4>2, <5>1 DEF At
          <6> QED
            BY <3>5, <4>1, <5>1, <6>1
        <5>2. CASE Blk(p) # b
          <6>1. At(w.file, p) = At(g.file, p)
            BY <4>2, <5>2 DEF At
          <6>2. ~(pos <= p /\ p < pos + d)
            BY <3>5, <4>1, <5>2
          <6> QED
            BY <6>1, <6>2
        <5> QED
          BY <5>1, <5>2
      <4>4. At(g.file, p) = IF offset <= p /\ p < pos THEN buf[p - offset + 1] ELSE At(s.file, p)
        BY <1>2, <2>6
      <4>5. offset <= p /\ p < pos + d <=> (pos <= p /\ p < pos + d) \/ (offset <= p /\ p < pos)
        BY <1>2, <3>8, <4>1
      <4> QED
        BY <4>3, <4>4, <4>5, Zenon
    <3>10. u \in [pos : Nat, s : States]
      BY <1>2, <3>2, <3>3, <3>7, <3>8
    <3>11. Used(w) = Used(s) /\ w.file.size = s.file.size
      BY <1>2, <2>5, <3>7
    <3>12. u.pos \in offset..end /\ (u.pos = end \/ offset + (k + 1) <= u.pos)
      BY <1>2, <1>4, <3>4, <3>8
    <3>13. u.pos = end \/ u.pos % BLKSIZE = 0
      BY <3>4, <3>8
    <3> QED
      BY <1>1, <3>4, <3>7, <3>9, <3>10, <3>11, <3>12, <3>13 DEF WriteSoFar
  <2> QED
    BY <2>7, <2>8
<1> QED
  BY <1>1, <1>3, <1>4

\* inode_write(), once the file is long enough.
LEMMA WriteLoop ==
  ASSUME NEW s \in States, Sound(s.file), NEW buf \in Buffers, NEW offset \in Nat,
         offset + Len(buf) <= s.file.size,
         NEW g, g = WriteRule(s, buf, offset, Len(buf), g)
  PROVE  WriteSoFar(s, buf, offset, Len(buf), g[Len(buf)])
<1>0. PICK n : n = Len(buf)
  OBVIOUS
<1>1. n \in Nat
  BY <1>0, BuffersAssumption
<1> DEFINE P == {k \in Nat : k <= n => WriteSoFar(s, buf, offset, k, g[k])}
<1>2. 0 \in P
  <2>1. PICK t : t = [pos |-> offset, s |-> s]
    OBVIOUS
  <2>2. g[0] = t
    BY <1>0, <1>1, <2>1 DEF WriteRule
  <2>3. t \in [pos : Nat, s : States] /\ t.pos = offset /\ t.s = s
    BY <2>1
  <2>4. t.pos \in offset..offset+n /\ offset + 0 <= t.pos /\ \A p \in Nat : ~(offset <= p /\ p < t.pos)
    BY <1>1, <2>3
  <2>5. WriteSoFar(s, buf, offset, 0, t)
    BY <1>0, <2>3, <2>4 DEF WriteSoFar
  <2> QED
    BY <2>2, <2>5
<1>3. ASSUME NEW k \in Nat, k \in P PROVE k + 1 \in P
  <2>1. SUFFICES ASSUME k + 1 <= n PROVE WriteSoFar(s, buf, offset, k + 1, g[k+1])
    OBVIOUS
  <2>2. PICK t : t = g[k]
    OBVIOUS
  <2>3. WriteSoFar(s, buf, offset, k, t)
    BY <1>1, <1>3, <2>1, <2>2
  <2>4. k + 1 \in 0..n /\ k + 1 # 0 /\ (k + 1) - 1 = k
    BY <1>1, <2>1
  <2>5. g[k+1] = WriteTurn(buf, offset, t)
    BY <1>0, <2>2, <2>4 DEF WriteRule
  <2> QED
    BY <2>3, <2>5, WriteTurnIs
<1> HIDE DEF P
<1>4. n \in P
  BY <1>1, <1>2, <1>3, SetInduction
<1> QED
  BY <1>0, <1>1, <1>4 DEF P

\* inode_write(): the bytes of buf from the first on, up to a boundary of blocks
\* where it fails, to the last where it does not.
LEMMA WriteIs ==
  ASSUME NEW s \in States, Sound(s.file), NEW buf \in Buffers, NEW offset \in Nat,
         offset + Len(buf) <= MaxSize, NEW u, u = inode_write(s, buf, offset)
  PROVE  \E pos \in offset..offset+Len(buf) :
           /\ u \in States /\ Sound(u.file) /\ Used(u) = Used(s)
           /\ u.file.size = IF offset + Len(buf) > s.file.size THEN offset + Len(buf) ELSE s.file.size
           /\ u.r = "ok" => pos = offset + Len(buf)
           /\ pos = offset \/ pos = offset + Len(buf) \/ pos % BLKSIZE = 0
           /\ \A p \in 0..MaxSize-1 :
                At(u.file, p) = IF offset <= p /\ p < pos THEN buf[p - offset + 1] ELSE At(s.file, p)
<1>0. PICK n, end : n = Len(buf) /\ end = offset + n
  OBVIOUS
<1>1. n \in Nat /\ end \in Nat /\ end \in 0..MaxSize
  <2>1. n \in Nat
    BY <1>0, BuffersAssumption
  <2> QED
    BY <1>0, <2>1, Sizes
<1>2. s.file.size \in Nat
  BY Sizes DEF States, Files
<1>3. PICK v : v = IF end > s.file.size THEN inode_set_size(s, end) ELSE s
  OBVIOUS
<1>4. /\ v \in States /\ Sound(v.file) /\ Used(v) = Used(s)
      /\ v.file.size = IF end > s.file.size THEN end ELSE s.file.size
      /\ \A b \in FileBlks : v.file.data[b] = s.file.data[b]
  <2>1. CASE end > s.file.size
    <3>1. v = inode_set_size(s, end)
      BY <1>3, <2>1
    <3>2. /\ v \in States /\ Sound(v.file) /\ v.file.size = end /\ Used(v) = Used(s)
          /\ \A b \in FileBlks : v.file.data[b] = IF b < ceil(end) THEN s.file.data[b] ELSE Cleared
      BY <1>1, <3>1, SizeSet
    <3>3. ASSUME NEW b \in FileBlks, ~(b < ceil(end)) PROVE s.file.data[b] = Cleared
      <4>0. s.file.size <= end
        BY <1>1, <1>2, <2>1
      <4>1. ceil(s.file.size) <= ceil(end) /\ ceil(s.file.size) \in Nat /\ ceil(end) \in Nat
        <5>1. PICK z : z = s.file.size
          OBVIOUS
        <5>2. z \in Nat /\ z <= end /\ end \in Nat
          BY <1>1, <1>2, <4>0, <5>1
        <5>3. ceil(z) <= ceil(end) /\ ceil(z) \in Nat /\ ceil(end) \in Nat
          BY <5>2, CeilMono
        <5> QED
          BY <5>1, <5>3, Zenon
      <4>2. b \in Nat
        BY Sizes
      <4>3. ~(b < ceil(s.file.size))
        BY <3>3, <4>1, <4>2
      <4> QED
        BY <4>3 DEF Sound
    <3> QED
      BY <2>1, <3>2, <3>3
  <2>2. CASE ~(end > s.file.size)
    BY <1>3, <2>2
  <2> QED
    BY <2>1, <2>2
<1>5. end <= v.file.size
  BY <1>1, <1>2, <1>4
<1>6. PICK g : g = CHOOSE h : h = WriteRule(v, buf, offset, n, h)
  OBVIOUS
<1>7. g = WriteRule(v, buf, offset, n, g)
  <2>1. \E h : h = WriteRule(v, buf, offset, n, h)
    BY <1>1, WriteTurns
  <2> QED
    BY <1>6, <2>1, Zenon
<1>8. u = g[n].s
  BY <1>0, <1>3, <1>6, Zenon DEF inode_write, WriteRule
<1>9. PICK t : t = g[n]
  OBVIOUS
<1>10. WriteSoFar(v, buf, offset, n, t)
  BY <1>0, <1>4, <1>5, <1>7, <1>9, WriteLoop
<1>11. PICK pos : pos = t.pos
  OBVIOUS
<1>12. /\ u \in States /\ Sound(u.file) /\ Used(u) = Used(v) /\ u.file.size = v.file.size
       /\ pos \in offset..end
       /\ u.r = "ok" => pos = end \/ end <= pos
       /\ pos = offset \/ pos = end \/ pos % BLKSIZE = 0
       /\ \A p \in 0..MaxSize-1 :
            At(u.file, p) = IF offset <= p /\ p < pos THEN buf[p - offset + 1] ELSE At(v.file, p)
  BY <1>0, <1>8, <1>9, <1>10, <1>11 DEF WriteSoFar
<1>13. \A p \in 0..MaxSize-1 : At(v.file, p) = At(s.file, p)
  BY <1>4, BlkInFile DEF At
<1>14. u.r = "ok" => pos = end
  BY <1>1, <1>12
<1>15. Used(u) = Used(s) /\ u.file.size = IF end > s.file.size THEN end ELSE s.file.size
  BY <1>4, <1>12
<1>16. \A p \in 0..MaxSize-1 :
         At(u.file, p) = IF offset <= p /\ p < pos THEN buf[p - offset + 1] ELSE At(s.file, p)
  BY <1>12, <1>13
<1> QED
  BY <1>0, <1>12, <1>14, <1>15, <1>16, Zenon

-----------------------------------------------------------------------------
(* The invariant and what it gives *)

LEMMA NowIs ==
  ASSUME IInv
  PROVE  /\ Now \in States /\ Now.r = "ok" /\ Now.file = file /\ Now.free = free
         /\ Used(Now) = free + Cardinality(file.have)
BY DEF IInv, Now, States, Used

\* An operation that loses no block keeps the invariant.
LEMMA Kept ==
  ASSUME IInv, NEW s \in States, Sound(s.file), Used(s) = Used(Now), Done(s)
  PROVE  IInv'
<1>1. file' = s.file /\ free' = s.free /\ s.file \in Files /\ s.free \in Nat
  BY DEF Done, States
<1>2. s.free + Cardinality(s.file.have) <= NBlocks
  BY NowIs DEF IInv, Used
<1>3. Sound(file)' <=> Sound(s.file)
  BY <1>1 DEF Sound, Walkable
<1> QED
  BY <1>1, <1>2, <1>3 DEF IInv

LEMMA InitIInv ==
  ASSUME Init
  PROVE  IInv
<1>1. file.size = 0 /\ file.have = {} /\ file.data = [n \in FileBlks |-> Cleared] /\ free = NBlocks
  BY DEF Init
<1>2. file \in Files
  <2>1. file.data \in [FileBlks -> Block]
    BY <1>1, ClearedType
  <2>2. 0 \in 0..MaxSize
    BY Sizes
  <2> QED
    BY <2>1, <2>2 DEF Init, Files
<1>3. IsFiniteSet(file.have) /\ Cardinality(file.have) = 0
  BY <1>1, FS_EmptySet
<1>4. Sound(file)
  BY <1>1, <1>3 DEF Sound
<1>5. free \in Nat /\ free + Cardinality(file.have) <= NBlocks
  BY <1>1, <1>3, Sizes
<1> QED
  BY <1>2, <1>4, <1>5 DEF IInv

\* What fs_write() and fs_truncate() leave.
LEMMA Written ==
  ASSUME IInv, NEW buf \in Buffers, NEW offset \in Nat, fs_write(buf, offset)
  PROVE  /\ IInv'
         /\ file'.size = IF offset + Len(buf) > file.size THEN offset + Len(buf) ELSE file.size
         /\ \E pos \in offset..offset+Len(buf) :
              /\ pos = offset \/ pos = offset + Len(buf) \/ pos % BLKSIZE = 0
              /\ \A p \in 0..MaxSize-1 :
                   At(file', p) = IF offset <= p /\ p < pos THEN buf[p - offset + 1] ELSE At(file, p)
<1>1. PICK s : s = Now
  OBVIOUS
<1>2. s \in States /\ Sound(s.file) /\ s.file = file
  BY <1>1, NowIs DEF IInv
<1>3. PICK u : u = inode_write(s, buf, offset)
  OBVIOUS
<1>4. offset + Len(buf) <= MaxSize /\ Done(u)
  BY <1>1, <1>3 DEF fs_write
<1>5. PICK pos \in offset..offset+Len(buf) :
        /\ u \in States /\ Sound(u.file) /\ Used(u) = Used(s)
        /\ u.file.size = IF offset + Len(buf) > s.file.size THEN offset + Len(buf) ELSE s.file.size
        /\ u.r = "ok" => pos = offset + Len(buf)
        /\ pos = offset \/ pos = offset + Len(buf) \/ pos % BLKSIZE = 0
        /\ \A p \in 0..MaxSize-1 :
             At(u.file, p) = IF offset <= p /\ p < pos THEN buf[p - offset + 1] ELSE At(s.file, p)
  BY <1>2, <1>3, <1>4, WriteIs
<1>6. IInv'
  BY <1>1, <1>4, <1>5, Kept
<1>7. file' = u.file
  BY <1>4 DEF Done
<1> QED
  BY <1>2, <1>5, <1>6, <1>7

LEMMA Cut ==
  ASSUME IInv, NEW size \in 0..MaxSize, fs_truncate(size)
  PROVE  /\ IInv' /\ file'.size = size
         /\ \A n \in FileBlks : file'.data[n] = IF n < ceil(size) THEN file.data[n] ELSE Cleared
<1>1. PICK s, u : s = Now /\ u = inode_set_size(s, size)
  OBVIOUS
<1>2. s \in States /\ Sound(s.file) /\ s.file = file
  BY <1>1, NowIs DEF IInv
<1>3. Done(u)
  BY <1>1 DEF fs_truncate
<1>4. /\ u \in States /\ Sound(u.file) /\ u.file.size = size /\ Used(u) = Used(s)
      /\ \A n \in FileBlks : u.file.data[n] = IF n < ceil(size) THEN s.file.data[n] ELSE Cleared
  BY <1>1, <1>2, SizeSet
<1>5. IInv'
  BY <1>1, <1>3, <1>4, Kept
<1>6. file' = u.file
  BY <1>3 DEF Done
<1> QED
  BY <1>2, <1>4, <1>5, <1>6

LEMMA Others ==
  ASSUME IInv, OthersTake \/ OthersGive
  PROVE  IInv' /\ file' = file
<1>1. file' = file
  BY DEF OthersTake, OthersGive
<1>2. file \in Files /\ Sound(file) /\ IsFiniteSet(file.have)
  BY DEF IInv, Sound
<1>3. PICK c : c = Cardinality(file.have)
  OBVIOUS
<1>4. c \in Nat /\ free \in Nat /\ free + c <= NBlocks /\ NBlocks \in Nat
  BY <1>2, <1>3, FS_CardinalityType, Sizes DEF IInv
<1>5. free' \in Nat /\ free' + c <= NBlocks
  <2>1. CASE OthersTake
    BY <1>4, <2>1 DEF OthersTake
  <2>2. CASE OthersGive
    <3>1. free = 0 /\ free' = NBlocks - c
      BY <1>3, <2>2 DEF OthersGive
    <3> QED
      BY <1>4, <3>1
  <2> QED
    BY <2>1, <2>2
<1>6. file' \in Files /\ Sound(file')
  BY <1>1, <1>2, Zenon
<1> QED
  BY <1>1, <1>3, <1>5, <1>6 DEF IInv

LEMMA Step ==
  ASSUME IInv, [Next]_vars
  PROVE  IInv'
<1>1. CASE UNCHANGED vars
  BY <1>1 DEF vars, IInv, Sound, Walkable
<1>2. ASSUME NEW buf \in Buffers, NEW offset \in 0..MaxSize-1, fs_write(buf, offset) PROVE IInv'
  BY <1>2, Written
<1>3. ASSUME NEW size \in 0..MaxSize, fs_truncate(size) PROVE IInv'
  BY <1>3, Cut
<1>4. CASE OthersTake \/ OthersGive
  BY <1>4, Others
<1> QED
  BY <1>1, <1>2, <1>3, <1>4 DEF Next

\* The invariant of the inode, for any sizes, disk and buffers.
THEOREM FileDataInvariant == Spec => []IInv
<1>1. Init => IInv
  BY InitIInv
<1>2. IInv /\ [Next]_vars => IInv'
  BY Step
<1> QED
  BY <1>1, <1>2, PTL DEF Spec

LEMMA Typed ==
  ASSUME IInv
  PROVE  TypeOK
<1>1. Cardinality(file.have) \in Nat
  BY FS_CardinalityType DEF IInv, Sound
<1>2. free \in 0..NBlocks
  BY <1>1, Sizes DEF IInv
<1> QED
  BY <1>2 DEF IInv, Files, Block, TypeOK

LEMMA Reachable ==
  ASSUME IInv
  PROVE  BlocksReachable
<1>0. /\ ceil(file.size) \in Nat /\ FileBlks \subseteq Nat
      /\ file.have \subseteq Slots /\ Sound(file)
  <2>1. file.size \in Nat
    BY Sizes DEF IInv, Files
  <2> QED
    BY <2>1, Ceil, Sizes DEF IInv, Files
<1>1. inode_flush(file) \subseteq file.have
  BY DEF inode_flush, Stored
<1>2. ASSUME NEW x \in file.have PROVE x \in inode_flush(file)
  <2>1. CASE \E n \in FileBlks : x = Data(n)
    <3>1. PICK n \in FileBlks : x = Data(n)
      BY <2>1
    <3>2. n < ceil(file.size) /\ Stored(file, n) /\ n \in Nat
      BY <1>0, <3>1 DEF Sound, Stored
    <3>3. n \in 0..ceil(file.size)-1
      BY <1>0, <3>2
    <3> QED
      BY <3>1, <3>2, <3>3 DEF inode_flush
  <2>2. CASE x = Ind \/ x = Dbl
    BY <2>2 DEF inode_flush
  <2>3. CASE \E k \in 0..N_INDIRECT-1 : x = Sub(k)
    <3>1. Dbl \in file.have
      BY <1>0, <2>3 DEF Sound
    <3> QED
      BY <2>3, <3>1 DEF inode_flush
  <2> QED
    BY <1>0, <2>1, <2>2, <2>3, SlotsAre
<1>3. \A n \in FileBlks : Data(n) \in file.have => Walkable(file, n)
  BY <1>0 DEF Sound
<1>4. Sub(0) \in file.have \/ Sub(N_INDIRECT-1) \in file.have => Dbl \in file.have
  <2>1. 0 \in 0..N_INDIRECT-1 /\ N_INDIRECT - 1 \in 0..N_INDIRECT-1
    BY Sizes
  <2> QED
    BY <1>0, <2>1 DEF Sound
<1>5. inode_flush(file) = file.have
  BY <1>1, <1>2
<1> QED
  BY <1>3, <1>4, <1>5 DEF BlocksReachable

LEMMA Clean ==
  ASSUME IInv
  PROVE  CutsClean
<1>1. PICK s, u : s = Now /\ u = inode_set_size(s, 0)
  OBVIOUS
<1>2. s \in States /\ Sound(s.file) /\ 0 \in 0..MaxSize
  BY <1>1, NowIs, Sizes DEF IInv
<1>3. u \in States /\ Sound(u.file) /\ u.file.size = 0 /\ Used(u) = Used(s)
  BY <1>1, <1>2, SizeSet
<1>4. ceil(u.file.size) = 0
  BY <1>3, Ceil
<1>5. u.file.have = {}
  <2>1. u.file.have \subseteq Slots
    BY <1>3 DEF States, Files
  <2>2. Ind \notin u.file.have /\ Dbl \notin u.file.have
    <3>1. ~(0 > N_DIRECT) /\ ~(0 > N_DIRECT + N_INDIRECT)
      BY Sizes
    <3> QED
      BY <1>3, <1>4, <3>1 DEF Sound
  <2>3. \A n \in FileBlks : Data(n) \notin u.file.have
    <3>1. \A n \in FileBlks : ~(n < 0)
      BY Sizes
    <3> QED
      BY <1>3, <1>4, <3>1 DEF Sound
  <2>4. \A k \in 0..N_INDIRECT-1 : Sub(k) \notin u.file.have
    BY <1>3, <2>2 DEF Sound
  <2> QED
    BY <2>1, <2>2, <2>3, <2>4, SlotsAre
<1>6. u.free = free + Cardinality(file.have)
  <2>1. Cardinality(u.file.have) = 0
    BY <1>5, FS_EmptySet
  <2>2. u.free \in Nat
    BY <1>3 DEF States
  <2>3. u.free + Cardinality(u.file.have) = free + Cardinality(file.have)
    BY <1>1, <1>3, NowIs DEF Used
  <2>4. u.free + 0 = u.free
    BY <2>2
  <2> QED
    BY <2>1, <2>3, <2>4
<1>7. inode_stat(file) = Cardinality({n \in FileBlks : Data(n) \in file.have})
  <2>1. file.size \in Nat /\ file.size <= MaxSize /\ Sound(file)
    BY Sizes DEF IInv, Files
  <2>2. ceil(file.size) \in Nat /\ ceil(file.size) <= NFile /\ FileBlks = 0..NFile-1 /\ NFile \in Nat
    BY <2>1, Ceil, Sizes
  <2>3. \A n \in FileBlks : Data(n) \in file.have => n < ceil(file.size) /\ Stored(file, n)
    BY <2>1 DEF Sound, Stored
  <2>4. \A n : Stored(file, n) => Data(n) \in file.have
    BY DEF Stored
  <2>5. ASSUME NEW n \in 0..ceil(file.size)-1 PROVE n \in FileBlks
    BY <2>2
  <2>6. ASSUME NEW n \in FileBlks, n < ceil(file.size) PROVE n \in 0..ceil(file.size)-1
    BY <2>2, <2>6
  <2>7. {i \in 0..ceil(file.size)-1 : Stored(file, i)} = {n \in FileBlks : Data(n) \in file.have}
    BY <2>3, <2>4, <2>5, <2>6
  <2> QED
    BY <2>7 DEF inode_stat
<1> QED
  BY <1>1, <1>5, <1>6, <1>7 DEF CutsClean

\* No block is lost, for any sizes, disk and writes: every block of the file is
\* flushed and has the pointers that lead to it, and cutting the file to nothing
\* gives each of them back (NoBlockLost).
THEOREM NothingLost == Spec => []NoBlockLost
<1>1. IInv => NoBlockLost
  BY Typed, Reachable, Clean DEF NoBlockLost
<1> QED
  BY <1>1, FileDataInvariant, PTL

\* A read of any range, across blocks and holes, returns the bytes at its
\* positions and stops at the end of the file (ReadsContent).
THEOREM ReadsRight == Spec => []ReadsContent
<1>1. ASSUME IInv PROVE ReadsContent
  <2>1. file \in Files /\ Sound(file) /\ file.size \in Nat /\ MaxSize \in Nat
    BY <1>1, Sizes DEF IInv, Files
  <2>2. ASSUME NEW offset \in 0..MaxSize, NEW count \in 0..MaxSize-offset+1
        PROVE  inode_read(file, offset, count) =
                 [i \in 1..(IF offset + count <= file.size THEN count
                            ELSE IF offset < file.size THEN file.size - offset ELSE 0)
                    |-> Content(file)[offset + i - 1]]
    <3>1. offset \in Nat /\ count \in Nat /\ offset <= MaxSize
      BY <2>1
    <3>2. PICK n : n = IF offset >= file.size THEN 0
                       ELSE IF count < file.size - offset THEN count ELSE file.size - offset
      OBVIOUS
    <3>3. n \in Nat
      BY <2>1, <3>1, <3>2
    <3>4. n = IF offset + count <= file.size THEN count
              ELSE IF offset < file.size THEN file.size - offset ELSE 0
      BY <2>1, <3>1, <3>2
    <3>5. inode_read(file, offset, count) = BytesAt(file, offset, n)
      BY <2>1, <3>1, <3>2, <3>3, ReadIs
    <3>6. inode_read(file, offset, count) = [i \in 1..n |-> Content(file)[offset + i - 1]]
      BY <3>5 DEF BytesAt
    <3> QED
      BY <3>4, <3>6, Zenon
  <2> QED
    BY <2>2 DEF ReadsContent
<1> QED
  BY <1>1, FileDataInvariant, PTL

-----------------------------------------------------------------------------
(* The inode implements ByteFile *)

\* Contents with the same bytes.
LEMMA SameContent ==
  ASSUME NEW f \in Files, Sound(f), NEW c,
         \A p \in 0..MaxSize-1 : At(f, p) = c[p], c = [p \in 0..MaxSize-1 |-> c[p]]
  PROVE  Content(f) = c
<1>1. \A p \in 0..MaxSize-1 : Content(f)[p] = c[p]
  BY ContentIs
<1>2. Content(f) = [p \in 0..MaxSize-1 |-> Content(f)[p]]
  BY DEF Content
<1> QED
  BY <1>1, <1>2

LEMMA WriteSteps ==
  ASSUME IInv, NEW buf \in Buffers, NEW offset \in 0..MaxSize-1, fs_write(buf, offset)
  PROVE  Promise!Write(buf, offset)
<1>1. /\ IInv' /\ Len(buf) \in Nat /\ offset \in Nat
      /\ file'.size = IF offset + Len(buf) > file.size THEN offset + Len(buf) ELSE file.size
  BY Written, BuffersAssumption
<1>2. PICK pos \in offset..offset+Len(buf) :
        /\ pos = offset \/ pos = offset + Len(buf) \/ pos % BLKSIZE = 0
        /\ \A p \in 0..MaxSize-1 :
             At(file', p) = IF offset <= p /\ p < pos THEN buf[p - offset + 1] ELSE At(file, p)
  BY Written
<1>3. PICK k : k = pos - offset
  OBVIOUS
<1>4. k \in 0..Len(buf) /\ offset + k = pos /\ (k \in {0, Len(buf)} \/ (offset + k) % BLKSIZE = 0)
  BY <1>1, <1>2, <1>3
<1>5. PICK c : c = Promise!Stored(buf, offset, k)
  OBVIOUS
<1>6. c = [p \in 0..MaxSize-1 |-> IF p \in offset..offset+k-1 THEN buf[p - offset + 1] ELSE Content(file)[p]]
  BY <1>5 DEF Promise!Stored
<1>7. file' \in Files /\ Sound(file') /\ file \in Files /\ Sound(file)
  BY <1>1 DEF IInv
<1>8. ASSUME NEW p \in 0..MaxSize-1 PROVE At(file', p) = c[p]
  <2>1. p \in offset..offset+k-1 <=> offset <= p /\ p < pos
    BY <1>1, <1>4
  <2>2. Content(file)[p] = At(file, p)
    BY <1>7, ContentIs
  <2>3. At(file', p) = IF offset <= p /\ p < pos THEN buf[p - offset + 1] ELSE At(file, p)
    BY <1>2
  <2>4. c[p] = IF p \in offset..offset+k-1 THEN buf[p - offset + 1] ELSE Content(file)[p]
    BY <1>6
  <2> QED
    BY <2>1, <2>2, <2>3, <2>4, Zenon
<1>9. Content(file') = c
  <2>1. c = [p \in 0..MaxSize-1 |-> c[p]]
    BY <1>6
  <2> QED
    BY <1>7, <1>8, <2>1, SameContent
<1>10. Content(file)' = Promise!Stored(buf, offset, k)
  <2>1. Content(file)' = Content(file')
    BY DEF Content, Stored, Walkable
  <2> QED
    BY <1>5, <1>9, <2>1, Zenon
<1> QED
  BY <1>1, <1>4, <1>10 DEF Promise!Write

LEMMA CutSteps ==
  ASSUME IInv, NEW size \in 0..MaxSize, fs_truncate(size)
  PROVE  Promise!Resize(size)
<1>1. /\ IInv' /\ file'.size = size /\ size \in Nat
      /\ \A n \in FileBlks : file'.data[n] = IF n < ceil(size) THEN file.data[n] ELSE Cleared
  BY Cut, Sizes
<1>2. PICK c : c = [p \in 0..MaxSize-1 |-> IF p \div BLKSIZE <= (size - 1) \div BLKSIZE /\ size > 0
                                          THEN Content(file)[p] ELSE 0]
  OBVIOUS
<1>3. file' \in Files /\ Sound(file') /\ file \in Files /\ Sound(file)
  BY <1>1 DEF IInv
<1>4. ASSUME NEW p \in 0..MaxSize-1 PROVE At(file', p) = c[p]
  <2>1. PICK b, o : b = Blk(p) /\ o = Off(p)
    OBVIOUS
  <2>2. p \in Nat /\ b \in FileBlks /\ o \in 0..BLKSIZE-1
    BY <2>1, BlkInFile
  <2>3. b < ceil(size) <=> size > 0 /\ b <= Blk(size - 1)
    BY <1>1, <2>1, <2>2, Ceil
  <2>4. Content(file)[p] = file.data[b][o] /\ At(file', p) = file'.data[b][o]
    BY <1>3, <2>1, ContentIs DEF At
  <2>5. c[p] = IF b <= Blk(size - 1) /\ size > 0 THEN Content(file)[p] ELSE 0
    BY <1>2, <2>1 DEF Blk
  <2>6. file'.data[b] = IF b < ceil(size) THEN file.data[b] ELSE Cleared
    BY <1>1, <2>2
  <2>7. Cleared[o] = 0
    BY <2>2, ClearedType
  <2>8. CASE b < ceil(size)
    BY <2>3, <2>4, <2>5, <2>6, <2>8, Zenon
  <2>9. CASE ~(b < ceil(size))
    BY <2>3, <2>4, <2>5, <2>6, <2>7, <2>9, Zenon
  <2> QED
    BY <2>8, <2>9
<1>5. Content(file') = c
  BY <1>2, <1>3, <1>4, SameContent
<1> QED
  BY <1>1, <1>2, <1>5 DEF Promise!Resize

LEMMA BeginsEmpty ==
  ASSUME Init
  PROVE  Promise!Init
<1>1. IInv
  BY InitIInv
<1>2. file.size = 0 /\ file.data = [n \in FileBlks |-> Cleared]
  BY DEF Init
<1>3. PICK c : c = [p \in 0..MaxSize-1 |-> 0]
  OBVIOUS
<1>4. ASSUME NEW p \in 0..MaxSize-1 PROVE At(file, p) = c[p]
  BY <1>2, <1>3, BlkInFile, ClearedType DEF At
<1>5. Content(file) = c
  BY <1>1, <1>3, <1>4, SameContent DEF IInv
<1> QED
  BY <1>2, <1>3, <1>5 DEF Promise!Init

\* The inode is a file of bytes, whatever its sizes and however the disk fills
\* and empties: every write and cut is one of ByteFile (KeepsPromise).
THEOREM ByteFileImplemented == Spec => KeepsPromise
<1>1. Init => Promise!Init
  BY BeginsEmpty
<1>2. ASSUME IInv, [Next]_vars
      PROVE  [Promise!Next]_<<Content(file), file.size>>
  <2>1. ASSUME NEW buf \in Buffers, NEW offset \in 0..MaxSize-1, fs_write(buf, offset)
        PROVE  Promise!Next
    <3>1. offset + Len(buf) <= MaxSize
      BY <2>1 DEF fs_write
    <3> QED
      BY <1>2, <2>1, <3>1, WriteSteps DEF Promise!Next
  <2>2. ASSUME NEW size \in 0..MaxSize, fs_truncate(size) PROVE Promise!Next
    BY <1>2, <2>2, CutSteps DEF Promise!Next
  <2>3. CASE OthersTake \/ OthersGive \/ UNCHANGED vars
    <3>1. file' = file
      BY <1>2, <2>3, Others DEF vars
    <3>2. UNCHANGED <<Content(file), file.size>>
      BY <3>1 DEF Content, Stored, Walkable
    <3> QED
      BY <3>2
  <2> QED
    BY <1>2, <2>1, <2>2, <2>3 DEF Next
<1> QED
  BY <1>1, <1>2, FileDataInvariant, PTL DEF Spec, KeepsPromise, Promise!Spec
=============================================================================
