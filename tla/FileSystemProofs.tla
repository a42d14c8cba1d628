--------------------------- MODULE FileSystemProofs ---------------------------
(* Proofs about FileSystem.tla, for any disk, any names and any sequence of    *)
(* callbacks.                                                                  *)
EXTENDS FileSystemInv, FiniteSetTheorems, WellFoundedInduction, TLAPS

LEMMA SetInduction ==
  ASSUME NEW P, 0 \in P, \A n \in Nat : n \in P => n + 1 \in P
  PROVE  Nat \subseteq P
<1> SUFFICES ASSUME Nat \ P # {} PROVE FALSE
  OBVIOUS
<1>1. PICK x \in Nat \ P : \A y \in Nat \ P : ~(<<y, x>> \in OpToRel(<, Nat))
  BY NatLessThanWellFounded, WFMin, Zenon
<1>2. \A y \in Nat : y < x => y \in P
  <2>1. \A u, v \in Nat : v < u => <<v, u>> \in OpToRel(<, Nat)
    BY DEF OpToRel
  <2> QED
    BY <1>1, <2>1
<1>3. x \in Nat /\ x \notin P /\ x # 0
  BY <1>1, Zenon
<1>4. x - 1 \in Nat /\ x - 1 < x /\ (x - 1) + 1 = x
  BY <1>3
<1>5. x - 1 \in P
  BY <1>2, <1>4
<1>6. x \in P
  BY <1>4, <1>5
<1> QED
  BY <1>3, <1>6

\* A set of numbers that is not empty has a least member.
LEMMA LeastIs ==
  ASSUME NEW S \in SUBSET Nat, S # {}
  PROVE  Least(S) \in S
<1>1. PICK x \in S : \A y \in S : ~(<<y, x>> \in OpToRel(<, Nat))
  BY NatLessThanWellFounded, WFMin, Zenon
<1>2. \A u, v \in Nat : v < u => <<v, u>> \in OpToRel(<, Nat)
  BY DEF OpToRel
<1>3. \A y \in Nat : y < x => y \notin S
  BY <1>1, <1>2, Zenon
<1>4. x \in S /\ \A y \in S : x <= y
  BY <1>3
<1> QED
  BY <1>4 DEF Least

-----------------------------------------------------------------------------
(* Disks *)

Inode == [mode : {"none", "file", "dir", "symlink"}, nlink : Nat, size : 0..MaxBlocks,
          blk : [0..MaxBlocks-1 -> Free \cup {0}]]
Entry == [name : AllNames \cup {""}, inum : {0} \cup Free]

LEMMA Sizes ==
  MaxBlocks \in Nat /\ BLKDIRENTS \in Nat /\ BLKDIRENTS > 0 /\ 1 \in 1..BLKDIRENTS
BY SizeAssumption

LEMMA Basics ==
  /\ Root \in Inums /\ Root \notin Free /\ Root # 0 /\ 0 \notin Free /\ 0 \notin Inums
  /\ Free \subseteq Inums /\ Inums \ {Root} \subseteq Free
BY FreeAssumption DEF Inums, Root

LEMMA FreeIs == Free \subseteq Nat /\ IsFiniteSet(Free)
BY FreeAssumption

LEMMA NamesAre == "" \notin AllNames
BY NamesAssumption DEF AllNames

LEMMA HasBlocks == MaxBlocks > 0 /\ 0 \in 0..MaxBlocks-1
<1>1. Cardinality(Free) \in Nat /\ Cardinality(Free) < MaxBlocks /\ MaxBlocks \in Nat
  BY FreeAssumption, SizeAssumption, FS_CardinalityType
<1> QED
  BY <1>1

LEMMA Types ==
  /\ Disks = [free : SUBSET Free, inode : [Inums -> Inode],
              ents : [{0} \cup Free -> [1..BLKDIRENTS -> Entry]]]
  /\ NoEnt \in Entry /\ EmptyBlk \in [1..BLKDIRENTS -> Entry] /\ NoInode \in Inode
<1>1. Names \cup {"", Hidden} = AllNames \cup {""}
  BY DEF AllNames
<1>2. Disks = [free : SUBSET Free, inode : [Inums -> Inode],
              ents : [{0} \cup Free -> [1..BLKDIRENTS -> Entry]]]
  BY <1>1 DEF Disks, Inode, Entry
<1>3. NoEnt \in Entry
  BY DEF NoEnt, Entry
<1>4. NoInode \in Inode
  BY Sizes DEF NoInode, Inode
<1> QED
  BY <1>2, <1>3, <1>4 DEF EmptyBlk

LEMMA DiskIs ==
  ASSUME NEW f \in Disks
  PROVE  /\ f = [free |-> f.free, inode |-> f.inode, ents |-> f.ents]
         /\ f.free \subseteq Free /\ f.inode \in [Inums -> Inode]
         /\ f.ents \in [{0} \cup Free -> [1..BLKDIRENTS -> Entry]]
         /\ Live(f) \subseteq Inums /\ Dirs(f) \subseteq Live(f)
BY Types DEF Live, Dirs

LEMMA InodeIs ==
  ASSUME NEW f \in Disks, NEW i \in Inums
  PROVE  /\ f.inode[i] \in Inode /\ f.inode[i].mode \in {"none", "file", "dir", "symlink"}
         /\ f.inode[i].nlink \in Nat /\ f.inode[i].size \in 0..MaxBlocks
         /\ f.inode[i].blk \in [0..MaxBlocks-1 -> Free \cup {0}]
         /\ \A n \in 0..MaxBlocks-1 : f.inode[i].blk[n] \in Free \cup {0}
         /\ f.inode[i] = [mode |-> f.inode[i].mode, nlink |-> f.inode[i].nlink,
                          size |-> f.inode[i].size, blk |-> f.inode[i].blk]
<1>1. f.inode[i] \in Inode
  BY DiskIs
<1> QED
  BY <1>1 DEF Inode

LEMMA EntIs ==
  ASSUME NEW f \in Disks, NEW b \in {0} \cup Free, NEW j \in 1..BLKDIRENTS
  PROVE  f.ents[b][j] \in Entry /\ Ent(f, <<b, j>>) = f.ents[b][j]
<1>1. f.ents \in [{0} \cup Free -> [1..BLKDIRENTS -> Entry]]
  BY DiskIs
<1>2. f.ents[b] \in [1..BLKDIRENTS -> Entry]
  BY <1>1
<1>3. f.ents[b][j] \in Entry
  BY <1>2
<1> QED
  BY <1>3 DEF Ent

-----------------------------------------------------------------------------
(* Allocation *)

WithBlock(f, i, n, b) ==
  [free |-> f.free \ {b}, inode |-> [f.inode EXCEPT ![i].blk[n] = b],
   ents |-> [f.ents EXCEPT ![b] = EmptyBlk]]

LEMMA AllocIs ==
  ASSUME NEW f \in Disks, NEW a, a = alloc_block(f)
  PROVE  \/ f.free = {} /\ a.r = "ENOSPC" /\ a.fs = f
         \/ /\ f.free # {} /\ a.r = "ok" /\ a.b \in f.free
            /\ a.fs = [free |-> f.free \ {a.b}, inode |-> f.inode, ents |-> f.ents]
            /\ a = [r |-> "ok", fs |-> a.fs, b |-> a.b]
<1>1. CASE f.free = {}
  BY <1>1 DEF alloc_block
<1>2. CASE f.free # {}
  <2>1. Least(f.free) \in f.free
    BY <1>2, DiskIs, FreeIs, LeastIs
  <2>2. a = [r |-> "ok", fs |-> [f EXCEPT !.free = @ \ {Least(f.free)}], b |-> Least(f.free)]
    BY <1>2 DEF alloc_block
  <2>3. [f EXCEPT !.free = @ \ {Least(f.free)}]
          = [free |-> f.free \ {Least(f.free)}, inode |-> f.inode, ents |-> f.ents]
    <3>1. PICK F, I, E : F = f.free \ {Least(f.free)} /\ I = f.inode /\ E = f.ents
      OBVIOUS
    <3>2. f = [free |-> f.free, inode |-> I, ents |-> E]
      BY <3>1, DiskIs, Zenon
    <3>3. [f EXCEPT !.free = F] = [free |-> F, inode |-> I, ents |-> E]
      BY <3>2
    <3> QED
      BY <3>1, <3>3
  <2> QED
    BY <1>2, <2>1, <2>2, <2>3
<1> QED
  BY <1>1, <1>2

LEMMA GetBlock ==
  ASSUME NEW f \in Disks, NEW i \in Inums, NEW n \in 0..MaxBlocks-1, NEW g,
         g = inode_get_block(f, i, n)
  PROVE  \/ g.r = "ok" /\ g.fs = f /\ g.b = f.inode[i].blk[n] /\ g.b # 0
         \/ /\ f.inode[i].blk[n] = 0 /\ g.r = "ok" /\ g.b \in f.free
            /\ g.fs = WithBlock(f, i, n, g.b)
         \/ f.inode[i].blk[n] = 0 /\ f.free = {} /\ g.r = "ENOSPC" /\ g.fs = f
<1>0. ~(n >= MaxBlocks)
  BY Sizes
<1>1. CASE f.inode[i].blk[n] # 0
  BY <1>0, <1>1 DEF inode_get_block
<1>2. CASE f.inode[i].blk[n] = 0
  <2>1. PICK a : a = alloc_block(f)
    OBVIOUS
  <2>2. g = IF a.r # "ok" THEN a
            ELSE [a EXCEPT !.fs.inode[i].blk[n] = a.b, !.fs.ents[a.b] = EmptyBlk]
    BY <1>0, <1>2, <2>1 DEF inode_get_block
  <2>3. CASE f.free = {}
    <3>1. a.r = "ENOSPC" /\ a.fs = f
      BY <2>1, <2>3, AllocIs
    <3> QED
      BY <1>2, <2>2, <2>3, <3>1
  <2>4. CASE f.free # {}
    <3>1. /\ a.r = "ok" /\ a.b \in f.free
          /\ a.fs = [free |-> f.free \ {a.b}, inode |-> f.inode, ents |-> f.ents]
          /\ a = [r |-> "ok", fs |-> a.fs, b |-> a.b]
      BY <2>1, <2>4, AllocIs
    <3>2. g = [a EXCEPT !.fs.inode[i].blk[n] = a.b, !.fs.ents[a.b] = EmptyBlk]
      BY <2>2, <3>1
    <3>3. PICK x : x = a.fs
      OBVIOUS
    <3>4. g = [r |-> "ok", fs |-> [x EXCEPT !.inode[i].blk[n] = a.b, !.ents[a.b] = EmptyBlk], b |-> a.b]
      BY <3>1, <3>2, <3>3
    <3>5. [x EXCEPT !.inode[i].blk[n] = a.b, !.ents[a.b] = EmptyBlk] = WithBlock(f, i, n, a.b)
      <4>1. PICK F, I, E : F = f.free \ {a.b} /\ I = f.inode /\ E = f.ents
        OBVIOUS
      <4>2. x = [free |-> F, inode |-> I, ents |-> E]
        BY <3>1, <3>3, <4>1
      <4>3. [x EXCEPT !.inode[i].blk[n] = a.b, !.ents[a.b] = EmptyBlk]
              = [free |-> F, inode |-> [I EXCEPT ![i].blk[n] = a.b], ents |-> [E EXCEPT ![a.b] = EmptyBlk]]
        <5>1. PICK b, e : b = a.b /\ e = EmptyBlk
          OBVIOUS
        <5>2. [[free |-> F, inode |-> I, ents |-> E] EXCEPT !.inode[i].blk[n] = b]
                = [free |-> F, inode |-> [I EXCEPT ![i].blk[n] = b], ents |-> E]
          BY SMT
        <5>3. PICK J : J = [I EXCEPT ![i].blk[n] = b]
          OBVIOUS
        <5>4. [[free |-> F, inode |-> J, ents |-> E] EXCEPT !.ents[b] = e]
                = [free |-> F, inode |-> J, ents |-> [E EXCEPT ![b] = e]]
          BY SMT
        <5> QED
          BY <4>2, <5>1, <5>2, <5>3, <5>4
      <4> QED
        BY <4>1, <4>3, Zenon DEF WithBlock
    <3>6. g.r = "ok" /\ g.b = a.b /\ g.fs = WithBlock(f, i, n, a.b)
      BY <3>4, <3>5
    <3> QED
      BY <1>2, <3>1, <3>6
  <2> QED
    BY <2>3, <2>4
<1> QED
  BY <1>1, <1>2

LEMMA WithBlockIs ==
  ASSUME NEW f \in Disks, NEW i \in Inums, NEW n \in 0..MaxBlocks-1, NEW b \in f.free,
         NEW g, g = WithBlock(f, i, n, b)
  PROVE  /\ g \in Disks /\ g.free = f.free \ {b} /\ b \in Free
         /\ \A k \in Inums : /\ g.inode[k].mode = f.inode[k].mode /\ g.inode[k].nlink = f.inode[k].nlink
                             /\ g.inode[k].size = f.inode[k].size
                             /\ k # i => g.inode[k] = f.inode[k]
         /\ \A k \in Inums : \A m \in 0..MaxBlocks-1 :
              g.inode[k].blk[m] = IF k = i /\ m = n THEN b ELSE f.inode[k].blk[m]
         /\ g.ents[b] = EmptyBlk
         /\ \A c \in {0} \cup Free : c # b => g.ents[c] = f.ents[c]
<1>1. b \in Free /\ f.inode \in [Inums -> Inode] /\ f.ents \in [{0} \cup Free -> [1..BLKDIRENTS -> Entry]]
      /\ f.free \subseteq Free
  BY DiskIs
<1>2. PICK I, E : I = [f.inode EXCEPT ![i].blk[n] = b] /\ E = [f.ents EXCEPT ![b] = EmptyBlk]
  OBVIOUS
<1>3. g.free = f.free \ {b} /\ g.inode = I /\ g.ents = E /\ g = [free |-> f.free \ {b}, inode |-> I, ents |-> E]
  BY <1>2 DEF WithBlock
<1>4. E \in [{0} \cup Free -> [1..BLKDIRENTS -> Entry]] /\ E[b] = EmptyBlk
      /\ \A c \in {0} \cup Free : c # b => E[c] = f.ents[c]
  BY <1>1, <1>2, Types
<1>5. PICK B : B = [f.inode[i].blk EXCEPT ![n] = b]
  OBVIOUS
<1>6. B \in [0..MaxBlocks-1 -> Free \cup {0}]
      /\ \A m \in 0..MaxBlocks-1 : B[m] = IF m = n THEN b ELSE f.inode[i].blk[m]
  BY <1>1, <1>5, InodeIs
<1>7. PICK x : x = [f.inode[i] EXCEPT !.blk = B]
  OBVIOUS
<1>8. x \in Inode /\ x.mode = f.inode[i].mode /\ x.nlink = f.inode[i].nlink /\ x.size = f.inode[i].size /\ x.blk = B
  <2>1. f.inode[i] \in Inode
    BY InodeIs
  <2> QED
    BY <1>6, <1>7, <2>1 DEF Inode
<1>9. I = [f.inode EXCEPT ![i] = x]
  BY <1>2, <1>5, <1>7
<1>10. I \in [Inums -> Inode] /\ I[i] = x /\ \A k \in Inums : k # i => I[k] = f.inode[k]
  BY <1>1, <1>8, <1>9
<1>11. g \in Disks
  BY <1>1, <1>3, <1>4, <1>10, Types
<1> QED
  BY <1>1, <1>3, <1>4, <1>6, <1>8, <1>10, <1>11

-----------------------------------------------------------------------------
(* Places and slots *)

Cells == Free \X (1..BLKDIRENTS)

LEMMA PlaceIs ==
  ASSUME NEW f \in Disks, NEW d \in Inums, NEW s
  PROVE  s \in Places(f, d) <=> s \in Cells /\ \E n \in 0..MaxBlocks-1 : f.inode[d].blk[n] = s[1]
<1>1. \A n \in 0..MaxBlocks-1 : f.inode[d].blk[n] \in Free \cup {0}
  BY InodeIs
<1>2. 0 \notin Free
  BY Basics
<1>3. \A c : c \in BlocksOf(f, d) <=> c \in Free /\ \E n \in 0..MaxBlocks-1 : f.inode[d].blk[n] = c
  BY <1>1, <1>2 DEF BlocksOf
<1> QED
  BY <1>3 DEF Places, Cells

LEMMA SlotIs ==
  ASSUME NEW f \in Disks, NEW i, NEW s
  PROVE  s \in SlotsOf(f, i) <=> (\E d \in Dirs(f) : s \in Places(f, d)) /\ Ent(f, s).inum = i
BY DEF SlotsOf, Places, Ent

LEMMA FiniteSlots ==
  ASSUME NEW f \in Disks, NEW i
  PROVE  /\ SlotsOf(f, i) \subseteq Cells /\ IsFiniteSet(SlotsOf(f, i)) /\ IsFiniteSet(Cells)
         /\ Cardinality(SlotsOf(f, i)) \in Nat
<1>1. IsFiniteSet(Cells)
  <2>1. IsFiniteSet(1..BLKDIRENTS)
    BY Sizes, FS_Interval
  <2> QED
    BY <2>1, FreeIs, FS_Product DEF Cells
<1>2. SlotsOf(f, i) \subseteq Cells
  BY SlotIs, PlaceIs, DiskIs
<1> QED
  BY <1>1, <1>2, FS_Subset, FS_CardinalityType

-----------------------------------------------------------------------------
(* A block for an inode *)

\* An entry in a free block counts for nobody.
LEMMA FreeUnused ==
  ASSUME NEW f, Sound(f), NEW i \in Inums, NEW n \in 0..MaxBlocks-1
  PROVE  f.inode[i].blk[n] \notin f.free /\ f.inode[i].blk[n] \notin Live(f)
BY DEF Sound, Partition

LEMMA AddedPlaces ==
  ASSUME NEW f, Sound(f), NEW i \in Inums, NEW n \in 0..MaxBlocks-1, f.inode[i].blk[n] = 0,
         NEW b \in f.free, NEW g, g = WithBlock(f, i, n, b)
  PROVE  /\ \A d \in Inums : \A s : s \in Places(g, d) <=>
                s \in Places(f, d) \/ (d = i /\ s \in Cells /\ s[1] = b)
         /\ \A d \in Inums : \A s \in Places(f, d) : s[1] # b /\ Ent(g, s) = Ent(f, s)
         /\ \A s \in Cells : s[1] = b => Ent(g, s) = NoEnt
<1>1. f \in Disks /\ g \in Disks /\ b \in Free /\ 0 \notin Free
  BY WithBlockIs, Basics DEF Sound
<1>2. \A k \in Inums : \A m \in 0..MaxBlocks-1 :
        g.inode[k].blk[m] = IF k = i /\ m = n THEN b ELSE f.inode[k].blk[m]
  BY <1>1, WithBlockIs
<1>3. g.ents[b] = EmptyBlk /\ \A c \in {0} \cup Free : c # b => g.ents[c] = f.ents[c]
  BY <1>1, WithBlockIs
<1>4. ASSUME NEW d \in Inums, NEW s
      PROVE  s \in Places(g, d) <=> s \in Places(f, d) \/ (d = i /\ s \in Cells /\ s[1] = b)
  <2>1. s \in Places(g, d) <=> s \in Cells /\ \E m \in 0..MaxBlocks-1 : g.inode[d].blk[m] = s[1]
    BY <1>1, PlaceIs
  <2>2. s \in Places(f, d) <=> s \in Cells /\ \E m \in 0..MaxBlocks-1 : f.inode[d].blk[m] = s[1]
    BY <1>1, PlaceIs
  <2>3. s \in Cells => s[1] # 0
    BY <1>1 DEF Cells
  <2> QED
    BY <1>2, <2>1, <2>2, <2>3
<1>5. ASSUME NEW d \in Inums, NEW s \in Places(f, d)
      PROVE  s[1] # b /\ Ent(g, s) = Ent(f, s)
  <2>1. s \in Cells /\ \E m \in 0..MaxBlocks-1 : f.inode[d].blk[m] = s[1]
    BY <1>1, PlaceIs
  <2>2. s[1] # b /\ s[1] \in Free
    BY <2>1, FreeUnused DEF Cells
  <2> QED
    BY <1>3, <2>2 DEF Ent
<1>6. ASSUME NEW s \in Cells, s[1] = b PROVE Ent(g, s) = NoEnt
  BY <1>3, <1>6 DEF Ent, Cells, EmptyBlk
<1> QED
  BY <1>4, <1>5, <1>6

\* What is given a block may be a directory that lacks its last one, or
\* anything that is no directory.
LEMMA BlockAdded ==
  ASSUME NEW f, Sound(f), NEW i \in Live(f), NEW n \in 0..MaxBlocks-1, f.inode[i].blk[n] = 0,
         i \in Dirs(f) => f.inode[i].size = n + 1,
         NEW b \in f.free, NEW g, g = WithBlock(f, i, n, b)
  PROVE  /\ Sound(g) /\ Live(g) = Live(f) /\ Dirs(g) = Dirs(f)
         /\ \A k \in Inums \ {0} : SlotsOf(g, k) = SlotsOf(f, k)
<1>1. /\ f \in Disks /\ g \in Disks /\ i \in Inums /\ b \in Free /\ b \in Inums /\ 0 \notin Free /\ b # 0
      /\ g.free = f.free \ {b} /\ b \notin Live(f) /\ 0 \notin Live(f) /\ b # Root /\ 0 \notin Inums
  BY WithBlockIs, DiskIs, Basics DEF Sound, Partition
<1>2. \A k \in Inums : \A m \in 0..MaxBlocks-1 :
        g.inode[k].blk[m] = IF k = i /\ m = n THEN b ELSE f.inode[k].blk[m]
  BY <1>1, WithBlockIs
<1>3. \A k \in Inums : /\ g.inode[k].mode = f.inode[k].mode /\ g.inode[k].nlink = f.inode[k].nlink
                       /\ g.inode[k].size = f.inode[k].size
                       /\ k # i => g.inode[k] = f.inode[k]
  BY <1>1, WithBlockIs
<1>4. Live(g) = Live(f) /\ Dirs(g) = Dirs(f)
  BY <1>3 DEF Live, Dirs
<1>5. \A k \in Inums : \A m \in 0..MaxBlocks-1 : f.inode[k].blk[m] # b
  BY <1>1, FreeUnused
<1>6. /\ \A d \in Inums : \A s : s \in Places(g, d) <=>
             s \in Places(f, d) \/ (d = i /\ s \in Cells /\ s[1] = b)
      /\ \A d \in Inums : \A s \in Places(f, d) : s[1] # b /\ Ent(g, s) = Ent(f, s)
      /\ \A s \in Cells : s[1] = b => Ent(g, s) = NoEnt
  BY <1>1, AddedPlaces
<1>7. g.ents[0] = EmptyBlk
  BY <1>1, WithBlockIs DEF Sound
<1>8. OneUse(g)
  BY <1>1, <1>2, <1>5 DEF OneUse, Sound
<1>9. Partition(g)
  <2>1. \A x \in Live(g) : x \notin g.free
    BY <1>1, <1>4 DEF Sound, Partition
  <2>2. \A k \in Inums : \A m \in 0..MaxBlocks-1 : g.inode[k].blk[m] \notin g.free \cup Live(g)
    BY <1>1, <1>2, <1>4 DEF Sound, Partition
  <2>3. ASSUME NEW x \in Free \ g.free PROVE x \in Live(g) \/ \E k \in Inums : x \in BlocksOf(g, k)
    <3>1. CASE x = b
      BY <1>1, <1>2, <3>1 DEF BlocksOf
    <3>2. CASE x # b
      <4>1. x \in Live(f) \/ \E k \in Inums : x \in BlocksOf(f, k)
        BY <1>1, <2>3, <3>2 DEF Sound, Partition
      <4>2. ASSUME NEW k \in Inums, x \in BlocksOf(f, k) PROVE x \in BlocksOf(g, k)
        <5>1. PICK m \in 0..MaxBlocks-1 : x = f.inode[k].blk[m] /\ x # 0
          BY <4>2 DEF BlocksOf
        <5>2. g.inode[k].blk[m] = x
          BY <1>2, <5>1
        <5> QED
          BY <5>1, <5>2 DEF BlocksOf
      <4> QED
        BY <1>4, <4>1, <4>2
    <3> QED
      BY <3>1, <3>2
  <2> QED
    BY <2>1, <2>2, <2>3 DEF Partition
<1>10. Shapes(g)
  <2>1. Shapes(f)
    BY DEF Sound
  <2>2. Root \in Dirs(g) /\ \A k \in Inums \ Live(g) : g.inode[k] = NoInode
    BY <1>3, <1>4, <2>1 DEF Shapes
  <2>3. ASSUME NEW d \in Dirs(g), NEW m \in 0..MaxBlocks-1
        PROVE  /\ m >= g.inode[d].size => g.inode[d].blk[m] = 0
               /\ m + 1 < g.inode[d].size => g.inode[d].blk[m] # 0
    <3>1. d \in Dirs(f) /\ d \in Inums /\ g.inode[d].size = f.inode[d].size
      BY <1>3, <1>4 DEF Dirs
    <3>2. g.inode[d].blk[m] = IF d = i /\ m = n THEN b ELSE f.inode[d].blk[m]
      BY <1>2, <3>1
    <3>3. /\ m >= f.inode[d].size => f.inode[d].blk[m] = 0
          /\ m + 1 < f.inode[d].size => f.inode[d].blk[m] # 0
      BY <2>1, <3>1 DEF Shapes
    <3>4. d = i => f.inode[d].size = n + 1
      BY <3>1
    <3> QED
      BY <1>1, <3>1, <3>2, <3>3, <3>4
  <2> QED
    BY <2>2, <2>3 DEF Shapes
<1>11. Names1(g)
  <2>1. Names1(f)
    BY DEF Sound
  <2>2. ASSUME NEW d \in Dirs(g), NEW s \in Places(g, d)
        PROVE  /\ Ent(g, s) = NoEnt \/ (Ent(g, s).name # "" /\ Ent(g, s).inum \in Live(g) \ {Root})
               /\ Ent(g, s).name # "" => s \in Places(f, d) /\ Ent(g, s) = Ent(f, s)
    <3>1. d \in Dirs(f) /\ d \in Inums
      BY <1>4 DEF Dirs
    <3>2. CASE s \in Places(f, d)
      <4>1. Ent(g, s) = Ent(f, s)
        BY <1>6, <3>1, <3>2
      <4>2. Ent(f, s) = NoEnt \/ (Ent(f, s).name # "" /\ Ent(f, s).inum \in Live(f) \ {Root})
        BY <2>1, <3>1, <3>2 DEF Names1
      <4> QED
        BY <1>4, <3>2, <4>1, <4>2
    <3>3. CASE s \notin Places(f, d)
      <4>1. Ent(g, s) = NoEnt
        BY <1>6, <3>1, <3>3
      <4>2. NoEnt.name = ""
        BY DEF NoEnt
      <4> QED
        BY <4>1, <4>2
    <3> QED
      BY <3>2, <3>3
  <2>3. ASSUME NEW d \in Dirs(g), NEW s \in Places(g, d), NEW t \in Places(g, d),
               Ent(g, s).name # "", Ent(g, s).name = Ent(g, t).name
        PROVE  s = t
    <3>1. s \in Places(f, d) /\ t \in Places(f, d) /\ Ent(g, s) = Ent(f, s) /\ Ent(g, t) = Ent(f, t)
      BY <2>2, <2>3
    <3> QED
      BY <1>4, <2>1, <2>3, <3>1 DEF Names1
  <2> QED
    BY <2>2, <2>3 DEF Names1
<1>12. ASSUME NEW k \in Inums \ {0} PROVE SlotsOf(g, k) = SlotsOf(f, k)
  <2>1. ASSUME NEW s PROVE s \in SlotsOf(g, k) <=> s \in SlotsOf(f, k)
    <3>1. s \in SlotsOf(g, k) <=> (\E d \in Dirs(g) : s \in Places(g, d)) /\ Ent(g, s).inum = k
      BY <1>1, SlotIs
    <3>2. s \in SlotsOf(f, k) <=> (\E d \in Dirs(f) : s \in Places(f, d)) /\ Ent(f, s).inum = k
      BY <1>1, SlotIs
    <3>3. \A d \in Dirs(f) : d \in Inums
      BY DEF Dirs
    <3>4. NoEnt.inum # k
      BY DEF NoEnt
    <3> QED
      BY <1>4, <1>6, <3>1, <3>2, <3>3, <3>4
  <2> QED
    BY <2>1
<1>13. Links(g)
  BY <1>1, <1>3, <1>4, <1>12 DEF Links, Sound, Live
<1> QED
  BY <1>1, <1>4, <1>7, <1>8, <1>9, <1>10, <1>11, <1>12, <1>13 DEF Sound

-----------------------------------------------------------------------------
(* A directory grows *)

Grown(f, d) == [f EXCEPT !.inode[d].size = @ + 1]

\* A directory without a hole has room for another block: it would take more
\* blocks to fill it than the disk has.
LEMMA RoomLeft ==
  ASSUME NEW f, Sound(f), NEW d \in Dirs(f),
         \A n \in 0..MaxBlocks-1 : n < f.inode[d].size => f.inode[d].blk[n] # 0
  PROVE  f.inode[d].size < MaxBlocks
<1>1. f \in Disks /\ d \in Inums
  BY DEF Sound, Dirs
<1>2. f.inode[d].size \in 0..MaxBlocks /\ MaxBlocks \in Nat /\ MaxBlocks > 0
  BY <1>1, InodeIs, Sizes, HasBlocks
<1> SUFFICES ASSUME f.inode[d].size = MaxBlocks PROVE FALSE
  BY <1>2
<1>3. f.inode[d].blk \in [0..MaxBlocks-1 -> Free]
  <2>1. f.inode[d].blk \in [0..MaxBlocks-1 -> Free \cup {0}]
    BY <1>1, InodeIs
  <2>2. \A n \in 0..MaxBlocks-1 : f.inode[d].blk[n] # 0
    BY <1>2
  <2> QED
    BY <2>1, <2>2
<1>4. IsFiniteSet(0..MaxBlocks-1) /\ Cardinality(0..MaxBlocks-1) = MaxBlocks
  <2>1. 0 \in Int /\ MaxBlocks - 1 \in Int /\ ~(0 > MaxBlocks - 1) /\ (MaxBlocks - 1) - 0 + 1 = MaxBlocks
    BY <1>2
  <2> QED
    BY <2>1, FS_Interval
<1>5. IsFiniteSet(Free) /\ Cardinality(Free) < Cardinality(0..MaxBlocks-1)
  BY <1>4, SizeAssumption, FreeIs
<1>6. PICK n, m \in 0..MaxBlocks-1 : n # m /\ f.inode[d].blk[n] = f.inode[d].blk[m]
  <2>1. PICK S, h : S = 0..MaxBlocks-1 /\ h = f.inode[d].blk
    OBVIOUS
  <2>2. IsFiniteSet(S) /\ Cardinality(Free) < Cardinality(S) /\ h \in [S -> Free]
    BY <1>3, <1>4, <1>5, <2>1
  <2>3. \E x, y \in S : x # y /\ h[x] = h[y]
    BY <1>5, <2>2, FS_PigeonHole
  <2> QED
    BY <2>1, <2>3
<1>7. f.inode[d].blk[n] # 0
  BY <1>2
<1> QED
  BY <1>1, <1>6, <1>7 DEF Sound, OneUse

LEMMA GrownIs ==
  ASSUME NEW f \in Disks, NEW d \in Inums, f.inode[d].size < MaxBlocks, NEW g, g = Grown(f, d)
  PROVE  /\ g \in Disks /\ g.free = f.free /\ g.ents = f.ents
         /\ \A k \in Inums : /\ g.inode[k].mode = f.inode[k].mode /\ g.inode[k].nlink = f.inode[k].nlink
                             /\ g.inode[k].blk = f.inode[k].blk
                             /\ k # d => g.inode[k] = f.inode[k]
         /\ g.inode[d].size = f.inode[d].size + 1
<1>1. f = [free |-> f.free, inode |-> f.inode, ents |-> f.ents]
      /\ f.inode \in [Inums -> Inode] /\ f.free \subseteq Free
      /\ f.ents \in [{0} \cup Free -> [1..BLKDIRENTS -> Entry]]
  BY DiskIs
<1>2. PICK F, I, E : F = f.free /\ I = f.inode /\ E = f.ents
  OBVIOUS
<1>3. PICK x : x = [I[d] EXCEPT !.size = @ + 1]
  OBVIOUS
<1>4. g = [free |-> F, inode |-> [I EXCEPT ![d] = x], ents |-> E]
  <2>1. f = [free |-> F, inode |-> I, ents |-> E]
    BY <1>1, <1>2
  <2>2. [[free |-> F, inode |-> I, ents |-> E] EXCEPT !.inode[d].size = @ + 1]
          = [free |-> F, inode |-> [I EXCEPT ![d].size = @ + 1], ents |-> E]
    BY SMT
  <2> QED
    BY <1>3, <2>1, <2>2 DEF Grown
<1>5. x \in Inode /\ x.mode = f.inode[d].mode /\ x.nlink = f.inode[d].nlink /\ x.blk = f.inode[d].blk
      /\ x.size = f.inode[d].size + 1
  <2>0. f.inode[d] \in Inode /\ f.inode[d].size \in 0..MaxBlocks
    BY InodeIs
  <2>1. f.inode[d].size + 1 \in 0..MaxBlocks
    BY <2>0, Sizes
  <2> QED
    BY <1>2, <1>3, <2>0, <2>1 DEF Inode
<1>6. g.free = F /\ g.ents = E /\ g.inode = [I EXCEPT ![d] = x]
  BY <1>4
<1>7. g.inode \in [Inums -> Inode] /\ g.inode[d] = x /\ \A k \in Inums : k # d => g.inode[k] = f.inode[k]
  BY <1>1, <1>2, <1>5, <1>6
<1>8. g \in Disks
  BY <1>1, <1>2, <1>4, <1>6, <1>7, Types
<1> QED
  BY <1>2, <1>5, <1>6, <1>7, <1>8

LEMMA DirGrown ==
  ASSUME NEW f, Sound(f), NEW d \in Dirs(f),
         \A n \in 0..MaxBlocks-1 : n < f.inode[d].size => f.inode[d].blk[n] # 0,
         NEW g, g = Grown(f, d)
  PROVE  /\ Sound(g) /\ Live(g) = Live(f) /\ Dirs(g) = Dirs(f)
         /\ \A k : SlotsOf(g, k) = SlotsOf(f, k)
         /\ \A k \in Inums : Places(g, k) = Places(f, k)
         /\ g.free = f.free /\ g.ents = f.ents
         /\ f.inode[d].size \in 0..MaxBlocks-1 /\ g.inode[d].size = f.inode[d].size + 1
         /\ g.inode[d].blk[f.inode[d].size] = 0
<1>1. f \in Disks /\ d \in Inums /\ f.inode[d].size < MaxBlocks
  BY RoomLeft DEF Sound, Dirs
<1>2. /\ g \in Disks /\ g.free = f.free /\ g.ents = f.ents
      /\ \A k \in Inums : /\ g.inode[k].mode = f.inode[k].mode /\ g.inode[k].nlink = f.inode[k].nlink
                          /\ g.inode[k].blk = f.inode[k].blk
                          /\ k # d => g.inode[k] = f.inode[k]
      /\ g.inode[d].size = f.inode[d].size + 1
  BY <1>1, GrownIs
<1>3. Live(g) = Live(f) /\ Dirs(g) = Dirs(f)
  BY <1>2 DEF Live, Dirs
<1>4. \A k \in Inums : BlocksOf(g, k) = BlocksOf(f, k)
  BY <1>2 DEF BlocksOf
<1>5. \A k \in Inums : Places(g, k) = Places(f, k)
  BY <1>4 DEF Places
<1>6. \A s : Ent(g, s) = Ent(f, s)
  BY <1>2 DEF Ent
<1>7. ASSUME NEW k PROVE SlotsOf(g, k) = SlotsOf(f, k)
  <2>1. \A x \in Dirs(f) : BlocksOf(g, x) = BlocksOf(f, x)
    BY <1>4 DEF Dirs
  <2>2. UNION {BlocksOf(g, x) : x \in Dirs(g)} = UNION {BlocksOf(f, x) : x \in Dirs(f)}
    BY <1>3, <2>1
  <2> QED
    BY <1>2, <2>2 DEF SlotsOf
<1>8. OneUse(g)
  <2>1. OneUse(f)
    BY DEF Sound
  <2>2. ASSUME NEW x \in Inums, NEW n \in 0..MaxBlocks-1 PROVE g.inode[x].blk[n] = f.inode[x].blk[n]
    BY <1>2, Zenon
  <2>3. ASSUME NEW x \in Inums, NEW y \in Inums, NEW n \in 0..MaxBlocks-1, NEW m \in 0..MaxBlocks-1,
               g.inode[x].blk[n] # 0 /\ g.inode[x].blk[n] = g.inode[y].blk[m]
        PROVE  x = y /\ n = m
    <3>1. f.inode[x].blk[n] # 0 /\ f.inode[x].blk[n] = f.inode[y].blk[m]
      BY <2>2, <2>3
    <3> QED
      BY <2>1, <3>1 DEF OneUse
  <2> QED
    BY <2>3, Zenon DEF OneUse
<1>9. Partition(g)
  BY <1>2, <1>3, <1>4 DEF Partition, Sound
<1>10. f.inode[d].size \in 0..MaxBlocks-1
  <2>1. f.inode[d].size \in 0..MaxBlocks
    BY <1>1, InodeIs
  <2> QED
    BY <1>1, <2>1, Sizes
<1>11. Shapes(f)
  BY DEF Sound
<1>12. Shapes(g)
  <2>1. Root \in Dirs(g) /\ \A k \in Inums \ Live(g) : g.inode[k] = NoInode
    BY <1>2, <1>3, <1>11 DEF Shapes, Dirs, Live
  <2>2. ASSUME NEW e \in Dirs(g), NEW m \in 0..MaxBlocks-1
        PROVE  /\ m >= g.inode[e].size => g.inode[e].blk[m] = 0
               /\ m + 1 < g.inode[e].size => g.inode[e].blk[m] # 0
    <3>1. e \in Dirs(f) /\ e \in Inums
      BY <1>3 DEF Dirs
    <3>2. /\ m >= f.inode[e].size => f.inode[e].blk[m] = 0
          /\ m + 1 < f.inode[e].size => f.inode[e].blk[m] # 0
      BY <1>11, <3>1 DEF Shapes
    <3>3. CASE e = d
      BY <1>2, <1>10, <3>1, <3>2, <3>3
    <3>4. CASE e # d
      BY <1>2, <3>1, <3>2, <3>4
    <3> QED
      BY <3>3, <3>4
  <2> QED
    BY <2>1, <2>2 DEF Shapes
<1>13. Names1(g)
  <2>1. \A x \in Dirs(f) : Places(g, x) = Places(f, x)
    BY <1>5 DEF Dirs
  <2>2. Names1(f)
    BY DEF Sound
  <2>3. ASSUME NEW x \in Dirs(g), NEW s \in Places(g, x)
        PROVE  /\ Ent(g, s) = NoEnt \/ (Ent(g, s).name # "" /\ Ent(g, s).inum \in Live(g) \ {Root})
               /\ \A t \in Places(g, x) : Ent(g, s).name # "" /\ Ent(g, s).name = Ent(g, t).name => s = t
    <3>1. x \in Dirs(f) /\ s \in Places(f, x) /\ Places(g, x) = Places(f, x)
      BY <1>3, <2>1
    <3>2. /\ Ent(f, s) = NoEnt \/ (Ent(f, s).name # "" /\ Ent(f, s).inum \in Live(f) \ {Root})
          /\ \A t \in Places(f, x) : Ent(f, s).name # "" /\ Ent(f, s).name = Ent(f, t).name => s = t
      BY <2>2, <3>1, Zenon DEF Names1
    <3> QED
      BY <1>3, <1>6, <3>1, <3>2
  <2> QED
    BY <2>3, Zenon DEF Names1
<1>14. Links(g)
  BY <1>2, <1>3, <1>7 DEF Links, Sound, Live
<1>15. g.inode[d].blk[f.inode[d].size] = 0
  <2>1. f.inode[d].size >= f.inode[d].size
    BY <1>10
  <2>2. f.inode[d].blk[f.inode[d].size] = 0
    BY <1>10, <1>11, <2>1 DEF Shapes
  <2> QED
    BY <1>1, <1>2, <2>2
<1> QED
  BY <1>2, <1>3, <1>5, <1>7, <1>8, <1>9, <1>10, <1>12, <1>13, <1>14, <1>15 DEF Sound

-----------------------------------------------------------------------------
(* Holes that are filled *)

\* Nothing but holes of directories is different, and what fills them is empty.
Fills(f, g) ==
  /\ g.free \subseteq f.free
  /\ \A i \in Inums : /\ g.inode[i].mode = f.inode[i].mode /\ g.inode[i].nlink = f.inode[i].nlink
                      /\ g.inode[i].size = f.inode[i].size
                      /\ i \notin Dirs(f) => g.inode[i] = f.inode[i]
                      /\ \A n \in 0..MaxBlocks-1 :
                           f.inode[i].blk[n] # 0 => g.inode[i].blk[n] = f.inode[i].blk[n]
  /\ \A d \in Inums : /\ Places(f, d) \subseteq Places(g, d)
                      /\ \A s \in Places(f, d) : Ent(g, s) = Ent(f, s)
                      /\ \A s \in Places(g, d) \ Places(f, d) : Ent(g, s) = NoEnt

LEMMA FillsNothing ==
  ASSUME NEW f PROVE Fills(f, f)
BY DEF Fills

LEMMA FillsDirs ==
  ASSUME NEW f, NEW g, Fills(f, g)
  PROVE  Dirs(g) = Dirs(f) /\ Live(g) = Live(f)
BY DEF Fills, Dirs, Live

LEMMA FillsMore ==
  ASSUME NEW f, NEW g, NEW h, Fills(f, g), Fills(g, h)
  PROVE  Fills(f, h)
<1>1. Dirs(g) = Dirs(f)
  BY FillsDirs
<1>2. h.free \subseteq f.free
  BY DEF Fills
<1>3. ASSUME NEW i \in Inums
      PROVE  /\ h.inode[i].mode = f.inode[i].mode /\ h.inode[i].nlink = f.inode[i].nlink
             /\ h.inode[i].size = f.inode[i].size
             /\ i \notin Dirs(f) => h.inode[i] = f.inode[i]
             /\ \A n \in 0..MaxBlocks-1 :
                  f.inode[i].blk[n] # 0 => h.inode[i].blk[n] = f.inode[i].blk[n]
  BY <1>1 DEF Fills
<1>4. ASSUME NEW d \in Inums
      PROVE  /\ Places(f, d) \subseteq Places(h, d)
             /\ \A s \in Places(f, d) : Ent(h, s) = Ent(f, s)
             /\ \A s \in Places(h, d) \ Places(f, d) : Ent(h, s) = NoEnt
  <2>1. /\ Places(f, d) \subseteq Places(g, d)
        /\ \A s \in Places(f, d) : Ent(g, s) = Ent(f, s)
        /\ \A s \in Places(g, d) \ Places(f, d) : Ent(g, s) = NoEnt
    BY DEF Fills
  <2>2. /\ Places(g, d) \subseteq Places(h, d)
        /\ \A s \in Places(g, d) : Ent(h, s) = Ent(g, s)
        /\ \A s \in Places(h, d) \ Places(g, d) : Ent(h, s) = NoEnt
    BY DEF Fills
  <2> QED
    BY <2>1, <2>2
<1> QED
  BY <1>2, <1>3, <1>4, Zenon DEF Fills

LEMMA HoleFilled ==
  ASSUME NEW f, Sound(f), NEW d \in Dirs(f), NEW n \in 0..MaxBlocks-1, f.inode[d].blk[n] = 0,
         f.inode[d].size = n + 1, NEW b \in f.free, NEW g, g = WithBlock(f, d, n, b)
  PROVE  Fills(f, g) /\ Sound(g) /\ g.inode[d].blk[n] = b
<1>1. f \in Disks /\ d \in Inums /\ d \in Live(f)
  BY DEF Sound, Dirs, Live
<1>2. Sound(g)
  BY <1>1, BlockAdded
<1>3. /\ g.free = f.free \ {b}
      /\ \A k \in Inums : /\ g.inode[k].mode = f.inode[k].mode /\ g.inode[k].nlink = f.inode[k].nlink
                          /\ g.inode[k].size = f.inode[k].size
                          /\ k # d => g.inode[k] = f.inode[k]
      /\ \A k \in Inums : \A m \in 0..MaxBlocks-1 :
           g.inode[k].blk[m] = IF k = d /\ m = n THEN b ELSE f.inode[k].blk[m]
  BY <1>1, WithBlockIs
<1>4. /\ \A k \in Inums : \A s : s \in Places(g, k) <=>
             s \in Places(f, k) \/ (k = d /\ s \in Cells /\ s[1] = b)
      /\ \A k \in Inums : \A s \in Places(f, k) : s[1] # b /\ Ent(g, s) = Ent(f, s)
      /\ \A s \in Cells : s[1] = b => Ent(g, s) = NoEnt
  BY <1>1, AddedPlaces
<1>5. ASSUME NEW i \in Inums
      PROVE  /\ g.inode[i].mode = f.inode[i].mode /\ g.inode[i].nlink = f.inode[i].nlink
             /\ g.inode[i].size = f.inode[i].size
             /\ i \notin Dirs(f) => g.inode[i] = f.inode[i]
             /\ \A m \in 0..MaxBlocks-1 :
                  f.inode[i].blk[m] # 0 => g.inode[i].blk[m] = f.inode[i].blk[m]
  BY <1>3
<1>6. ASSUME NEW i \in Inums
      PROVE  /\ Places(f, i) \subseteq Places(g, i)
             /\ \A s \in Places(f, i) : Ent(g, s) = Ent(f, s)
             /\ \A s \in Places(g, i) \ Places(f, i) : Ent(g, s) = NoEnt
  BY <1>4
<1>7. g.free \subseteq f.free
  BY <1>3
<1> QED
  BY <1>1, <1>2, <1>3, <1>5, <1>6, <1>7, Zenon DEF Fills

\* The same names in the same places, whatever room there is for others.
SameNames(f, g) ==
  /\ g.free \subseteq f.free
  /\ \A i \in Inums : /\ g.inode[i].mode = f.inode[i].mode /\ g.inode[i].nlink = f.inode[i].nlink
                      /\ i \notin Dirs(f) => g.inode[i] = f.inode[i]
  /\ \A d \in Inums : /\ Places(f, d) \subseteq Places(g, d)
                      /\ \A s \in Places(f, d) : Ent(g, s) = Ent(f, s)
                      /\ \A s \in Places(g, d) \ Places(f, d) : Ent(g, s) = NoEnt

LEMMA FillsSame ==
  ASSUME NEW f, NEW g, Fills(f, g)
  PROVE  SameNames(f, g)
BY Zenon DEF Fills, SameNames

LEMMA SameDirs ==
  ASSUME NEW f, NEW g, SameNames(f, g)
  PROVE  Dirs(g) = Dirs(f) /\ Live(g) = Live(f)
BY DEF SameNames, Dirs, Live

LEMMA SameMore ==
  ASSUME NEW f, NEW g, NEW h, SameNames(f, g), SameNames(g, h)
  PROVE  SameNames(f, h)
<1>1. Dirs(g) = Dirs(f)
  BY SameDirs
<1>2. h.free \subseteq f.free
  BY DEF SameNames
<1>3. ASSUME NEW i \in Inums
      PROVE  /\ h.inode[i].mode = f.inode[i].mode /\ h.inode[i].nlink = f.inode[i].nlink
             /\ i \notin Dirs(f) => h.inode[i] = f.inode[i]
  BY <1>1 DEF SameNames
<1>4. ASSUME NEW d \in Inums
      PROVE  /\ Places(f, d) \subseteq Places(h, d)
             /\ \A s \in Places(f, d) : Ent(h, s) = Ent(f, s)
             /\ \A s \in Places(h, d) \ Places(f, d) : Ent(h, s) = NoEnt
  <2>1. /\ Places(f, d) \subseteq Places(g, d)
        /\ \A s \in Places(f, d) : Ent(g, s) = Ent(f, s)
        /\ \A s \in Places(g, d) \ Places(f, d) : Ent(g, s) = NoEnt
    BY DEF SameNames
  <2>2. /\ Places(g, d) \subseteq Places(h, d)
        /\ \A s \in Places(g, d) : Ent(h, s) = Ent(g, s)
        /\ \A s \in Places(h, d) \ Places(g, d) : Ent(h, s) = NoEnt
    BY DEF SameNames
  <2> QED
    BY <2>1, <2>2
<1> QED
  BY <1>2, <1>3, <1>4, Zenon DEF SameNames

\* A name that is there stays where it is, and no other comes.
LEMMA SameSlots ==
  ASSUME NEW f, NEW g, Sound(f), Sound(g), SameNames(f, g), NEW k \in Inums
  PROVE  SlotsOf(g, k) = SlotsOf(f, k)
<1>1. Dirs(g) = Dirs(f) /\ f \in Disks /\ g \in Disks /\ \A d \in Dirs(f) : d \in Inums
  BY SameDirs DEF Sound, Dirs
<1>2. k # 0 /\ NoEnt.inum = 0
  BY Basics DEF NoEnt
<1>3. \A d \in Inums : /\ Places(f, d) \subseteq Places(g, d)
                       /\ \A s \in Places(f, d) : Ent(g, s) = Ent(f, s)
                       /\ \A s \in Places(g, d) \ Places(f, d) : Ent(g, s) = NoEnt
  BY DEF SameNames
<1>4. ASSUME NEW s PROVE s \in SlotsOf(g, k) <=> s \in SlotsOf(f, k)
  <2>1. s \in SlotsOf(g, k) <=> (\E d \in Dirs(g) : s \in Places(g, d)) /\ Ent(g, s).inum = k
    BY <1>1, SlotIs
  <2>2. s \in SlotsOf(f, k) <=> (\E d \in Dirs(f) : s \in Places(f, d)) /\ Ent(f, s).inum = k
    BY <1>1, SlotIs
  <2>3. ASSUME s \in SlotsOf(f, k) PROVE s \in SlotsOf(g, k)
    <3>1. PICK d \in Dirs(f) : s \in Places(f, d)
      BY <2>2, <2>3
    <3>2. s \in Places(g, d) /\ Ent(g, s) = Ent(f, s) /\ d \in Dirs(g)
      BY <1>1, <1>3, <3>1
    <3> QED
      BY <2>1, <2>2, <2>3, <3>2
  <2>4. ASSUME s \in SlotsOf(g, k) PROVE s \in SlotsOf(f, k)
    <3>1. PICK d \in Dirs(g) : s \in Places(g, d)
      BY <2>1, <2>4
    <3>2. Ent(g, s) # NoEnt
      BY <1>2, <2>1, <2>4
    <3>3. s \in Places(f, d) /\ Ent(g, s) = Ent(f, s) /\ d \in Dirs(f)
      <4>1. d \in Dirs(f) /\ d \in Inums
        BY <1>1
      <4>2. \A t \in Places(g, d) \ Places(f, d) : Ent(g, t) = NoEnt
        BY <4>1, Zenon DEF SameNames
      <4>3. s \in Places(f, d)
        BY <3>1, <3>2, <4>2
      <4> QED
        BY <1>3, <4>1, <4>3
    <3> QED
      BY <2>1, <2>2, <2>4, <3>3
  <2> QED
    BY <2>3, <2>4
<1> QED
  BY <1>4

-----------------------------------------------------------------------------
(* Scanning a directory *)

ScanStart(f) == [r |-> "ENOENT", fs |-> f, slot |-> <<0, 0>>]

ScanRule(f, dir, wanted, m, g) ==
  [n \in 0..m |-> IF n = 0 THEN ScanStart(f) ELSE ScanTurn(g[n-1], dir, wanted, n - 1)]

\* The turns of the loop are defined.
LEMMA ScanTurns ==
  ASSUME NEW f, NEW dir, NEW wanted, NEW m \in Nat
  PROVE  \E g : g = ScanRule(f, dir, wanted, m, g)
<1> DEFINE P == {k \in Nat : \E g : g = ScanRule(f, dir, wanted, k, g)}
<1>1. 0 \in P
  <2>1. PICK g : g = [n \in 0..0 |-> ScanStart(f)]
    OBVIOUS
  <2>2. g = ScanRule(f, dir, wanted, 0, g)
    BY <2>1 DEF ScanRule
  <2> QED
    BY <2>2
<1>2. ASSUME NEW k \in Nat, k \in P PROVE k + 1 \in P
  <2>1. PICK g : g = ScanRule(f, dir, wanted, k, g)
    BY <1>2
  <2>2. PICK h : h = [n \in 0..k+1 |-> IF n = k + 1 THEN ScanTurn(g[k], dir, wanted, k) ELSE g[n]]
    OBVIOUS
  <2>3. \A n \in 0..k : h[n] = g[n]
    BY <2>2
  <2>4. ASSUME NEW n \in 0..k+1
        PROVE  h[n] = IF n = 0 THEN ScanStart(f) ELSE ScanTurn(h[n-1], dir, wanted, n - 1)
    <3>1. CASE n = k + 1
      <4>1. h[n] = ScanTurn(g[k], dir, wanted, k)
        BY <2>2, <3>1
      <4>2. n # 0 /\ n - 1 = k /\ k \in 0..k
        BY <3>1
      <4>3. h[n - 1] = g[k]
        BY <2>3, <4>2
      <4> QED
        BY <4>1, <4>2, <4>3, Zenon
    <3>2. CASE n # k + 1
      <4>1. n \in 0..k
        BY <3>2
      <4>2. g[n] = IF n = 0 THEN ScanStart(f) ELSE ScanTurn(g[n-1], dir, wanted, n - 1)
        BY <2>1, <4>1 DEF ScanRule
      <4>3. n # 0 => n - 1 \in 0..k
        BY <4>1
      <4>4. n # 0 => h[n - 1] = g[n - 1]
        BY <2>3, <4>3
      <4>5. h[n] = g[n]
        BY <2>3, <4>1
      <4> QED
        BY <4>2, <4>4, <4>5, Zenon
    <3> QED
      BY <3>1, <3>2
  <2>5. h = ScanRule(f, dir, wanted, k + 1, h)
    BY <2>2, <2>4 DEF ScanRule
  <2> QED
    BY <2>5
<1> HIDE DEF P
<1>3. Nat \subseteq P
  BY <1>1, <1>2, SetInduction
<1> QED
  BY <1>3 DEF P

\* In the blocks below n there is nothing wanted, and no hole.
NoneBelow(g, dir, wanted, n) ==
  \A m \in 0..MaxBlocks-1 : m < n =>
    /\ g.inode[dir].blk[m] # 0
    /\ \A j \in 1..BLKDIRENTS : g.ents[g.inode[dir].blk[m]][j].name \notin wanted

\* How far a scan has come.
ScanSoFar(f, dir, wanted, n, p) ==
  /\ p = [r |-> p.r, fs |-> p.fs, slot |-> p.slot] /\ p.r \in {"ok", "ENOENT", "ENOSPC"}
  /\ Sound(p.fs) /\ Fills(f, p.fs)
  /\ p.r = "ok" => p.slot \in Places(p.fs, dir) /\ Ent(p.fs, p.slot).name \in wanted
  /\ p.r = "ENOENT" => NoneBelow(p.fs, dir, wanted, n)
  /\ p.r = "ENOSPC" =>
       /\ p.fs.free = {}
       /\ \E k \in 0..MaxBlocks-1 : /\ p.fs.inode[dir].size = k + 1 /\ p.fs.inode[dir].blk[k] = 0
                                    /\ NoneBelow(p.fs, dir, wanted, k)

LEMMA ScanTurnIs ==
  ASSUME NEW f, NEW dir \in Dirs(f), NEW wanted, NEW n \in 0..MaxBlocks-1, n < f.inode[dir].size,
         NEW p, ScanSoFar(f, dir, wanted, n, p), NEW q, q = ScanTurn(p, dir, wanted, n)
  PROVE  ScanSoFar(f, dir, wanted, n + 1, q)
<1>1. CASE p.r # "ENOENT"
  <2>1. q = p
    BY <1>1 DEF ScanTurn
  <2> QED
    BY <1>1, <2>1 DEF ScanSoFar
<1>2. CASE p.r = "ENOENT"
  <2>0. PICK h, slot : h = p.fs /\ slot = p.slot
    OBVIOUS
  <2>1. /\ Sound(h) /\ Fills(f, h) /\ h \in Disks /\ NoneBelow(h, dir, wanted, n)
        /\ p = [r |-> "ENOENT", fs |-> h, slot |-> slot]
    BY <1>2, <2>0 DEF ScanSoFar, Sound
  <2>2. dir \in Dirs(h) /\ dir \in Inums /\ h.inode[dir].size = f.inode[dir].size
    BY <2>1, FillsDirs DEF Fills, Dirs
  <2>3. PICK g : g = inode_get_block(h, dir, n)
    OBVIOUS
  <2>4. \/ g.r = "ok" /\ g.fs = h /\ g.b = h.inode[dir].blk[n] /\ g.b # 0
        \/ /\ h.inode[dir].blk[n] = 0 /\ g.r = "ok" /\ g.b \in h.free
           /\ g.fs = WithBlock(h, dir, n, g.b)
        \/ h.inode[dir].blk[n] = 0 /\ h.free = {} /\ g.r = "ENOSPC" /\ g.fs = h
    BY <2>1, <2>2, <2>3, GetBlock
  <2>5. h.inode[dir].blk[n] = 0 => h.inode[dir].size = n + 1
    <3>1. n + 1 < h.inode[dir].size => h.inode[dir].blk[n] # 0
      BY <2>1, <2>2 DEF Sound, Shapes
    <3>2. h.inode[dir].size \in 0..MaxBlocks
      BY <2>1, <2>2, InodeIs
    <3> QED
      BY <2>2, <3>1, <3>2
  <2>6. CASE g.r = "ok"
    <3>1. PICK k, b : k = g.fs /\ b = g.b
      OBVIOUS
    <3>2. Sound(k) /\ Fills(h, k) /\ k.inode[dir].blk[n] = b /\ b # 0
      <4>1. CASE k = h /\ b = h.inode[dir].blk[n] /\ b # 0
        BY <2>1, <4>1, FillsNothing
      <4>2. CASE h.inode[dir].blk[n] = 0 /\ b \in h.free /\ k = WithBlock(h, dir, n, b)
        <5>1. b # 0
          BY <2>1, <4>2, DiskIs, Basics
        <5> QED
          BY <2>1, <2>2, <2>5, <4>2, <5>1, HoleFilled
      <4> QED
        BY <2>4, <2>6, <3>1, <4>1, <4>2
    <3>3. k \in Disks /\ b \in Free /\ Fills(f, k)
      <4>1. k \in Disks
        BY <3>2 DEF Sound
      <4> QED
        BY <2>1, <2>2, <3>2, <4>1, InodeIs, FillsMore
    <3>4. PICK hits : hits = {j \in 1..BLKDIRENTS : k.ents[b][j].name \in wanted}
      OBVIOUS
    <3>5. q = IF hits = {} THEN [p EXCEPT !.fs = k] ELSE [r |-> "ok", fs |-> k, slot |-> <<b, Least(hits)>>]
      BY <1>2, <2>0, <2>3, <2>6, <3>1, <3>4 DEF ScanTurn
    <3>6. CASE hits = {}
      <4>1. q = [r |-> "ENOENT", fs |-> k, slot |-> slot]
        BY <2>1, <3>5, <3>6
      <4>2. ASSUME NEW m \in 0..MaxBlocks-1, m < n + 1
            PROVE  /\ k.inode[dir].blk[m] # 0
                   /\ \A j \in 1..BLKDIRENTS : k.ents[k.inode[dir].blk[m]][j].name \notin wanted
        <5>1. CASE m = n
          <6>1. k.inode[dir].blk[m] = b /\ b # 0
            BY <3>2, <3>3, <5>1, Basics
          <6>2. \A j \in 1..BLKDIRENTS : k.ents[b][j].name \notin wanted
            BY <3>4, <3>6, Zenon
          <6> QED
            BY <6>1, <6>2, Zenon
        <5>2. CASE m < n
          <6>1. /\ h.inode[dir].blk[m] # 0
                /\ \A j \in 1..BLKDIRENTS : h.ents[h.inode[dir].blk[m]][j].name \notin wanted
            BY <2>1, <5>2 DEF NoneBelow
          <6>2. PICK c : c = h.inode[dir].blk[m]
            OBVIOUS
          <6>3. k.inode[dir].blk[m] = c /\ c \in Free
            <7>1. h.inode[dir].blk[m] \in Free \cup {0}
              BY <2>1, <2>2, InodeIs
            <7>2. k.inode[dir].blk[m] = h.inode[dir].blk[m]
              BY <2>2, <3>2, <6>1 DEF Fills
            <7> QED
              BY <6>1, <6>2, <7>1, <7>2
          <6>4. ASSUME NEW j \in 1..BLKDIRENTS PROVE k.ents[c][j].name \notin wanted
            <7>1. <<c, j>> \in Places(h, dir)
              BY <2>1, <2>2, <6>2, <6>3, PlaceIs DEF Cells
            <7>2. Ent(k, <<c, j>>) = Ent(h, <<c, j>>)
              BY <2>2, <3>2, <7>1 DEF Fills
            <7> QED
              BY <6>1, <6>2, <7>2 DEF Ent
          <6> QED
            BY <6>3, <6>4, <6>1, <6>2
        <5>3. m = n \/ m < n
          BY <4>2
        <5> QED
          BY <5>1, <5>2, <5>3, Zenon
      <4>3. NoneBelow(k, dir, wanted, n + 1)
        BY <4>2 DEF NoneBelow
      <4> QED
        BY <3>2, <3>3, <4>1, <4>3 DEF ScanSoFar
    <3>7. CASE hits # {}
      <4>1. PICK j : j = Least(hits)
        OBVIOUS
      <4>2. j \in 1..BLKDIRENTS /\ k.ents[b][j].name \in wanted
        <5>1. hits \in SUBSET Nat
          BY <3>4
        <5>2. j \in hits
          BY <3>7, <4>1, <5>1, LeastIs
        <5> QED
          BY <3>4, <5>2
      <4>3. q = [r |-> "ok", fs |-> k, slot |-> <<b, j>>]
        BY <3>5, <3>7, <4>1
      <4>4. <<b, j>> \in Places(k, dir)
        BY <2>2, <3>2, <3>3, <4>2, PlaceIs DEF Cells
      <4>5. Ent(k, <<b, j>>).name \in wanted
        BY <4>2 DEF Ent
      <4> QED
        BY <3>2, <3>3, <4>3, <4>4, <4>5 DEF ScanSoFar
    <3> QED
      BY <3>6, <3>7
  <2>7. CASE g.r # "ok"
    <3>1. h.inode[dir].blk[n] = 0 /\ h.free = {} /\ g.r = "ENOSPC" /\ g.fs = h
      BY <2>4, <2>7
    <3>2. q = [p EXCEPT !.r = g.r, !.fs = g.fs]
      BY <1>2, <2>0, <2>3, <2>7 DEF ScanTurn
    <3>3. q = [r |-> "ENOSPC", fs |-> h, slot |-> slot]
      BY <2>1, <3>1, <3>2
    <3> QED
      BY <2>1, <2>5, <3>1, <3>3 DEF ScanSoFar
  <2> QED
    BY <2>6, <2>7
<1> QED
  BY <1>1, <1>2

RealNames(wanted) == "" \notin wanted

\* A hole is filled only by a scan that comes to its end without a find.
ScanLeaves(f, dir, wanted, n, p) ==
  /\ p.r = "ok" => p.fs = f
  /\ p.r = "ENOENT" => p.fs = f \/ n = f.inode[dir].size
  /\ p.r = "ENOSPC" => p.fs = f

LEMMA ScanTurnLeaves ==
  ASSUME NEW f, Sound(f), NEW dir \in Dirs(f), NEW wanted, RealNames(wanted),
         NEW n \in 0..MaxBlocks-1, n < f.inode[dir].size,
         NEW p, ScanSoFar(f, dir, wanted, n, p), ScanLeaves(f, dir, wanted, n, p),
         NEW q, q = ScanTurn(p, dir, wanted, n)
  PROVE  ScanLeaves(f, dir, wanted, n + 1, q)
<1>1. CASE p.r # "ENOENT"
  <2>1. q = p
    BY <1>1 DEF ScanTurn
  <2> QED
    BY <1>1, <2>1 DEF ScanLeaves
<1>2. CASE p.r = "ENOENT"
  <2>1. p.fs = f
    BY <1>2 DEF ScanLeaves
  <2>2. p = [r |-> "ENOENT", fs |-> f, slot |-> p.slot]
    BY <1>2, <2>1 DEF ScanSoFar
  <2>3. PICK slot : slot = p.slot
    OBVIOUS
  <2>4. PICK g : g = inode_get_block(f, dir, n)
    OBVIOUS
  <2>5. f \in Disks /\ dir \in Inums
    BY DEF Sound, Dirs
  <2>6. \/ g.r = "ok" /\ g.fs = f /\ g.b = f.inode[dir].blk[n] /\ g.b # 0
        \/ /\ f.inode[dir].blk[n] = 0 /\ g.r = "ok" /\ g.b \in f.free
           /\ g.fs = WithBlock(f, dir, n, g.b)
        \/ f.inode[dir].blk[n] = 0 /\ f.free = {} /\ g.r = "ENOSPC" /\ g.fs = f
    BY <2>4, <2>5, GetBlock
  <2>7. CASE g.r # "ok"
    <3>1. q = [p EXCEPT !.r = g.r, !.fs = g.fs]
      BY <1>2, <2>1, <2>4, <2>7 DEF ScanTurn
    <3>2. q.r = "ENOSPC" /\ q.fs = f
      BY <2>2, <2>6, <2>7, <3>1
    <3> QED
      BY <3>2 DEF ScanLeaves
  <2>8. CASE g.r = "ok"
    <3>1. PICK k, b : k = g.fs /\ b = g.b
      OBVIOUS
    <3>2. PICK hits : hits = {j \in 1..BLKDIRENTS : k.ents[b][j].name \in wanted}
      OBVIOUS
    <3>3. q = IF hits = {} THEN [p EXCEPT !.fs = k] ELSE [r |-> "ok", fs |-> k, slot |-> <<b, Least(hits)>>]
      BY <1>2, <2>1, <2>4, <2>8, <3>1, <3>2 DEF ScanTurn
    <3>4. /\ hits = {} => q.r = "ENOENT" /\ q.fs = k
          /\ hits # {} => q.r = "ok" /\ q.fs = k
      BY <2>2, <3>3
    <3>5. CASE g.fs = f
      BY <3>1, <3>4, <3>5 DEF ScanLeaves
    <3>6. CASE f.inode[dir].blk[n] = 0 /\ b \in f.free /\ k = WithBlock(f, dir, n, b)
      <4>1. k.ents[b] = EmptyBlk
        BY <2>5, <3>6, WithBlockIs
      <4>2. hits = {}
        <5>1. \A j \in 1..BLKDIRENTS : k.ents[b][j].name = ""
          <6>1. \A j \in 1..BLKDIRENTS : k.ents[b][j] = NoEnt
            BY <4>1 DEF EmptyBlk
          <6>2. NoEnt.name = ""
            BY DEF NoEnt
          <6> QED
            BY <6>1, <6>2
        <5> QED
          BY <3>2, <5>1 DEF RealNames
      <4>3. n + 1 = f.inode[dir].size
        <5>1. n + 1 < f.inode[dir].size => f.inode[dir].blk[n] # 0
          BY DEF Sound, Shapes
        <5>2. f.inode[dir].size \in 0..MaxBlocks
          BY <2>5, InodeIs
        <5> QED
          BY <3>6, <5>1, <5>2
      <4> QED
        BY <3>4, <4>2, <4>3 DEF ScanLeaves
    <3> QED
      BY <2>6, <2>8, <3>1, <3>5, <3>6
  <2> QED
    BY <2>7, <2>8
<1> QED
  BY <1>1, <1>2

LEMMA ScanLoop ==
  ASSUME NEW f, Sound(f), NEW dir \in Dirs(f), NEW wanted
  PROVE  /\ ScanSoFar(f, dir, wanted, f.inode[dir].size, ScanDir(f, dir, wanted))
         /\ RealNames(wanted) => ScanLeaves(f, dir, wanted, f.inode[dir].size, ScanDir(f, dir, wanted))
<1> DEFINE N == f.inode[dir].size
<1>0. f \in Disks /\ dir \in Inums /\ N \in Nat /\ N <= MaxBlocks /\ MaxBlocks \in Nat
  <2>1. f \in Disks /\ dir \in Inums
    BY DEF Sound, Dirs
  <2>2. N \in 0..MaxBlocks /\ MaxBlocks \in Nat
    BY <2>1, InodeIs, Sizes
  <2> QED
    BY <2>1, <2>2
<1>1. PICK h : h = CHOOSE g : g = ScanRule(f, dir, wanted, N, g)
  OBVIOUS
<1>2. h = ScanRule(f, dir, wanted, N, h)
  <2>1. \E g : g = ScanRule(f, dir, wanted, N, g)
    BY <1>0, ScanTurns
  <2> QED
    BY <1>1, <2>1, Zenon
<1>3. ScanDir(f, dir, wanted) = h[N]
  BY <1>1, Zenon DEF ScanDir, ScanRule, ScanStart, nblock
<1> HIDE DEF N
<1> DEFINE Good(n) == /\ ScanSoFar(f, dir, wanted, n, h[n])
                      /\ RealNames(wanted) => ScanLeaves(f, dir, wanted, n, h[n])
<1> DEFINE P == {n \in Nat : n <= N => Good(n)}
<1>4. 0 \in P
  <2>1. h[0] = ScanStart(f)
    BY <1>0, <1>2 DEF ScanRule
  <2>2. NoneBelow(f, dir, wanted, 0)
    BY DEF NoneBelow
  <2>3. ScanSoFar(f, dir, wanted, 0, ScanStart(f))
    BY <2>2, FillsNothing DEF ScanSoFar, ScanStart
  <2>4. ScanLeaves(f, dir, wanted, 0, ScanStart(f))
    BY DEF ScanLeaves, ScanStart
  <2> QED
    BY <2>1, <2>3, <2>4
<1>5. ASSUME NEW n \in Nat, n \in P PROVE n + 1 \in P
  <2> SUFFICES ASSUME n + 1 <= N PROVE Good(n + 1)
    OBVIOUS
  <2>1. n \in 0..MaxBlocks-1 /\ n < N /\ n + 1 \in 0..N /\ n + 1 # 0 /\ (n + 1) - 1 = n
    BY <1>0
  <2>2. Good(n)
    <3>1. n <= N
      BY <1>0
    <3>2. n <= N => Good(n)
      BY <1>5, Zenon
    <3> QED
      BY <3>1, <3>2
  <2>3. h[n + 1] = ScanTurn(h[n], dir, wanted, n)
    <3>1. h[n + 1] = IF n + 1 = 0 THEN ScanStart(f) ELSE ScanTurn(h[(n + 1) - 1], dir, wanted, (n + 1) - 1)
      BY <1>2, <2>1, Zenon DEF ScanRule
    <3> QED
      BY <2>1, <3>1
  <2>4. n < f.inode[dir].size
    BY <2>1 DEF N
  <2>5. ScanSoFar(f, dir, wanted, n + 1, h[n + 1])
    BY <2>1, <2>2, <2>3, <2>4, ScanTurnIs
  <2>6. RealNames(wanted) => ScanLeaves(f, dir, wanted, n + 1, h[n + 1])
    BY <2>1, <2>2, <2>3, <2>4, ScanTurnLeaves
  <2> QED
    BY <2>5, <2>6
<1> HIDE DEF P
<1>6. N \in P
  BY <1>0, <1>4, <1>5, SetInduction
<1>7. Good(N)
  BY <1>0, <1>6 DEF P
<1> QED
  BY <1>3, <1>7 DEF N

\* What dir_lookup, and the loops like it, find and leave.
LEMMA ScanIs ==
  ASSUME NEW f, Sound(f), NEW dir \in Dirs(f), NEW wanted, NEW s, s = ScanDir(f, dir, wanted)
  PROVE  /\ s = [r |-> s.r, fs |-> s.fs, slot |-> s.slot] /\ s.r \in {"ok", "ENOENT", "ENOSPC"}
         /\ Sound(s.fs) /\ Fills(f, s.fs)
         /\ s.r = "ok" => s.slot \in Places(s.fs, dir) /\ Ent(s.fs, s.slot).name \in wanted
         /\ s.r # "ok" => \A t \in Places(s.fs, dir) : Ent(s.fs, t).name \notin wanted
         /\ s.r = "ENOENT" => \A n \in 0..MaxBlocks-1 :
                                n < s.fs.inode[dir].size => s.fs.inode[dir].blk[n] # 0
         /\ s.r = "ENOSPC" => s.fs.free = {} /\ Hole(s.fs)
<1>1. ScanSoFar(f, dir, wanted, f.inode[dir].size, s)
  BY ScanLoop
<1>2. PICK g : g = s.fs
  OBVIOUS
<1>3. /\ s = [r |-> s.r, fs |-> g, slot |-> s.slot] /\ s.r \in {"ok", "ENOENT", "ENOSPC"}
      /\ Sound(g) /\ Fills(f, g) /\ g \in Disks
      /\ s.r = "ok" => s.slot \in Places(g, dir) /\ Ent(g, s.slot).name \in wanted
  BY <1>1, <1>2 DEF ScanSoFar, Sound
<1>4. dir \in Inums /\ dir \in Dirs(g) /\ g.inode[dir].size = f.inode[dir].size
  BY <1>3, FillsDirs DEF Fills, Dirs
<1>5. g.inode[dir].size \in Nat /\ \A n \in 0..MaxBlocks-1 :
        /\ n >= g.inode[dir].size => g.inode[dir].blk[n] = 0
        /\ n + 1 < g.inode[dir].size => g.inode[dir].blk[n] # 0
  <2>1. g.inode[dir].size \in 0..MaxBlocks
    BY <1>3, <1>4, InodeIs
  <2> QED
    BY <1>3, <1>4, <2>1 DEF Sound, Shapes
\* A place is in a block below k, unless k is the hole.
<1>6. ASSUME NEW k \in Nat, NoneBelow(g, dir, wanted, k),
             \A n \in 0..MaxBlocks-1 : n >= k => g.inode[dir].blk[n] = 0,
             NEW t \in Places(g, dir)
      PROVE  Ent(g, t).name \notin wanted
  <2>1. t \in Cells /\ \E n \in 0..MaxBlocks-1 : g.inode[dir].blk[n] = t[1]
    BY <1>3, <1>4, PlaceIs
  <2>2. PICK n \in 0..MaxBlocks-1 : g.inode[dir].blk[n] = t[1]
    BY <2>1
  <2>3. t[1] # 0 /\ t[2] \in 1..BLKDIRENTS
    BY <2>1, Basics DEF Cells
  <2>4. n < k
    BY <1>6, <2>2, <2>3
  <2> QED
    BY <1>6, <2>2, <2>3, <2>4 DEF NoneBelow, Ent
<1>7. ASSUME s.r = "ENOENT"
      PROVE  /\ \A t \in Places(g, dir) : Ent(g, t).name \notin wanted
             /\ \A n \in 0..MaxBlocks-1 : n < g.inode[dir].size => g.inode[dir].blk[n] # 0
  <2>1. NoneBelow(g, dir, wanted, g.inode[dir].size)
    BY <1>1, <1>2, <1>4, <1>7 DEF ScanSoFar
  <2>2. \A t \in Places(g, dir) : Ent(g, t).name \notin wanted
    BY <1>5, <1>6, <2>1
  <2> QED
    BY <2>1, <2>2 DEF NoneBelow
<1>8. ASSUME s.r = "ENOSPC"
      PROVE  g.free = {} /\ Hole(g) /\ \A t \in Places(g, dir) : Ent(g, t).name \notin wanted
  <2>1. /\ g.free = {}
        /\ \E k \in 0..MaxBlocks-1 : /\ g.inode[dir].size = k + 1 /\ g.inode[dir].blk[k] = 0
                                     /\ NoneBelow(g, dir, wanted, k)
    BY <1>1, <1>2, <1>8 DEF ScanSoFar
  <2>2. PICK k \in 0..MaxBlocks-1 : /\ g.inode[dir].size = k + 1 /\ g.inode[dir].blk[k] = 0
                                    /\ NoneBelow(g, dir, wanted, k)
    BY <2>1
  <2>3. \A n \in 0..MaxBlocks-1 : n >= k => g.inode[dir].blk[n] = 0
    BY <1>5, <2>2
  <2>4. \A t \in Places(g, dir) : Ent(g, t).name \notin wanted
    BY <1>6, <2>2, <2>3
  <2>5. Hole(g)
    <3>1. g.inode[dir].size > 0 /\ g.inode[dir].size - 1 = k
      BY <2>2
    <3> QED
      BY <1>4, <2>2, <3>1 DEF Hole
  <2> QED
    BY <2>1, <2>4, <2>5
<1> QED
  BY <1>2, <1>3, <1>7, <1>8

\* Only a search that looks for what is not there changes the disk.
LEMMA ScanLeft ==
  ASSUME NEW f, Sound(f), NEW dir \in Dirs(f), NEW wanted, RealNames(wanted),
         NEW s, s = ScanDir(f, dir, wanted), s.r # "ENOENT"
  PROVE  s.fs = f
<1>1. ScanLeaves(f, dir, wanted, f.inode[dir].size, s)
  BY ScanLoop
<1>2. s.r \in {"ok", "ENOSPC"}
  BY ScanIs
<1> QED
  BY <1>1, <1>2 DEF ScanLeaves

-----------------------------------------------------------------------------
(* A place for a new entry *)

LEMMA DirentIs ==
  ASSUME NEW f, Sound(f), NEW dir \in Dirs(f), NEW d, d = dir_alloc_dirent(f, dir)
  PROVE  /\ d = [r |-> d.r, fs |-> d.fs, slot |-> d.slot] /\ d.r \in {"ok", "ENOSPC"}
         /\ Sound(d.fs) /\ SameNames(f, d.fs)
         /\ d.r = "ok" => d.slot \in Places(d.fs, dir) /\ Ent(d.fs, d.slot) = NoEnt
         /\ d.r = "ENOSPC" => d.fs.free = {} /\ Hole(d.fs) /\ \A t \in Places(f, dir) : Ent(f, t) # NoEnt
<1>1. PICK s : s = ScanDir(f, dir, {""})
  OBVIOUS
<1>2. PICK h : h = s.fs
  OBVIOUS
<1>3. /\ s = [r |-> s.r, fs |-> h, slot |-> s.slot] /\ s.r \in {"ok", "ENOENT", "ENOSPC"}
      /\ Sound(h) /\ Fills(f, h)
      /\ s.r = "ok" => s.slot \in Places(h, dir) /\ Ent(h, s.slot).name \in {""}
      /\ s.r = "ENOENT" => \A n \in 0..MaxBlocks-1 : n < h.inode[dir].size => h.inode[dir].blk[n] # 0
      /\ s.r = "ENOSPC" => h.free = {} /\ Hole(h)
  <2>1. PICK wanted : wanted = {""}
    OBVIOUS
  <2>2. s = ScanDir(f, dir, wanted)
    BY <1>1, <2>1
  <2>3. /\ s = [r |-> s.r, fs |-> s.fs, slot |-> s.slot] /\ s.r \in {"ok", "ENOENT", "ENOSPC"}
        /\ Sound(s.fs) /\ Fills(f, s.fs)
        /\ s.r = "ok" => s.slot \in Places(s.fs, dir) /\ Ent(s.fs, s.slot).name \in wanted
        /\ s.r = "ENOENT" => \A n \in 0..MaxBlocks-1 :
                               n < s.fs.inode[dir].size => s.fs.inode[dir].blk[n] # 0
        /\ s.r = "ENOSPC" => s.fs.free = {} /\ Hole(s.fs)
    BY <2>2, ScanIs
  <2> QED
    BY <1>2, <2>1, <2>3
<1>4. dir \in Dirs(h) /\ dir \in Inums /\ h.inode[dir].size = f.inode[dir].size /\ SameNames(f, h)
  <2>0. Dirs(h) = Dirs(f)
    BY <1>3, FillsDirs
  <2>1. dir \in Inums /\ dir \in Dirs(h)
    BY <2>0 DEF Dirs
  <2>2. h.inode[dir].size = f.inode[dir].size
    BY <1>3, <2>1 DEF Fills
  <2> QED
    BY <1>3, <2>1, <2>2, FillsSame
<1>0. ASSUME s.r # "ok", NEW t \in Places(f, dir) PROVE Ent(f, t) # NoEnt
  <2>1. t \in Places(h, dir) /\ Ent(h, t) = Ent(f, t)
    BY <1>0, <1>4 DEF SameNames
  <2>2. PICK wanted : wanted = {""}
    OBVIOUS
  <2>3. s = ScanDir(f, dir, wanted)
    BY <1>1, <2>2
  <2>4. Ent(h, t).name \notin wanted
    BY <1>0, <1>2, <2>1, <2>3, ScanIs
  <2>5. NoEnt.name \in wanted
    BY <2>2 DEF NoEnt
  <2> QED
    BY <2>1, <2>4, <2>5, Zenon
<1>5. CASE s.r # "ENOENT"
  <2>1. d = s
    BY <1>1, <1>5 DEF dir_alloc_dirent
  <2>2. s.r = "ok" => Ent(h, s.slot) = NoEnt
    <3> SUFFICES ASSUME s.r = "ok" PROVE Ent(h, s.slot) = NoEnt
      OBVIOUS
    <3>1. Ent(h, s.slot) = NoEnt \/ Ent(h, s.slot).name # ""
      BY <1>3, <1>4 DEF Sound, Names1
    <3> QED
      BY <1>3, <3>1
  <2> QED
    BY <1>0, <1>2, <1>3, <1>4, <1>5, <2>1, <2>2
<1>6. CASE s.r = "ENOENT"
  <2>1. PICK k, n : k = Grown(h, dir) /\ n = h.inode[dir].size
    OBVIOUS
  <2>2. /\ Sound(k) /\ Dirs(k) = Dirs(h) /\ \A i \in Inums : Places(k, i) = Places(h, i)
        /\ k.free = h.free /\ k.ents = h.ents
        /\ n \in 0..MaxBlocks-1 /\ k.inode[dir].size = n + 1 /\ k.inode[dir].blk[n] = 0
    BY <1>3, <1>4, <1>6, <2>1, DirGrown
  <2>3. SameNames(h, k)
    <3>1. \A i \in Inums : /\ k.inode[i].mode = h.inode[i].mode /\ k.inode[i].nlink = h.inode[i].nlink
                           /\ i # dir => k.inode[i] = h.inode[i]
      <4>0. n < MaxBlocks
        BY <2>2, Sizes
      <4>1. h \in Disks /\ h.inode[dir].size < MaxBlocks
        BY <1>3, <2>1, <4>0 DEF Sound
      <4> QED
        BY <1>4, <2>1, <4>1, GrownIs
    <3>2. \A t : Ent(k, t) = Ent(h, t)
      BY <2>2 DEF Ent
    <3> QED
      BY <1>4, <2>2, <3>1, <3>2 DEF SameNames
  <2>4. PICK g : g = inode_get_block(k, dir, n)
    OBVIOUS
  <2>5. d = [r |-> g.r, fs |-> g.fs, slot |-> <<g.b, 1>>]
    <3>1. nblock(f, dir) = n
      BY <1>4, <2>1 DEF nblock
    <3>2. [s.fs EXCEPT !.inode[dir].size = @ + 1] = k
      BY <1>2, <2>1, Zenon DEF Grown
    <3> QED
      BY <1>1, <1>6, <2>4, <3>1, <3>2 DEF dir_alloc_dirent
  <2>6. \/ g.r = "ok" /\ g.b \in k.free /\ g.fs = WithBlock(k, dir, n, g.b)
        \/ g.r = "ENOSPC" /\ g.fs = k /\ k.free = {}
    <3>1. k \in Disks
      BY <2>2 DEF Sound
    <3> QED
      BY <1>4, <2>2, <2>4, <3>1, GetBlock
  <2>7. CASE g.r = "ok"
    <3>1. PICK b, j : b = g.b /\ j = g.fs
      OBVIOUS
    <3>2. b \in k.free /\ j = WithBlock(k, dir, n, b) /\ b \in Free /\ dir \in Dirs(k)
      BY <1>4, <2>2, <2>6, <2>7, <3>1, DiskIs DEF Sound
    <3>3. Fills(k, j) /\ Sound(j) /\ j.inode[dir].blk[n] = b
      BY <2>2, <3>2, HoleFilled
    <3>4. <<b, 1>> \in Places(j, dir) /\ Ent(j, <<b, 1>>) = NoEnt
      <4>1. <<b, 1>> \in Cells
        BY <3>2, Sizes DEF Cells
      <4>2. Ent(j, <<b, 1>>) = NoEnt
        BY <1>4, <2>2, <3>2, <4>1, AddedPlaces
      <4> QED
        BY <1>4, <2>2, <3>3, <4>1, <4>2, PlaceIs DEF Sound
    <3>5. SameNames(f, j)
      BY <1>4, <2>3, <3>3, FillsSame, SameMore
    <3> QED
      BY <2>5, <2>7, <3>1, <3>3, <3>4, <3>5
  <2>8. CASE g.r # "ok"
    <3>1. SameNames(f, k) /\ g.r = "ENOSPC" /\ g.fs = k /\ k.free = {}
      BY <1>4, <2>3, <2>6, <2>8, SameMore
    <3>2. Hole(k)
      <4>1. k.inode[dir].size > 0 /\ k.inode[dir].size - 1 = n
        BY <2>2
      <4> QED
        BY <1>4, <2>2, <4>1 DEF Hole
    <3>3. \A t \in Places(f, dir) : Ent(f, t) # NoEnt
      BY <1>0, <1>6
    <3> QED
      BY <2>2, <2>5, <3>1, <3>2, <3>3
  <2> QED
    BY <2>7, <2>8
<1> QED
  BY <1>5, <1>6

-----------------------------------------------------------------------------
(* Entries that are written *)

\* The disk with another link count and another entry.
Put(f, i, nl, s, e) ==
  [free |-> f.free, inode |-> [f.inode EXCEPT ![i].nlink = nl],
   ents |-> [f.ents EXCEPT ![s[1]][s[2]] = e]]

LEMMA PutIs ==
  ASSUME NEW f \in Disks, NEW i \in Inums, NEW nl \in Nat, NEW s \in Cells, NEW e \in Entry,
         NEW g, g = Put(f, i, nl, s, e)
  PROVE  /\ g \in Disks /\ g.free = f.free /\ g.inode[i].nlink = nl
         /\ \A k \in Inums : /\ g.inode[k].mode = f.inode[k].mode /\ g.inode[k].size = f.inode[k].size
                             /\ g.inode[k].blk = f.inode[k].blk
                             /\ k # i => g.inode[k] = f.inode[k]
         /\ Ent(g, s) = e /\ g.ents[0] = f.ents[0]
         /\ \A t \in Cells : t # s => Ent(g, t) = Ent(f, t)
<1>1. f.inode \in [Inums -> Inode] /\ f.ents \in [{0} \cup Free -> [1..BLKDIRENTS -> Entry]]
      /\ f.free \subseteq Free
  BY DiskIs
<1>2. PICK b, j : b = s[1] /\ j = s[2]
  OBVIOUS
<1>3. b \in Free /\ b # 0 /\ j \in 1..BLKDIRENTS /\ s = <<b, j>>
  BY <1>2, Basics DEF Cells
<1>4. PICK x, y : x = [f.inode[i] EXCEPT !.nlink = nl] /\ y = [f.ents[b] EXCEPT ![j] = e]
  OBVIOUS
<1>5. x \in Inode /\ x.mode = f.inode[i].mode /\ x.size = f.inode[i].size /\ x.blk = f.inode[i].blk /\ x.nlink = nl
  <2>1. f.inode[i] \in Inode
    BY <1>1
  <2> QED
    BY <1>4, <2>1 DEF Inode
<1>6. y \in [1..BLKDIRENTS -> Entry] /\ y[j] = e /\ \A m \in 1..BLKDIRENTS : m # j => y[m] = f.ents[b][m]
  <2>1. f.ents[b] \in [1..BLKDIRENTS -> Entry]
    BY <1>1, <1>3
  <2> QED
    BY <1>3, <1>4, <2>1
<1>7. PICK I, E : I = [f.inode EXCEPT ![i] = x] /\ E = [f.ents EXCEPT ![b] = y]
  OBVIOUS
<1>8. g = [free |-> f.free, inode |-> I, ents |-> E]
  BY <1>2, <1>4, <1>7 DEF Put
<1>9. I \in [Inums -> Inode] /\ I[i] = x /\ \A k \in Inums : k # i => I[k] = f.inode[k]
  BY <1>1, <1>5, <1>7
<1>10. E \in [{0} \cup Free -> [1..BLKDIRENTS -> Entry]] /\ E[b] = y
       /\ \A c \in {0} \cup Free : c # b => E[c] = f.ents[c]
  BY <1>1, <1>3, <1>6, <1>7
<1>11. g.free = f.free /\ g.inode = I /\ g.ents = E
  BY <1>8
<1>12. g \in Disks
  BY <1>1, <1>8, <1>9, <1>10, Types
<1>13. Ent(g, s) = e /\ g.ents[0] = f.ents[0]
  BY <1>2, <1>3, <1>6, <1>10, <1>11 DEF Ent
<1>14. ASSUME NEW t \in Cells, t # s PROVE Ent(g, t) = Ent(f, t)
  <2>1. t[1] \in Free /\ t[2] \in 1..BLKDIRENTS /\ (t[1] # b \/ t[2] # j)
    BY <1>3, <1>14 DEF Cells
  <2>2. CASE t[1] # b
    BY <1>10, <1>11, <2>1, <2>2 DEF Ent
  <2>3. CASE t[1] = b /\ t[2] # j
    BY <1>6, <1>10, <1>11, <2>1, <2>3 DEF Ent
  <2> QED
    BY <2>1, <2>2, <2>3
<1> QED
  BY <1>5, <1>9, <1>11, <1>12, <1>13, <1>14

\* A place is in one directory.
LEMMA OneDir ==
  ASSUME NEW f, Sound(f), NEW c \in Inums, NEW d \in Inums, NEW s \in Places(f, c), s \in Places(f, d)
  PROVE  c = d
<1>1. f \in Disks /\ 0 \notin Free
  BY Basics DEF Sound
<1>2. s \in Cells /\ \E n \in 0..MaxBlocks-1 : f.inode[c].blk[n] = s[1]
  BY <1>1, PlaceIs
<1>3. \E n \in 0..MaxBlocks-1 : f.inode[d].blk[n] = s[1]
  BY <1>1, PlaceIs
<1>4. s[1] # 0
  BY <1>1, <1>2 DEF Cells
<1> QED
  BY <1>2, <1>3, <1>4 DEF Sound, OneUse

\* Where the names of an inode are after an entry has been written.
LEMMA PutSlots ==
  ASSUME NEW f, Sound(f), NEW d \in Dirs(f), NEW s \in Places(f, d), NEW i \in Inums,
         NEW nl \in Nat, NEW e \in Entry, NEW g, g = Put(f, i, nl, s, e)
  PROVE  /\ g \in Disks /\ Live(g) = Live(f) /\ Dirs(g) = Dirs(f)
         /\ \A k \in Inums : Places(g, k) = Places(f, k)
         /\ \A k : SlotsOf(g, k) = IF e.inum = k THEN SlotsOf(f, k) \cup {s} ELSE SlotsOf(f, k) \ {s}
<1>1. f \in Disks /\ d \in Inums
  BY DEF Sound, Dirs
<1>2. s \in Cells
  BY <1>1, PlaceIs
<1>3. /\ g \in Disks
      /\ \A k \in Inums : g.inode[k].mode = f.inode[k].mode /\ g.inode[k].blk = f.inode[k].blk
      /\ Ent(g, s) = e
      /\ \A t \in Cells : t # s => Ent(g, t) = Ent(f, t)
  BY <1>1, <1>2, PutIs
<1>4. Live(g) = Live(f) /\ Dirs(g) = Dirs(f)
  BY <1>3 DEF Live, Dirs
<1>5. \A k \in Inums : Places(g, k) = Places(f, k)
  BY <1>3 DEF Places, BlocksOf
<1>6. ASSUME NEW k
      PROVE  SlotsOf(g, k) = IF e.inum = k THEN SlotsOf(f, k) \cup {s} ELSE SlotsOf(f, k) \ {s}
  <2>1. \A t : t \in SlotsOf(g, k) <=> (\E x \in Dirs(g) : t \in Places(g, x)) /\ Ent(g, t).inum = k
    BY <1>3, SlotIs
  <2>2. \A t : t \in SlotsOf(f, k) <=> (\E x \in Dirs(f) : t \in Places(f, x)) /\ Ent(f, t).inum = k
    BY <1>1, SlotIs
  <2>3. \A x \in Dirs(f) : x \in Inums /\ Places(g, x) = Places(f, x) /\ Places(f, x) \subseteq Cells
    BY <1>1, <1>5, PlaceIs DEF Dirs
  <2>4. ASSUME NEW t
        PROVE  t \in SlotsOf(g, k) <=> IF t = s THEN e.inum = k ELSE t \in SlotsOf(f, k)
    <3>1. (\E x \in Dirs(g) : t \in Places(g, x)) <=> (\E x \in Dirs(f) : t \in Places(f, x))
      BY <1>4, <2>3
    <3>2. CASE t = s
      BY <1>3, <2>1, <3>1, <3>2
    <3>3. CASE t # s
      <4>1. (\E x \in Dirs(f) : t \in Places(f, x)) => Ent(g, t) = Ent(f, t)
        BY <1>3, <2>3, <3>3
      <4> QED
        BY <2>1, <2>2, <3>1, <3>3, <4>1
    <3> QED
      BY <3>2, <3>3
  <2> QED
    BY <2>4
<1> QED
  BY <1>3, <1>4, <1>5, <1>6

\* An entry that may be written: none, or one with a name the directory lacks.
Lacks(f, d, name) == \A t \in Places(f, d) : Ent(f, t).name # name

Fits(f, d, e) ==
  e = NoEnt \/ (e.name # "" /\ e.inum \in Live(f) \ {Root} /\ Lacks(f, d, e.name))

\* It is written soundly as long as it is counted.
LEMMA PutKeeps ==
  ASSUME NEW f, Sound(f), NEW d \in Dirs(f), NEW s \in Places(f, d), NEW i \in Live(f),
         NEW nl \in Nat, NEW e \in Entry, NEW g, g = Put(f, i, nl, s, e),
         Fits(f, d, e), Links(g)
  PROVE  Sound(g)
<1>1. f \in Disks /\ d \in Inums /\ i \in Inums
  BY DEF Sound, Dirs, Live
<1>2. s \in Cells
  BY <1>1, PlaceIs
<1>3. /\ g \in Disks /\ g.free = f.free /\ g.inode[i].nlink = nl
      /\ \A k \in Inums : /\ g.inode[k].mode = f.inode[k].mode /\ g.inode[k].size = f.inode[k].size
                          /\ g.inode[k].blk = f.inode[k].blk
                          /\ k # i => g.inode[k] = f.inode[k]
      /\ Ent(g, s) = e /\ g.ents[0] = f.ents[0]
      /\ \A t \in Cells : t # s => Ent(g, t) = Ent(f, t)
  <2>1. PICK k : k = i
    OBVIOUS
  <2>2. k \in Inums /\ g = Put(f, k, nl, s, e)
    BY <1>1, <2>1
  <2>3. /\ g \in Disks /\ g.free = f.free /\ g.inode[k].nlink = nl
        /\ \A x \in Inums : /\ g.inode[x].mode = f.inode[x].mode /\ g.inode[x].size = f.inode[x].size
                            /\ g.inode[x].blk = f.inode[x].blk
                            /\ x # k => g.inode[x] = f.inode[x]
        /\ Ent(g, s) = e /\ g.ents[0] = f.ents[0]
        /\ \A t \in Cells : t # s => Ent(g, t) = Ent(f, t)
    BY <1>1, <1>2, <2>2, PutIs
  <2> QED
    BY <2>1, <2>3
<1>4. Live(g) = Live(f) /\ Dirs(g) = Dirs(f) /\ \A k \in Inums : Places(g, k) = Places(f, k)
  BY <1>1, PutSlots
<1>5. \A k \in Inums : BlocksOf(g, k) = BlocksOf(f, k)
  BY <1>3 DEF BlocksOf
<1>6. OneUse(g)
  BY <1>3 DEF OneUse, Sound
<1>7. Partition(g)
  BY <1>3, <1>4, <1>5 DEF Partition, Sound
<1>8. Shapes(g)
  <2>1. \A k \in Inums \ Live(f) : k # i
    OBVIOUS
  <2>2. Shapes(f) /\ \A x \in Dirs(f) : x \in Inums
    BY DEF Sound, Dirs
  <2> QED
    BY <1>3, <1>4, <2>1, <2>2 DEF Shapes
<1>9. Names1(g)
  <2>1. Names1(f)
    BY DEF Sound
  <2>2. ASSUME NEW x \in Dirs(g), NEW t \in Places(g, x)
        PROVE  /\ Ent(g, t) = NoEnt \/ (Ent(g, t).name # "" /\ Ent(g, t).inum \in Live(g) \ {Root})
               /\ \A u \in Places(g, x) : Ent(g, t).name # "" /\ Ent(g, t).name = Ent(g, u).name => t = u
    <3>1. x \in Dirs(f) /\ x \in Inums /\ t \in Places(f, x) /\ t \in Cells /\ Places(g, x) = Places(f, x)
      BY <1>1, <1>4, PlaceIs DEF Dirs
    <3>2. Ent(g, t) = NoEnt \/ (Ent(g, t).name # "" /\ Ent(g, t).inum \in Live(g) \ {Root})
      <4>1. Ent(f, t) = NoEnt \/ (Ent(f, t).name # "" /\ Ent(f, t).inum \in Live(f) \ {Root})
        BY <2>1, <3>1 DEF Names1
      <4> QED
        BY <1>3, <1>4, <3>1, <4>1 DEF Fits
    <3>3. ASSUME NEW u \in Places(g, x), Ent(g, t).name # "", Ent(g, t).name = Ent(g, u).name
          PROVE  t = u
      <4>1. u \in Places(f, x) /\ u \in Cells
        BY <1>1, <3>1, PlaceIs
      <4>2. NoEnt.name = ""
        BY DEF NoEnt
      <4>3. CASE t # s /\ u # s
        <5>1. Ent(g, t) = Ent(f, t) /\ Ent(g, u) = Ent(f, u)
          BY <1>3, <3>1, <4>1, <4>3
        <5> QED
          BY <2>1, <3>1, <3>3, <4>1, <5>1 DEF Names1
      <4>4. ASSUME NEW v \in Places(f, x), v # s, s \in Places(f, x), e # NoEnt
            PROVE  Ent(g, v).name # e.name
        <5>1. x = d
          BY <1>1, <3>1, <4>4, OneDir
        <5>2. v \in Cells
          BY <1>1, <3>1, PlaceIs
        <5>3. Ent(g, v) = Ent(f, v)
          BY <1>3, <4>4, <5>2
        <5> QED
          BY <4>4, <5>1, <5>3 DEF Fits, Lacks
      <4>5. CASE t = s
        BY <1>3, <3>1, <3>3, <4>1, <4>2, <4>4, <4>5
      <4>6. CASE u = s
        BY <1>3, <3>1, <3>3, <4>1, <4>2, <4>4, <4>6
      <4> QED
        BY <4>3, <4>5, <4>6
    <3> QED
      BY <3>2, <3>3
  <2> QED
    BY <2>2, Zenon DEF Names1
<1> QED
  BY <1>3, <1>6, <1>7, <1>8, <1>9 DEF Sound

\* What an entry in use leads to.
LEMMA EntLeads ==
  ASSUME NEW f, Sound(f), NEW d \in Dirs(f), NEW s \in Places(f, d), Ent(f, s) # NoEnt
  PROVE  /\ Ent(f, s).inum \in Live(f) \ {Root} /\ Ent(f, s).name \in AllNames
         /\ s \in SlotsOf(f, Ent(f, s).inum)
         /\ Ent(f, s) = [name |-> Ent(f, s).name, inum |-> Ent(f, s).inum]
<1>1. f \in Disks /\ d \in Inums
  BY DEF Sound, Dirs
<1>2. Ent(f, s).inum \in Live(f) \ {Root} /\ Ent(f, s).name # ""
  BY DEF Sound, Names1
<1>3. s \in Cells
  BY <1>1, PlaceIs
<1>4. Ent(f, s) \in Entry
  <2>1. s[1] \in Free /\ s[2] \in 1..BLKDIRENTS
    BY <1>3 DEF Cells
  <2>2. f.ents[s[1]][s[2]] \in Entry
    BY <1>1, <2>1, EntIs
  <2> QED
    BY <2>2 DEF Ent
<1>5. s \in SlotsOf(f, Ent(f, s).inum)
  BY <1>1, SlotIs
<1> QED
  BY <1>2, <1>4, <1>5 DEF Entry

LEMMA NoSlotsOfRoot ==
  ASSUME NEW f, Sound(f), NEW k \in Inums, k \notin Live(f) \ {Root}
  PROVE  SlotsOf(f, k) = {}
<1>1. f \in Disks /\ k # 0 /\ NoEnt.inum = 0
  BY Basics DEF Sound, NoEnt
<1>2. ASSUME NEW s \in SlotsOf(f, k) PROVE FALSE
  <2>1. (\E d \in Dirs(f) : s \in Places(f, d)) /\ Ent(f, s).inum = k
    BY <1>1, SlotIs
  <2>2. PICK d \in Dirs(f) : s \in Places(f, d)
    BY <2>1
  <2>3. Ent(f, s) # NoEnt
    BY <1>1, <2>1
  <2> QED
    BY <2>1, <2>2, <2>3, EntLeads
<1> QED
  BY <1>2

\* A link count that is right when the inode has a name more, or one less.
CountsOneMore(f, i, nl) == Cardinality(SlotsOf(f, i)) + 1 <= nl
CountsOneLess(f, i, nl) == Cardinality(SlotsOf(f, i)) <= nl + 1

LEMMA EntryAdded ==
  ASSUME NEW f, Sound(f), NEW d \in Dirs(f), NEW s \in Places(f, d), Ent(f, s) = NoEnt,
         NEW i \in Inums, i \in Live(f) \ {Root}, NEW nl \in Nat, CountsOneMore(f, i, nl),
         NEW e \in Entry, Fits(f, d, e), e.inum = i, NEW g, g = Put(f, i, nl, s, e)
  PROVE  /\ Sound(g) /\ g.inode[i].nlink = nl
         /\ \A k \in Inums \ {i} : SlotsOf(g, k) = SlotsOf(f, k) /\ g.inode[k] = f.inode[k]
         /\ SlotsOf(g, i) = SlotsOf(f, i) \cup {s}
         /\ Cardinality(SlotsOf(g, i)) = Cardinality(SlotsOf(f, i)) + 1
<1>1. f \in Disks /\ d \in Inums /\ i \in Live(f)
  BY DEF Sound, Dirs
<1>2. NoEnt.inum = 0
  BY DEF NoEnt
<1>3. /\ g \in Disks /\ Live(g) = Live(f) /\ Dirs(g) = Dirs(f)
      /\ \A k : SlotsOf(g, k) = IF e.inum = k THEN SlotsOf(f, k) \cup {s} ELSE SlotsOf(f, k) \ {s}
  BY <1>1, PutSlots
<1>4. ASSUME NEW k \in Inums PROVE s \notin SlotsOf(f, k)
  <2>1. s \in SlotsOf(f, k) => Ent(f, s).inum = k
    BY <1>1, SlotIs
  <2> QED
    BY <1>2, <2>1, Basics
<1>5. ASSUME NEW k \in Inums \ {i} PROVE SlotsOf(g, k) = SlotsOf(f, k)
  <2>1. SlotsOf(g, k) = SlotsOf(f, k) \ {s} /\ s \notin SlotsOf(f, k)
    BY <1>2, <1>3, <1>4
  <2> QED
    BY <2>1
<1>6. SlotsOf(g, i) = SlotsOf(f, i) \cup {s}
  BY <1>2, <1>3
<1>7. Cardinality(SlotsOf(g, i)) = Cardinality(SlotsOf(f, i)) + 1 /\ Cardinality(SlotsOf(f, i)) \in Nat
  <2>1. IsFiniteSet(SlotsOf(f, i)) /\ Cardinality(SlotsOf(f, i)) \in Nat
    BY <1>1, FiniteSlots
  <2>2. s \notin SlotsOf(f, i)
    BY <1>1, <1>4
  <2>3. PICK S : S = SlotsOf(f, i)
    OBVIOUS
  <2>4. IsFiniteSet(S) /\ s \notin S
    BY <2>1, <2>2, <2>3
  <2>5. Cardinality(S \cup {s}) = Cardinality(S) + 1
    BY <2>4, FS_AddElement
  <2> QED
    BY <1>6, <2>1, <2>3, <2>5, Zenon
<1>8. s \in Cells
  BY <1>1, PlaceIs
<1>9. g.inode[i].nlink = nl /\ \A k \in Inums \ {i} : g.inode[k] = f.inode[k]
  BY <1>1, <1>8, PutIs
<1>10. Links(g)
  <2>1. ASSUME NEW k \in Live(g) \ {Root} PROVE Cardinality(SlotsOf(g, k)) <= g.inode[k].nlink
    <3>1. CASE k = i
      BY <1>7, <1>9, <3>1 DEF CountsOneMore
    <3>2. CASE k # i
      <4>1. k \in Live(f) \ {Root} /\ k \in Inums \ {i}
        BY <1>3, <2>1, <3>2 DEF Live
      <4>2. Cardinality(SlotsOf(f, k)) <= f.inode[k].nlink
        BY <4>1 DEF Sound, Links
      <4> QED
        BY <1>5, <1>9, <4>1, <4>2
    <3> QED
      BY <3>1, <3>2
  <2> QED
    BY <2>1 DEF Links
<1>11. Fits(f, d, e)
  BY <1>2 DEF Fits
<1>12. Sound(g)
  BY <1>1, <1>2, <1>10, <1>11, PutKeeps
<1> QED
  BY <1>5, <1>6, <1>7, <1>9, <1>12

LEMMA EntryEmptied ==
  ASSUME NEW f, Sound(f), NEW d \in Dirs(f), NEW s \in Places(f, d),
         NEW i \in Inums, s \in SlotsOf(f, i), NEW nl \in Nat, CountsOneLess(f, i, nl),
         NEW e \in Entry, e = NoEnt, NEW g, g = Put(f, i, nl, s, e)
  PROVE  /\ Sound(g) /\ g.inode[i].nlink = nl
         /\ \A k \in Inums \ {i} : SlotsOf(g, k) = SlotsOf(f, k) /\ g.inode[k] = f.inode[k]
         /\ SlotsOf(g, i) = SlotsOf(f, i) \ {s}
         /\ Cardinality(SlotsOf(g, i)) + 1 = Cardinality(SlotsOf(f, i))
<1>1. f \in Disks /\ d \in Inums /\ i \in Live(f)
  BY NoSlotsOfRoot DEF Sound, Dirs
<1>2. e.inum = 0 /\ 0 \notin Inums
  BY Basics DEF NoEnt
<1>3. /\ g \in Disks /\ Live(g) = Live(f) /\ Dirs(g) = Dirs(f)
      /\ \A k : SlotsOf(g, k) = IF e.inum = k THEN SlotsOf(f, k) \cup {s} ELSE SlotsOf(f, k) \ {s}
  BY <1>1, PutSlots
<1>4. \A k \in Inums \ {i} : s \notin SlotsOf(f, k)
  BY <1>1, SlotIs
<1>5. ASSUME NEW k \in Inums \ {i} PROVE SlotsOf(g, k) = SlotsOf(f, k)
  <2>1. SlotsOf(g, k) = SlotsOf(f, k) \ {s} /\ s \notin SlotsOf(f, k)
    BY <1>2, <1>3, <1>4
  <2> QED
    BY <2>1
<1>6. SlotsOf(g, i) = SlotsOf(f, i) \ {s}
  BY <1>1, <1>2, <1>3
<1>7. Cardinality(SlotsOf(g, i)) + 1 = Cardinality(SlotsOf(f, i)) /\ Cardinality(SlotsOf(g, i)) \in Nat
  <2>1. IsFiniteSet(SlotsOf(f, i)) /\ Cardinality(SlotsOf(f, i)) \in Nat
    BY <1>1, FiniteSlots
  <2>2. Cardinality(SlotsOf(g, i)) = Cardinality(SlotsOf(f, i)) - 1
    <3>1. PICK S : S = SlotsOf(f, i)
      OBVIOUS
    <3>2. IsFiniteSet(S) /\ s \in S
      BY <1>1, <2>1, <3>1
    <3>3. Cardinality(S \ {s}) = Cardinality(S) - 1
      BY <3>2, FS_RemoveElement
    <3> QED
      BY <1>6, <3>1, <3>3
  <2>3. Cardinality(SlotsOf(g, i)) \in Nat
    BY <1>3, FiniteSlots
  <2> QED
    BY <2>1, <2>2, <2>3
<1>8. s \in Cells
  BY <1>1, PlaceIs
<1>9. g.inode[i].nlink = nl /\ \A k \in Inums \ {i} : g.inode[k] = f.inode[k]
  BY <1>1, <1>8, PutIs
<1>10. Links(g)
  <2>1. ASSUME NEW k \in Live(g) \ {Root} PROVE Cardinality(SlotsOf(g, k)) <= g.inode[k].nlink
    <3>1. CASE k = i
      BY <1>7, <1>9, <3>1 DEF CountsOneLess
    <3>2. CASE k # i
      <4>1. k \in Live(f) \ {Root} /\ k \in Inums \ {i}
        BY <1>3, <2>1, <3>2 DEF Live
      <4>2. Cardinality(SlotsOf(f, k)) <= f.inode[k].nlink
        BY <4>1 DEF Sound, Links
      <4> QED
        BY <1>5, <1>9, <4>1, <4>2
    <3> QED
      BY <3>1, <3>2
  <2> QED
    BY <2>1 DEF Links
<1>11. Fits(f, d, e)
  BY DEF Fits
<1>12. Sound(g)
  BY <1>1, <1>10, <1>11, PutKeeps
<1> QED
  BY <1>5, <1>6, <1>7, <1>9, <1>12

-----------------------------------------------------------------------------
(* Inodes that come and go *)

FreshInode(x) ==
  /\ x \in Inode /\ x.mode # "none"
  /\ x.mode = "dir" => x.size = 0
  /\ \A n \in 0..MaxBlocks-1 : x.blk[n] = 0

NewInode(f, b, x) == [free |-> f.free \ {b}, inode |-> [f.inode EXCEPT ![b] = x], ents |-> f.ents]

LEMMA NewInodeIs ==
  ASSUME NEW f \in Disks, NEW b \in f.free, NEW x \in Inode, NEW g, g = NewInode(f, b, x)
  PROVE  /\ g \in Disks /\ g.free = f.free \ {b} /\ g.inode[b] = x /\ g.ents = f.ents
         /\ \A k \in Inums : k # b => g.inode[k] = f.inode[k]
<1>1. /\ f.inode \in [Inums -> Inode] /\ f.ents \in [{0} \cup Free -> [1..BLKDIRENTS -> Entry]]
      /\ f.free \subseteq Free /\ b \in Inums
  BY DiskIs, Basics
<1>2. g.free = f.free \ {b} /\ g.inode = [f.inode EXCEPT ![b] = x] /\ g.ents = f.ents
      /\ g = [free |-> g.free, inode |-> g.inode, ents |-> g.ents]
  BY DEF NewInode
<1>3. g.inode \in [Inums -> Inode] /\ g.inode[b] = x /\ \A k \in Inums : k # b => g.inode[k] = f.inode[k]
  BY <1>1, <1>2
<1>4. g.free \subseteq Free
  BY <1>1, <1>2
<1> QED
  BY <1>1, <1>2, <1>3, <1>4, Types

LEMMA InodeAdded ==
  ASSUME NEW f, Sound(f), NEW b \in f.free, NEW x, FreshInode(x), NEW g, g = NewInode(f, b, x)
  PROVE  /\ Sound(g) /\ Live(g) = Live(f) \cup {b} /\ b \notin Live(f) /\ b \in Inums /\ b # Root
         /\ Dirs(f) \subseteq Dirs(g) /\ g.inode[b] = x
         /\ \A k \in Inums : /\ k # b => g.inode[k] = f.inode[k]
                             /\ Places(g, k) = Places(f, k) /\ SlotsOf(g, k) = SlotsOf(f, k)
         /\ \A s : Ent(g, s) = Ent(f, s)
         /\ Places(g, b) = {} /\ SlotsOf(g, b) = {}
<1>1. f \in Disks /\ x \in Inode
  BY DEF Sound, FreshInode
<1>2. /\ g \in Disks /\ g.free = f.free \ {b} /\ g.inode[b] = x /\ g.ents = f.ents
      /\ \A k \in Inums : k # b => g.inode[k] = f.inode[k]
  BY <1>1, NewInodeIs
<1>3. b \in Free /\ b \in Inums /\ b # Root /\ b # 0 /\ 0 \notin Free /\ 0 \notin Inums
  BY <1>1, DiskIs, Basics
<1>4. b \notin Live(f)
  BY DEF Sound, Partition
<1>5. f.inode[b] = NoInode
  BY <1>3, <1>4 DEF Sound, Shapes
<1>6. \A n \in 0..MaxBlocks-1 : f.inode[b].blk[n] = 0 /\ x.blk[n] = 0
  BY <1>5 DEF NoInode, FreshInode
<1>7. Live(g) = Live(f) \cup {b}
  BY <1>2, <1>3 DEF Live, FreshInode
<1>8. Dirs(f) \subseteq Dirs(g) /\ Dirs(g) \subseteq Dirs(f) \cup {b} /\ b \notin Dirs(f)
  <2>1. b \notin Dirs(f)
    BY <1>1, <1>4, DiskIs
  <2> QED
    BY <1>2, <2>1 DEF Dirs
<1>9. \A k \in Inums : \A n \in 0..MaxBlocks-1 : g.inode[k].blk[n] = f.inode[k].blk[n]
  BY <1>2, <1>6
<1>10. \A k \in Inums : BlocksOf(g, k) = BlocksOf(f, k)
  BY <1>9 DEF BlocksOf
<1>11. BlocksOf(f, b) = {} /\ \A k \in Inums : Places(g, k) = Places(f, k)
  BY <1>6, <1>10 DEF BlocksOf, Places
<1>12. Places(g, b) = {}
  BY <1>3, <1>11 DEF Places
<1>13. \A s : Ent(g, s) = Ent(f, s)
  BY <1>2 DEF Ent
<1>14. ASSUME NEW k PROVE SlotsOf(g, k) = SlotsOf(f, k)
  <2>1. \A t : t \in SlotsOf(g, k) <=> (\E d \in Dirs(g) : t \in Places(g, d)) /\ Ent(g, t).inum = k
    BY <1>2, SlotIs
  <2>2. \A t : t \in SlotsOf(f, k) <=> (\E d \in Dirs(f) : t \in Places(f, d)) /\ Ent(f, t).inum = k
    BY <1>1, SlotIs
  <2>3. \A t : (\E d \in Dirs(g) : t \in Places(g, d)) <=> (\E d \in Dirs(f) : t \in Places(f, d))
    <3>1. \A d \in Dirs(f) : d \in Dirs(g) /\ Places(g, d) = Places(f, d)
      BY <1>8, <1>11 DEF Dirs
    <3>2. \A d \in Dirs(g) : d = b \/ d \in Dirs(f)
      BY <1>8
    <3> QED
      BY <1>12, <3>1, <3>2
  <2> QED
    BY <1>13, <2>1, <2>2, <2>3
<1>15. SlotsOf(g, b) = {}
  BY <1>3, <1>4, <1>14, NoSlotsOfRoot
<1>16. OneUse(g)
  BY <1>9 DEF OneUse, Sound
<1>17. Partition(g)
  <2>1. \A k \in Inums : \A n \in 0..MaxBlocks-1 : g.inode[k].blk[n] \notin g.free \cup Live(g)
    BY <1>2, <1>7, <1>9, FreeUnused
  <2>2. \A c \in Live(g) : c \notin g.free
    BY <1>2, <1>7 DEF Sound, Partition
  <2>3. \A c \in Free \ g.free : c \in Live(g) \/ \E i \in Inums : c \in BlocksOf(g, i)
    BY <1>2, <1>7, <1>10 DEF Sound, Partition
  <2> QED
    BY <2>1, <2>2, <2>3 DEF Partition
<1>18. Shapes(g)
  <2>1. Shapes(f)
    BY DEF Sound
  <2>2. Root \in Dirs(g)
    BY <1>8, <2>1 DEF Shapes
  <2>3. \A k \in Inums \ Live(g) : g.inode[k] = NoInode
    BY <1>2, <1>7, <2>1 DEF Shapes
  <2>4. ASSUME NEW d \in Dirs(g), NEW n \in 0..MaxBlocks-1
        PROVE  /\ n >= g.inode[d].size => g.inode[d].blk[n] = 0
               /\ n + 1 < g.inode[d].size => g.inode[d].blk[n] # 0
    <3>1. CASE d = b
      <4>1. g.inode[d].size = 0
        BY <1>2, <3>1 DEF Dirs, FreshInode
      <4>2. g.inode[d].blk[n] = 0
        BY <1>2, <1>6, <3>1
      <4>3. ~(n + 1 < 0)
        OBVIOUS
      <4> QED
        BY <4>1, <4>2, <4>3
    <3>2. CASE d # b
      <4>1. d \in Dirs(f) /\ g.inode[d] = f.inode[d]
        BY <1>2, <1>8, <3>2 DEF Dirs
      <4> QED
        BY <2>1, <4>1 DEF Shapes
    <3> QED
      BY <3>1, <3>2
  <2> QED
    BY <2>2, <2>3, <2>4 DEF Shapes
<1>19. Names1(g)
  <2>1. Names1(f)
    BY DEF Sound
  <2>2. ASSUME NEW d \in Dirs(g), NEW s \in Places(g, d)
        PROVE  /\ Ent(g, s) = NoEnt \/ (Ent(g, s).name # "" /\ Ent(g, s).inum \in Live(g) \ {Root})
               /\ \A t \in Places(g, d) : Ent(g, s).name # "" /\ Ent(g, s).name = Ent(g, t).name => s = t
    <3>1. d # b
      BY <1>12
    <3>2. d \in Dirs(f) /\ Places(g, d) = Places(f, d)
      BY <1>8, <1>11, <3>1 DEF Dirs
    <3>3. Ent(f, s) = NoEnt \/ (Ent(f, s).name # "" /\ Ent(f, s).inum \in Live(f) \ {Root})
      BY <2>1, <3>2 DEF Names1
    <3>4. \A t \in Places(f, d) : Ent(f, s).name # "" /\ Ent(f, s).name = Ent(f, t).name => s = t
      BY <2>1, <3>2 DEF Names1
    <3> QED
      BY <1>7, <1>13, <3>2, <3>3, <3>4
  <2> QED
    BY <2>2, Zenon DEF Names1
<1>20. Links(g)
  <2>1. ASSUME NEW k \in Live(g) \ {Root} PROVE Cardinality(SlotsOf(g, k)) <= g.inode[k].nlink
    <3>1. CASE k = b
      <4>1. Cardinality(SlotsOf(g, k)) = 0
        BY <1>15, <3>1, FS_EmptySet
      <4>2. g.inode[k].nlink \in Nat
        BY <1>2, <1>3, <3>1, InodeIs
      <4> QED
        BY <4>1, <4>2
    <3>2. CASE k # b
      <4>1. k \in Live(f) \ {Root} /\ g.inode[k] = f.inode[k]
        BY <1>2, <1>7, <2>1, <3>2 DEF Live
      <4> QED
        BY <1>14, <4>1 DEF Sound, Links
    <3> QED
      BY <3>1, <3>2
  <2> QED
    BY <2>1 DEF Links
<1>21. g.ents[0] = EmptyBlk
  BY <1>2 DEF Sound
<1>22. Sound(g)
  BY <1>2, <1>16, <1>17, <1>18, <1>19, <1>20, <1>21 DEF Sound
<1> QED
  BY <1>2, <1>3, <1>4, <1>7, <1>8, <1>11, <1>12, <1>13, <1>14, <1>15, <1>22

\* What is freed has no name left; what was in it is nowhere.
LEMMA InodeFreed ==
  ASSUME NEW f, Sound(f), NEW i \in Inums, i \in Live(f) \ {Root}, SlotsOf(f, i) = {},
         NEW g, g = inode_free(f, i)
  PROVE  /\ Sound(g) /\ Live(g) = Live(f) \ {i} /\ Dirs(g) = Dirs(f) \ {i}
         /\ g.inode[i] = NoInode /\ \A k \in Inums : k # i => g.inode[k] = f.inode[k]
         /\ Places(g, i) = {} /\ \A k \in Inums : k # i => Places(g, k) = Places(f, k)
         /\ \A k \in Inums : k # i => \A s \in Places(f, k) : Ent(g, s) = Ent(f, s)
         /\ \A k \in Inums : SlotsOf(g, k) = SlotsOf(f, k) \ Places(f, i)
<1>1. f \in Disks
  BY DEF Sound
<1>2. /\ f.inode \in [Inums -> Inode] /\ f.ents \in [{0} \cup Free -> [1..BLKDIRENTS -> Entry]]
      /\ f.free \subseteq Free
  BY <1>1, DiskIs
<1>3. PICK B : B = BlocksOf(f, i)
  OBVIOUS
<1>4. /\ 0 \notin Free /\ 0 \notin B /\ 0 \notin Inums /\ i \in Free
      /\ \A c : c \in B <=> c # 0 /\ \E n \in 0..MaxBlocks-1 : f.inode[i].blk[n] = c
  BY <1>3, Basics DEF BlocksOf
<1>5. B \subseteq Free
  <2>1. \A n \in 0..MaxBlocks-1 : f.inode[i].blk[n] \in Free \cup {0}
    BY <1>1, InodeIs
  <2> QED
    BY <1>4, <2>1
<1>6. /\ g.free = f.free \cup B \cup {i} /\ g.inode = [f.inode EXCEPT ![i] = NoInode]
      /\ g.ents = [b \in DOMAIN f.ents |-> IF b \in B THEN EmptyBlk ELSE f.ents[b]]
      /\ g = [free |-> g.free, inode |-> g.inode, ents |-> g.ents]
  BY <1>3 DEF inode_free, BlocksOf
<1>7. /\ g.inode \in [Inums -> Inode] /\ g.inode[i] = NoInode
      /\ \A k \in Inums : k # i => g.inode[k] = f.inode[k]
  BY <1>2, <1>6, Types
<1>8. /\ g.ents \in [{0} \cup Free -> [1..BLKDIRENTS -> Entry]]
      /\ \A b \in {0} \cup Free : b \notin B => g.ents[b] = f.ents[b]
  BY <1>2, <1>6, Types
<1>9. g.free \subseteq Free
  BY <1>2, <1>4, <1>5, <1>6
<1>10. g \in Disks
  BY <1>6, <1>7, <1>8, <1>9, Types
<1>11. NoInode.mode = "none" /\ \A n \in 0..MaxBlocks-1 : NoInode.blk[n] = 0
  BY DEF NoInode
<1>12. Live(g) = Live(f) \ {i} /\ Dirs(g) = Dirs(f) \ {i}
  BY <1>7, <1>11 DEF Live, Dirs
<1>13. Places(g, i) = {} /\ \A k \in Inums : k # i => Places(g, k) = Places(f, k) /\ BlocksOf(g, k) = BlocksOf(f, k)
  <2>1. \A n \in 0..MaxBlocks-1 : g.inode[i].blk[n] = 0
    BY <1>7, <1>11
  <2>2. BlocksOf(g, i) = {}
    BY <2>1 DEF BlocksOf
  <2>3. \A k \in Inums : k # i => BlocksOf(g, k) = BlocksOf(f, k)
    BY <1>7 DEF BlocksOf
  <2> QED
    BY <2>2, <2>3 DEF Places
<1>14. ASSUME NEW k \in Inums, k # i, NEW n \in 0..MaxBlocks-1
       PROVE  f.inode[k].blk[n] \notin B
  BY <1>4, <1>14 DEF Sound, OneUse
<1>15. ASSUME NEW k \in Inums, k # i, NEW s \in Places(f, k) PROVE Ent(g, s) = Ent(f, s) /\ s \notin Places(f, i)
  <2>1. s \in Cells /\ \E n \in 0..MaxBlocks-1 : f.inode[k].blk[n] = s[1]
    BY <1>1, PlaceIs
  <2>2. s[1] \in Free /\ s[1] \notin B
    BY <1>14, <1>15, <2>1 DEF Cells
  <2>3. s \notin Places(f, i)
    BY <1>15, OneDir
  <2> QED
    BY <1>8, <2>2, <2>3 DEF Ent
<1>16. ASSUME NEW k \in Inums PROVE SlotsOf(g, k) = SlotsOf(f, k) \ Places(f, i)
  <2>1. \A t : t \in SlotsOf(g, k) <=> (\E d \in Dirs(g) : t \in Places(g, d)) /\ Ent(g, t).inum = k
    BY <1>10, SlotIs
  <2>2. \A t : t \in SlotsOf(f, k) <=> (\E d \in Dirs(f) : t \in Places(f, d)) /\ Ent(f, t).inum = k
    BY <1>1, SlotIs
  <2>3. \A d \in Dirs(g) : d \in Dirs(f) /\ d \in Inums /\ d # i /\ Places(g, d) = Places(f, d)
    BY <1>12, <1>13 DEF Dirs
  <2>4. ASSUME NEW t \in SlotsOf(g, k) PROVE t \in SlotsOf(f, k) \ Places(f, i)
    <3>1. PICK d \in Dirs(g) : t \in Places(g, d)
      BY <2>1
    <3>2. Ent(g, t) = Ent(f, t) /\ t \notin Places(f, i)
      BY <1>15, <2>3, <3>1
    <3> QED
      BY <2>1, <2>2, <2>3, <3>1, <3>2
  <2>5. ASSUME NEW t \in SlotsOf(f, k), t \notin Places(f, i) PROVE t \in SlotsOf(g, k)
    <3>1. PICK d \in Dirs(f) : t \in Places(f, d)
      BY <2>2
    <3>2. d # i /\ d \in Inums /\ d \in Dirs(g)
      BY <1>12, <2>5, <3>1 DEF Dirs
    <3>3. Ent(g, t) = Ent(f, t) /\ t \in Places(g, d)
      BY <1>13, <1>15, <3>1, <3>2
    <3> QED
      BY <2>1, <2>2, <3>2, <3>3
  <2> QED
    BY <2>4, <2>5
<1>17. OneUse(g)
  <2>1. ASSUME NEW k \in Inums, NEW l \in Inums, NEW n \in 0..MaxBlocks-1, NEW m \in 0..MaxBlocks-1,
               g.inode[k].blk[n] # 0, g.inode[k].blk[n] = g.inode[l].blk[m]
        PROVE  k = l /\ n = m
    <3>1. k # i /\ l # i
      BY <1>7, <1>11, <2>1
    <3> QED
      BY <1>7, <2>1, <3>1 DEF Sound, OneUse
  <2> QED
    BY <2>1 DEF OneUse
<1>18. Partition(g)
  <2>1. \A k \in Inums : \A n \in 0..MaxBlocks-1 : f.inode[k].blk[n] \notin f.free \cup Live(f)
    BY DEF Sound, Partition
  <2>2. ASSUME NEW k \in Inums, NEW n \in 0..MaxBlocks-1
        PROVE  g.inode[k].blk[n] \notin g.free \cup Live(g)
    <3>1. CASE k = i
      <4>1. g.inode[k].blk[n] = 0
        BY <1>7, <1>11, <3>1
      <4>2. 0 \notin g.free /\ 0 \notin Live(g)
        BY <1>4, <1>9 DEF Live
      <4> QED
        BY <4>1, <4>2
    <3>2. CASE k # i
      <4>1. g.inode[k].blk[n] = f.inode[k].blk[n]
        BY <1>7, <3>2
      <4> QED
        BY <1>6, <1>12, <1>14, <2>1, <3>2, <4>1
    <3> QED
      BY <3>1, <3>2
  <2>3. \A c \in Live(g) : c \notin g.free
    <3>1. \A c \in Live(f) : c \notin f.free /\ c \notin B
      BY <1>4, <2>1 DEF Sound, Partition
    <3> QED
      BY <1>6, <1>12, <3>1
  <2>4. ASSUME NEW c \in Free \ g.free PROVE c \in Live(g) \/ \E k \in Inums : c \in BlocksOf(g, k)
    <3>1. c \in Free \ f.free /\ c \notin B /\ c # i
      BY <1>6
    <3>2. c \in Live(f) \/ \E k \in Inums : c \in BlocksOf(f, k)
      BY <3>1 DEF Sound, Partition
    <3> QED
      BY <1>3, <1>12, <1>13, <3>1, <3>2
  <2> QED
    BY <2>2, <2>3, <2>4 DEF Partition
<1>19. Shapes(g)
  <2>1. Shapes(f)
    BY DEF Sound
  <2>2. Root \in Dirs(g) /\ \A k \in Inums \ Live(g) : g.inode[k] = NoInode
    BY <1>7, <1>12, <2>1 DEF Shapes
  <2>3. \A d \in Dirs(g) : d \in Dirs(f) /\ g.inode[d] = f.inode[d]
    BY <1>7, <1>12 DEF Dirs
  <2> QED
    BY <2>1, <2>2, <2>3 DEF Shapes
<1>20. Names1(g)
  <2>1. Names1(f)
    BY DEF Sound
  <2>2. ASSUME NEW d \in Dirs(g), NEW s \in Places(g, d)
        PROVE  /\ Ent(g, s) = NoEnt \/ (Ent(g, s).name # "" /\ Ent(g, s).inum \in Live(g) \ {Root})
               /\ \A t \in Places(g, d) : Ent(g, s).name # "" /\ Ent(g, s).name = Ent(g, t).name => s = t
    <3>1. d \in Dirs(f) /\ d \in Inums /\ d # i /\ Places(g, d) = Places(f, d)
      BY <1>12, <1>13 DEF Dirs
    <3>2. \A t \in Places(f, d) : Ent(g, t) = Ent(f, t)
      BY <1>15, <3>1
    <3>3. Ent(f, s) = NoEnt \/ (Ent(f, s).name # "" /\ Ent(f, s).inum \in Live(f) \ {Root})
      BY <2>1, <3>1 DEF Names1
    <3>4. \A t \in Places(f, d) : Ent(f, s).name # "" /\ Ent(f, s).name = Ent(f, t).name => s = t
      BY <2>1, <3>1 DEF Names1
    <3>5. Ent(f, s) # NoEnt => Ent(f, s).inum # i
      BY <3>1, EntLeads
    <3> QED
      BY <1>12, <3>1, <3>2, <3>3, <3>4, <3>5
  <2> QED
    BY <2>2, Zenon DEF Names1
<1>21. Links(g)
  <2>1. ASSUME NEW k \in Live(g) \ {Root} PROVE Cardinality(SlotsOf(g, k)) <= g.inode[k].nlink
    <3>1. k \in Live(f) \ {Root} /\ k \in Inums /\ g.inode[k] = f.inode[k]
      BY <1>7, <1>12 DEF Live
    <3>2. SlotsOf(g, k) \subseteq SlotsOf(f, k) /\ IsFiniteSet(SlotsOf(f, k))
      BY <1>1, <1>16, <3>1, FiniteSlots
    <3>3. Cardinality(SlotsOf(g, k)) <= Cardinality(SlotsOf(f, k))
      BY <3>2, FS_Subset
    <3>4. Cardinality(SlotsOf(f, k)) <= f.inode[k].nlink
      BY <3>1 DEF Sound, Links
    <3>5. Cardinality(SlotsOf(g, k)) \in Nat /\ Cardinality(SlotsOf(f, k)) \in Nat
      BY <1>1, <1>10, FiniteSlots
    <3>6. g.inode[k].nlink = f.inode[k].nlink /\ f.inode[k].nlink \in Nat
      BY <1>1, <3>1, InodeIs
    <3> QED
      BY <3>3, <3>4, <3>5, <3>6
  <2> QED
    BY <2>1 DEF Links
<1>22. g.ents[0] = EmptyBlk
  BY <1>4, <1>8 DEF Sound
<1>23. Sound(g)
  BY <1>10, <1>17, <1>18, <1>19, <1>20, <1>21, <1>22 DEF Sound
<1> QED
  BY <1>7, <1>12, <1>13, <1>15, <1>16, <1>23

-----------------------------------------------------------------------------
(* Paths *)

\* An entry of a directory leads from it by a name to an inode.
Holds(f, s, name, i) == Ent(f, s) = [name |-> name, inum |-> i]

Step(f, d, name, i) == name \in AllNames /\ \E s \in Places(f, d) : Holds(f, s, name, i)

\* The inodes from the root along the first k names of a path.
Chain(f, p, k, c) ==
  /\ c \in [0..k -> Inums] /\ c[0] = Root
  /\ \A m \in 1..k : c[m-1] \in Dirs(f) /\ Step(f, c[m-1], p[m], c[m])

LEMMA SlotIsOne ==
  ASSUME NEW f, Sound(f), NEW d \in Dirs(f), NEW name \in AllNames, NEW i, NEW j,
         NEW s \in Places(f, d), NEW t \in Places(f, d), Holds(f, s, name, i), Holds(f, t, name, j)
  PROVE  s = t /\ i = j
<1>1. Ent(f, s).name = name /\ Ent(f, t).name = name
  BY DEF Holds
<1>2. s = t
  <2>1. Ent(f, s).name # ""
    BY <1>1, NamesAre, Zenon
  <2>2. Ent(f, s).name = Ent(f, t).name
    BY <1>1
  <2> QED
    BY <2>1, <2>2 DEF Sound, Names1
<1> QED
  BY <1>2 DEF Holds

LEMMA StepIsOne ==
  ASSUME NEW f, Sound(f), NEW d \in Dirs(f), NEW name, NEW i, NEW j,
         Step(f, d, name, i), Step(f, d, name, j)
  PROVE  i = j
BY SlotIsOne DEF Step

\* A path leads to one inode.
LEMMA ChainIsOne ==
  ASSUME NEW f, Sound(f), NEW p, NEW k \in Nat, NEW c, Chain(f, p, k, c), NEW e, Chain(f, p, k, e)
  PROVE  \A m \in 0..k : c[m] = e[m]
<1> DEFINE P == {m \in Nat : m <= k => c[m] = e[m]}
<1>1. 0 \in P
  BY DEF Chain
<1>2. ASSUME NEW m \in Nat, m \in P PROVE m + 1 \in P
  <2> SUFFICES ASSUME m + 1 <= k PROVE c[m + 1] = e[m + 1]
    OBVIOUS
  <2>1. m + 1 \in 1..k /\ (m + 1) - 1 = m /\ m <= k
    OBVIOUS
  <2>2. c[m] = e[m]
    BY <1>2, <2>1
  <2>3. c[m] \in Dirs(f) /\ Step(f, c[m], p[m + 1], c[m + 1])
    <3>1. c[(m + 1) - 1] \in Dirs(f) /\ Step(f, c[(m + 1) - 1], p[m + 1], c[m + 1])
      BY <2>1, Zenon DEF Chain
    <3> QED
      BY <2>1, <3>1
  <2>4. Step(f, e[m], p[m + 1], e[m + 1])
    <3>1. Step(f, e[(m + 1) - 1], p[m + 1], e[m + 1])
      BY <2>1, Zenon DEF Chain
    <3> QED
      BY <2>1, <3>1
  <2>5. Step(f, c[m], p[m + 1], e[m + 1])
    BY <2>2, <2>4
  <2> QED
    BY <2>3, <2>5, StepIsOne
<1> HIDE DEF P
<1>3. Nat \subseteq P
  BY <1>1, <1>2, SetInduction
<1> QED
  BY <1>3 DEF P

LEMMA ChainStart ==
  ASSUME NEW f, NEW p
  PROVE  \E c : Chain(f, p, 0, c) /\ c[0] = Root
<1>1. PICK c : c = [m \in 0..0 |-> Root]
  OBVIOUS
<1>2. c \in [0..0 -> Inums] /\ c[0] = Root
  BY <1>1, Basics
<1> QED
  BY <1>2 DEF Chain

LEMMA ChainOn ==
  ASSUME NEW f, NEW p, NEW k \in Nat, NEW c, Chain(f, p, k, c), c[k] \in Dirs(f),
         NEW i \in Inums, Step(f, c[k], p[k + 1], i)
  PROVE  \E e : Chain(f, p, k + 1, e) /\ e[k + 1] = i /\ e[k] = c[k]
<1>1. PICK e : e = [m \in 0..k+1 |-> IF m = k + 1 THEN i ELSE c[m]]
  OBVIOUS
<1>2. c \in [0..k -> Inums] /\ c[0] = Root
  BY DEF Chain
<1>3. e[k + 1] = i /\ \A m \in 0..k : e[m] = c[m]
  BY <1>1
<1>4. e \in [0..k+1 -> Inums]
  BY <1>1, <1>2
<1>5. ASSUME NEW m \in 1..k+1 PROVE e[m-1] \in Dirs(f) /\ Step(f, e[m-1], p[m], e[m])
  <2>1. CASE m = k + 1
    <3>1. m - 1 = k /\ k \in 0..k
      BY <2>1
    <3>2. e[m-1] = c[k] /\ e[m] = i
      BY <1>3, <2>1, <3>1
    <3> QED
      BY <2>1, <3>2
  <2>2. CASE m # k + 1
    <3>1. m \in 1..k /\ m - 1 \in 0..k /\ m \in 0..k
      BY <2>2
    <3>2. e[m-1] = c[m-1] /\ e[m] = c[m]
      BY <1>3, <3>1
    <3>3. c[m-1] \in Dirs(f) /\ Step(f, c[m-1], p[m], c[m])
      BY <3>1, Zenon DEF Chain
    <3> QED
      BY <3>2, <3>3
  <2> QED
    BY <2>1, <2>2
<1>6. Chain(f, p, k + 1, e)
  <2>1. e[0] = Root
    BY <1>2, <1>3
  <2> QED
    BY <1>4, <1>5, <2>1 DEF Chain
<1> QED
  BY <1>3, <1>6

LEMMA ChainBack ==
  ASSUME NEW f, NEW p, NEW k \in Nat, NEW c, Chain(f, p, k + 1, c)
  PROVE  /\ c[k] \in Dirs(f) /\ Step(f, c[k], p[k + 1], c[k + 1])
         /\ \E e : Chain(f, p, k, e) /\ e[k] = c[k]
<1>1. k + 1 \in 1..k+1 /\ (k + 1) - 1 = k
  OBVIOUS
<1>2. c[k] \in Dirs(f) /\ Step(f, c[k], p[k + 1], c[k + 1])
  <2>1. c[(k + 1) - 1] \in Dirs(f) /\ Step(f, c[(k + 1) - 1], p[k + 1], c[k + 1])
    BY <1>1, Zenon DEF Chain
  <2> QED
    BY <1>1, <2>1
<1>3. PICK e : e = [m \in 0..k |-> c[m]]
  OBVIOUS
<1>4. e \in [0..k -> Inums] /\ \A m \in 0..k : e[m] = c[m]
  BY <1>3 DEF Chain
<1>5. e[0] = Root /\ e[k] = c[k]
  BY <1>4 DEF Chain
<1>6. ASSUME NEW m \in 1..k PROVE e[m-1] \in Dirs(f) /\ Step(f, e[m-1], p[m], e[m])
  <2>1. m \in 1..k+1 /\ m - 1 \in 0..k /\ m \in 0..k
    OBVIOUS
  <2>2. c[m-1] \in Dirs(f) /\ Step(f, c[m-1], p[m], c[m])
    BY <2>1, Zenon DEF Chain
  <2> QED
    BY <1>4, <2>1, <2>2
<1> QED
  BY <1>2, <1>4, <1>5, <1>6 DEF Chain

-----------------------------------------------------------------------------
(* Walking a path *)

WalkStart(f) == [r |-> "ok", fs |-> f, dir |-> 0, ino |-> Root, slot |-> <<0, 0>>]

WalkRule(f, path, m, g) ==
  [k \in 0..m |-> IF k = 0 THEN WalkStart(f) ELSE WalkTurn(g[k-1], path, k)]

\* The turns of the loop are defined.
LEMMA WalkTurns ==
  ASSUME NEW f, NEW path, NEW m \in Nat
  PROVE  \E g : g = WalkRule(f, path, m, g)
<1> DEFINE P == {k \in Nat : \E g : g = WalkRule(f, path, k, g)}
<1>1. 0 \in P
  <2>1. PICK g : g = [n \in 0..0 |-> WalkStart(f)]
    OBVIOUS
  <2>2. g = WalkRule(f, path, 0, g)
    BY <2>1 DEF WalkRule
  <2> QED
    BY <2>2
<1>2. ASSUME NEW k \in Nat, k \in P PROVE k + 1 \in P
  <2>1. PICK g : g = WalkRule(f, path, k, g)
    BY <1>2
  <2>2. PICK h : h = [n \in 0..k+1 |-> IF n = k + 1 THEN WalkTurn(g[k], path, k + 1) ELSE g[n]]
    OBVIOUS
  <2>3. \A n \in 0..k : h[n] = g[n]
    BY <2>2
  <2>4. ASSUME NEW n \in 0..k+1
        PROVE  h[n] = IF n = 0 THEN WalkStart(f) ELSE WalkTurn(h[n-1], path, n)
    <3>1. CASE n = k + 1
      <4>1. h[n] = WalkTurn(g[k], path, k + 1)
        BY <2>2, <3>1
      <4>2. n # 0 /\ n - 1 = k /\ k \in 0..k
        BY <3>1
      <4>3. h[n - 1] = g[k]
        BY <2>3, <4>2
      <4> QED
        BY <3>1, <4>1, <4>2, <4>3, Zenon
    <3>2. CASE n # k + 1
      <4>1. n \in 0..k
        BY <3>2
      <4>2. g[n] = IF n = 0 THEN WalkStart(f) ELSE WalkTurn(g[n-1], path, n)
        BY <2>1, <4>1 DEF WalkRule
      <4>3. n # 0 => n - 1 \in 0..k
        BY <4>1
      <4>4. n # 0 => h[n - 1] = g[n - 1]
        BY <2>3, <4>3
      <4>5. h[n] = g[n]
        BY <2>3, <4>1
      <4> QED
        BY <4>2, <4>4, <4>5, Zenon
    <3> QED
      BY <3>1, <3>2
  <2>5. h = WalkRule(f, path, k + 1, h)
    BY <2>2, <2>4 DEF WalkRule
  <2> QED
    BY <2>5
<1> HIDE DEF P
<1>3. Nat \subseteq P
  BY <1>1, <1>2, SetInduction
<1> QED
  BY <1>3 DEF P

\* The entry a walk has come to by the first k names.
Reached(f, path, k, w) ==
  \E c : /\ Chain(f, path, k, c) /\ c[k] = w.ino
         /\ k # 0 => /\ w.dir = c[k-1] /\ w.dir \in Dirs(f) /\ w.slot \in Places(f, w.dir)
                     /\ Holds(f, w.slot, path[k], w.ino)

\* The directory that has all of a path but its last name.
Lacking(f, path, k, w) ==
  /\ k = Len(path) /\ k # 0 /\ w.dir \in Dirs(f) /\ Lacks(w.fs, w.dir, path[k])
  /\ \E c : Chain(f, path, k - 1, c) /\ c[k-1] = w.dir

\* There is no directory that has all of a path but its last name.
NoParent(f, path, k) ==
  k = Len(path) => \A c : Chain(f, path, k - 1, c) => c[k-1] \notin Dirs(f)

\* How far a walk has come.
WalkSoFar(f, path, k, w) ==
  /\ w = [r |-> w.r, fs |-> w.fs, dir |-> w.dir, ino |-> w.ino, slot |-> w.slot]
  /\ w.r \in {"ok", "ENOENT", "ENOSPC"}
  /\ Sound(w.fs) /\ Fills(f, w.fs)
  /\ w.r = "ok" => w.fs = f /\ Reached(f, path, k, w)
  /\ w.r # "ok" => \A c : ~Chain(f, path, k, c)
  /\ w.r = "ENOSPC" => w.fs = f /\ f.free = {} /\ Hole(f)
  /\ w.r = "ENOENT" /\ w.dir # 0 => Lacking(f, path, k, w)
  /\ w.r = "ENOENT" /\ w.dir = 0 => NoParent(f, path, k)

LEMMA WalkFields ==
  ASSUME NEW a, NEW b, NEW c, NEW d, NEW e, NEW p, NEW q, NEW u,
         NEW w, w = [r |-> a, fs |-> b, dir |-> c, ino |-> d, slot |-> e],
         NEW v, v = [w EXCEPT !.r = p, !.fs = q, !.dir = u]
  PROVE  v = [r |-> p, fs |-> q, dir |-> u, ino |-> d, slot |-> e]
<1>1. /\ v = [r |-> v.r, fs |-> v.fs, dir |-> v.dir, ino |-> v.ino, slot |-> v.slot]
      /\ v.r = p /\ v.fs = q /\ v.dir = u /\ v.ino = d /\ v.slot = e
  OBVIOUS
<1> QED
  BY <1>1, Zenon

\* What a turn of the loop does with what dir_lookup returns.
LEMMA WalkTurnCases ==
  ASSUME NEW f, NEW path, NEW k, NEW dir, NEW old, NEW x,
         NEW w, w = [r |-> "ok", fs |-> f, dir |-> x, ino |-> dir, slot |-> old],
         NEW wanted, wanted = {path[k]}, NEW l, l = ScanDir(f, dir, wanted), NEW v, v = WalkTurn(w, path, k)
  PROVE  /\ f.inode[dir].mode # "dir" =>
              v = [r |-> "ENOENT", fs |-> f, dir |-> 0, ino |-> dir, slot |-> old]
         /\ f.inode[dir].mode = "dir" /\ l.r = "ok" =>
              v = [r |-> "ok", fs |-> l.fs, dir |-> dir, ino |-> Ent(l.fs, l.slot).inum, slot |-> l.slot]
         /\ f.inode[dir].mode = "dir" /\ l.r # "ok" =>
              v = [r |-> l.r, fs |-> l.fs, dir |-> IF l.r = "ENOENT" /\ k = Len(path) THEN dir ELSE 0,
                   ino |-> dir, slot |-> old]
<1>1. w.r = "ok" /\ w.fs = f /\ w.ino = dir /\ w.slot = old
  OBVIOUS
<1>2. CASE f.inode[dir].mode # "dir"
  <2>1. v = [w EXCEPT !.r = "ENOENT", !.dir = 0]
    BY <1>1, <1>2, Zenon DEF WalkTurn
  <2> QED
    BY <1>2, <2>1
<1>3. CASE f.inode[dir].mode = "dir"
  <2>1. l = dir_lookup(f, dir, path[k])
    BY Zenon DEF dir_lookup
  <2>2. PICK last, y : last = (k = Len(path)) /\ y = IF l.r = "ENOENT" /\ last THEN dir ELSE 0
    OBVIOUS
  <2>3. v = IF l.r = "ok"
            THEN [r |-> "ok", fs |-> l.fs, dir |-> dir,
                  ino |-> l.fs.ents[l.slot[1]][l.slot[2]].inum, slot |-> l.slot]
            ELSE [w EXCEPT !.r = l.r, !.fs = l.fs, !.dir = y]
    BY <1>1, <1>3, <2>1, <2>2, Zenon DEF WalkTurn
  <2>4. PICK lr, lf, ls : lr = l.r /\ lf = l.fs /\ ls = l.slot
    OBVIOUS
  <2>5. [w EXCEPT !.r = lr, !.fs = lf, !.dir = y] = [r |-> lr, fs |-> lf, dir |-> y, ino |-> dir, slot |-> old]
    <3>1. PICK u : u = [w EXCEPT !.r = lr, !.fs = lf, !.dir = y]
      OBVIOUS
    <3>2. u = [r |-> lr, fs |-> lf, dir |-> y, ino |-> dir, slot |-> old]
      BY <3>1, WalkFields, Zenon
    <3> QED
      BY <3>1, <3>2, Zenon
  <2>6. CASE lr = "ok"
    BY <1>3, <2>3, <2>4, <2>6, Zenon DEF Ent
  <2>7. CASE lr # "ok"
    <3>1. v = [r |-> lr, fs |-> lf, dir |-> y, ino |-> dir, slot |-> old]
      BY <2>3, <2>4, <2>5, <2>7, Zenon
    <3>2. y = IF lr = "ENOENT" /\ k = Len(path) THEN dir ELSE 0
      BY <2>2, <2>4, Zenon
    <3> QED
      BY <1>3, <2>4, <2>7, <3>1, <3>2, Zenon
  <2> QED
    BY <2>6, <2>7
<1> QED
  BY <1>2, <1>3, Zenon

\* There is a name after the first k.
GoesOn(path, k) == k + 1 <= Len(path)

LEMMA WalkTurnIs ==
  ASSUME NEW f, Sound(f), NEW path, IsPath(path), NEW k \in Nat, GoesOn(path, k),
         NEW w, WalkSoFar(f, path, k, w), NEW v, v = WalkTurn(w, path, k + 1)
  PROVE  WalkSoFar(f, path, k + 1, v)
<1>0. f \in Disks /\ k + 1 \in 1..Len(path) /\ path[k + 1] \in AllNames /\ Len(path) \in Nat /\ (k + 1) - 1 = k
  <2>1. Len(path) \in Nat /\ path \in [1..Len(path) -> AllNames]
    BY DEF IsPath
  <2>2. k + 1 \in 1..Len(path)
    BY <2>1 DEF GoesOn
  <2> QED
    BY <2>1, <2>2 DEF Sound
<1>1. CASE w.r # "ok"
  <2>1. v = w
    BY <1>1 DEF WalkTurn
  <2>2. ASSUME NEW c, Chain(f, path, k + 1, c) PROVE FALSE
    <3>1. \E e : Chain(f, path, k, e)
      BY <2>2, ChainBack
    <3> QED
      BY <1>1, <3>1 DEF WalkSoFar
  <2>3. ~(w.r = "ENOENT" /\ w.dir # 0)
    <3>1. k # Len(path)
      BY <1>0
    <3> QED
      BY <3>1 DEF WalkSoFar, Lacking
  <2>4. NoParent(f, path, k + 1)
    <3>1. \A c : ~Chain(f, path, (k + 1) - 1, c)
      BY <1>0, <1>1 DEF WalkSoFar
    <3> QED
      BY <3>1, Zenon DEF NoParent
  <2> QED
    BY <1>1, <2>1, <2>2, <2>3, <2>4 DEF WalkSoFar
<1>2. CASE w.r = "ok"
  <2>1. PICK dir, old : dir = w.ino /\ old = w.slot
    OBVIOUS
  <2>2. w = [r |-> "ok", fs |-> f, dir |-> w.dir, ino |-> dir, slot |-> old] /\ Fills(f, f)
    BY <1>2, <2>1 DEF WalkSoFar
  <2>3. PICK c : Chain(f, path, k, c) /\ c[k] = dir
    BY <1>2, <2>1 DEF WalkSoFar, Reached
  <2>4. dir \in Inums
    <3>1. c \in [0..k -> Inums] /\ k \in 0..k
      BY <2>3 DEF Chain
    <3> QED
      BY <2>3, <3>1
  <2>5. ASSUME NEW e, Chain(f, path, k + 1, e)
        PROVE  dir \in Dirs(f) /\ Step(f, dir, path[k + 1], e[k + 1])
    <3>1. /\ e[k] \in Dirs(f) /\ Step(f, e[k], path[k + 1], e[k + 1])
          /\ \E b : Chain(f, path, k, b) /\ b[k] = e[k]
      BY <2>5, ChainBack
    <3>2. PICK b : Chain(f, path, k, b) /\ b[k] = e[k]
      BY <3>1
    <3>3. b[k] = c[k]
      <4>1. k \in 0..k
        OBVIOUS
      <4> QED
        BY <2>3, <3>2, <4>1, ChainIsOne
    <3> QED
      BY <2>3, <3>1, <3>2, <3>3
  <2>x. PICK wanted, l, x : wanted = {path[k + 1]} /\ l = ScanDir(f, dir, wanted) /\ x = w.dir
    OBVIOUS
  <2>y. /\ f.inode[dir].mode # "dir" =>
             v = [r |-> "ENOENT", fs |-> f, dir |-> 0, ino |-> dir, slot |-> old]
        /\ f.inode[dir].mode = "dir" /\ l.r = "ok" =>
             v = [r |-> "ok", fs |-> l.fs, dir |-> dir, ino |-> Ent(l.fs, l.slot).inum, slot |-> l.slot]
        /\ f.inode[dir].mode = "dir" /\ l.r # "ok" =>
             v = [r |-> l.r, fs |-> l.fs, dir |-> IF l.r = "ENOENT" /\ k + 1 = Len(path) THEN dir ELSE 0,
                  ino |-> dir, slot |-> old]
    <3>1. PICK m : m = k + 1
      OBVIOUS
    <3>2. w = [r |-> "ok", fs |-> f, dir |-> x, ino |-> dir, slot |-> old] /\ wanted = {path[m]}
          /\ l = ScanDir(f, dir, wanted) /\ v = WalkTurn(w, path, m)
      BY <2>2, <2>x, <3>1, Zenon
    <3>3. /\ f.inode[dir].mode # "dir" =>
               v = [r |-> "ENOENT", fs |-> f, dir |-> 0, ino |-> dir, slot |-> old]
          /\ f.inode[dir].mode = "dir" /\ l.r = "ok" =>
               v = [r |-> "ok", fs |-> l.fs, dir |-> dir, ino |-> Ent(l.fs, l.slot).inum, slot |-> l.slot]
          /\ f.inode[dir].mode = "dir" /\ l.r # "ok" =>
               v = [r |-> l.r, fs |-> l.fs, dir |-> IF l.r = "ENOENT" /\ m = Len(path) THEN dir ELSE 0,
                    ino |-> dir, slot |-> old]
      BY <3>2, WalkTurnCases
    <3> QED
      BY <3>1, <3>3, Zenon
  <2>6. CASE f.inode[dir].mode # "dir"
    <3>2. v = [r |-> "ENOENT", fs |-> f, dir |-> 0, ino |-> dir, slot |-> old]
      BY <2>6, <2>y, Zenon
    <3>3. \A e : ~Chain(f, path, k + 1, e)
      BY <2>5, <2>6 DEF Dirs
    <3>4. NoParent(f, path, k + 1)
      <4>1. ASSUME NEW e, Chain(f, path, (k + 1) - 1, e) PROVE e[(k + 1) - 1] \notin Dirs(f)
        <5>1. Chain(f, path, k, e) /\ k \in 0..k
          BY <1>0, <4>1
        <5>2. e[k] = c[k]
          BY <2>3, <5>1, ChainIsOne
        <5>3. dir \notin Dirs(f)
          BY <2>6 DEF Dirs
        <5> QED
          BY <1>0, <2>3, <5>2, <5>3
      <4> QED
        BY <4>1, Zenon DEF NoParent
    <3> QED
      BY <2>2, <3>2, <3>3, <3>4 DEF WalkSoFar
  <2>7. CASE f.inode[dir].mode = "dir"
    <3>0. dir \in Dirs(f)
      BY <2>4, <2>7 DEF Dirs
    <3>1. PICK name : name = path[k + 1] /\ wanted = {name}
      BY <2>x
    <3>2. name \in AllNames /\ RealNames(wanted)
      BY <1>0, <3>1, NamesAre, Zenon DEF RealNames
    <3>3. l = ScanDir(f, dir, wanted)
      BY <2>x
    <3>4. /\ l.r \in {"ok", "ENOENT", "ENOSPC"} /\ Sound(l.fs) /\ Fills(f, l.fs)
          /\ l.r = "ok" => l.slot \in Places(l.fs, dir) /\ Ent(l.fs, l.slot).name \in wanted
          /\ l.r # "ok" => \A t \in Places(l.fs, dir) : Ent(l.fs, t).name \notin wanted
          /\ l.r = "ENOSPC" => l.fs.free = {} /\ Hole(l.fs)
      BY <3>0, <3>3, ScanIs
    <3>5. l.r # "ENOENT" => l.fs = f
      BY <3>0, <3>2, <3>3, ScanLeft
    <3>6. /\ l.r = "ok" =>
               v = [r |-> "ok", fs |-> l.fs, dir |-> dir, ino |-> Ent(l.fs, l.slot).inum, slot |-> l.slot]
          /\ l.r # "ok" =>
               v = [r |-> l.r, fs |-> l.fs, dir |-> IF l.r = "ENOENT" /\ k + 1 = Len(path) THEN dir ELSE 0,
                    ino |-> dir, slot |-> old]
      BY <2>7, <2>y, Zenon
    <3>7. CASE l.r = "ok"
      <4>1. PICK s, i : s = l.slot /\ i = Ent(f, s).inum
        OBVIOUS
      <4>2. s \in Places(f, dir) /\ Ent(f, s).name = name
        BY <3>1, <3>4, <3>5, <3>7, <4>1
      <4>3. v = [r |-> "ok", fs |-> f, dir |-> dir, ino |-> i, slot |-> s]
        BY <3>5, <3>6, <3>7, <4>1
      <4>4. Ent(f, s) # NoEnt
        <5>1. NoEnt.name = ""
          BY DEF NoEnt
        <5> QED
          BY <3>2, <4>2, <5>1, NamesAre, Zenon
      <4>5. Holds(f, s, name, i) /\ i \in Inums
        <5>1. Ent(f, s).inum \in Live(f) \ {Root} /\ Ent(f, s) = [name |-> Ent(f, s).name, inum |-> Ent(f, s).inum]
          BY <3>0, <4>2, <4>4, EntLeads
        <5> QED
          BY <4>1, <4>2, <5>1 DEF Holds, Live
      <4>6. Step(f, c[k], path[k + 1], i)
        BY <2>3, <3>1, <3>2, <4>2, <4>5 DEF Step
      <4>7. PICK e : Chain(f, path, k + 1, e) /\ e[k + 1] = i /\ e[k] = c[k]
        BY <2>3, <3>0, <4>5, <4>6, ChainOn
      <4>8. Reached(f, path, k + 1, v)
        <5>1. v.dir = dir /\ v.ino = i /\ v.slot = s
          BY <4>3
        <5>2. v.dir = e[(k + 1) - 1] /\ v.dir \in Dirs(f) /\ v.slot \in Places(f, v.dir)
              /\ Holds(f, v.slot, path[k + 1], v.ino) /\ e[k + 1] = v.ino
          BY <1>0, <2>3, <3>0, <3>1, <4>2, <4>5, <4>7, <5>1
        <5> QED
          BY <4>7, <5>2, Zenon DEF Reached
      <4> QED
        BY <2>2, <4>3, <4>8 DEF WalkSoFar
    <3>8. CASE l.r # "ok"
      <4>1. PICK g, d : g = l.fs /\ d = IF l.r = "ENOENT" /\ k + 1 = Len(path) THEN dir ELSE 0
        OBVIOUS
      <4>2. v = [r |-> l.r, fs |-> g, dir |-> d, ino |-> dir, slot |-> old]
        BY <3>6, <3>8, <4>1, Zenon
      <4>3. Lacks(g, dir, name) /\ Sound(g) /\ Fills(f, g)
        BY <3>1, <3>4, <3>8, <4>1 DEF Lacks
      <4>4. ASSUME NEW e, Chain(f, path, k + 1, e) PROVE FALSE
        <5>1. Step(f, dir, name, e[k + 1])
          BY <2>5, <3>1, <4>4
        <5>2. PICK s \in Places(f, dir) : Holds(f, s, name, e[k + 1])
          BY <5>1 DEF Step
        <5>3. s \in Places(g, dir) /\ Ent(g, s) = Ent(f, s)
          BY <2>4, <4>3, <5>2 DEF Fills
        <5>4. Ent(f, s).name = name
          BY <5>2 DEF Holds
        <5> QED
          BY <4>3, <5>3, <5>4 DEF Lacks
      <4>5. l.r = "ENOSPC" => g = f /\ f.free = {} /\ Hole(f)
        BY <3>4, <3>5, <4>1
      <4>6. d # 0 => Lacking(f, path, k + 1, v)
        <5> SUFFICES ASSUME d # 0 PROVE Lacking(f, path, k + 1, v)
          OBVIOUS
        <5>1. d = dir /\ k + 1 = Len(path) /\ v.dir = dir /\ v.fs = g
          BY <4>1, <4>2
        <5>2. k + 1 # 0 /\ v.dir \in Dirs(f) /\ Lacks(v.fs, v.dir, path[k + 1])
          BY <3>0, <3>1, <4>3, <5>1
        <5>3. \E b : Chain(f, path, (k + 1) - 1, b) /\ b[(k + 1) - 1] = v.dir
          BY <1>0, <2>3, <5>1
        <5> QED
          BY <5>1, <5>2, <5>3 DEF Lacking
      <4>7. l.r = "ENOENT" /\ d = 0 => NoParent(f, path, k + 1)
        <5> SUFFICES ASSUME l.r = "ENOENT", d = 0 PROVE NoParent(f, path, k + 1)
          OBVIOUS
        <5>1. dir # 0
          BY <2>4, Basics
        <5>2. k + 1 # Len(path)
          BY <4>1, <5>1
        <5> QED
          BY <5>2 DEF NoParent
      <4>8. v.r = l.r /\ v.fs = g /\ v.dir = d
        BY <4>2
      <4> QED
        BY <3>4, <3>8, <4>2, <4>3, <4>4, <4>5, <4>6, <4>7, <4>8 DEF WalkSoFar
    <3> QED
      BY <3>7, <3>8
  <2> QED
    BY <2>6, <2>7
<1> QED
  BY <1>1, <1>2

LEMMA PathIs ==
  ASSUME NEW path, IsPath(path)
  PROVE  Len(path) \in Nat /\ \A k \in 1..Len(path) : path[k] \in AllNames
BY DEF IsPath

LEMMA WalkLoop ==
  ASSUME NEW f, Sound(f), NEW path, IsPath(path)
  PROVE  WalkSoFar(f, path, Len(path), walk_path(f, path))
<1> DEFINE N == Len(path)
<1>0. N \in Nat
  BY PathIs
<1>1. PICK h : h = CHOOSE g : g = WalkRule(f, path, N, g)
  OBVIOUS
<1>2. h = WalkRule(f, path, N, h)
  <2>1. \E g : g = WalkRule(f, path, N, g)
    BY <1>0, WalkTurns
  <2> QED
    BY <1>1, <2>1, Zenon
<1>3. walk_path(f, path) = h[N]
  BY <1>1, Zenon DEF walk_path, WalkRule, WalkStart
<1> HIDE DEF N
<1> DEFINE P == {k \in Nat : k <= N => WalkSoFar(f, path, k, h[k])}
<1>4. 0 \in P
  <2>1. h[0] = WalkStart(f)
    BY <1>0, <1>2 DEF WalkRule
  <2>2. PICK c : Chain(f, path, 0, c) /\ c[0] = Root
    BY ChainStart
  <2>3. Reached(f, path, 0, WalkStart(f))
    BY <2>2 DEF Reached, WalkStart
  <2>4. WalkSoFar(f, path, 0, WalkStart(f))
    BY <2>3, FillsNothing DEF WalkSoFar, WalkStart
  <2> QED
    BY <2>1, <2>4
<1>5. ASSUME NEW k \in Nat, k \in P PROVE k + 1 \in P
  <2> SUFFICES ASSUME k + 1 <= N PROVE WalkSoFar(f, path, k + 1, h[k + 1])
    OBVIOUS
  <2>1. k + 1 \in 0..N /\ k + 1 # 0 /\ (k + 1) - 1 = k /\ k <= N
    BY <1>0
  <2>2. WalkSoFar(f, path, k, h[k])
    <3>1. k <= N => WalkSoFar(f, path, k, h[k])
      BY <1>5, Zenon
    <3> QED
      BY <2>1, <3>1, Zenon
  <2>3. h[k + 1] = WalkTurn(h[k], path, k + 1)
    <3>1. h[k + 1] = IF k + 1 = 0 THEN WalkStart(f) ELSE WalkTurn(h[(k + 1) - 1], path, k + 1)
      BY <1>2, <2>1, Zenon DEF WalkRule
    <3> QED
      BY <2>1, <3>1
  <2>4. GoesOn(path, k)
    BY DEF N, GoesOn
  <2>5. PICK w, v : w = h[k] /\ v = h[k + 1]
    OBVIOUS
  <2>6. WalkSoFar(f, path, k, w) /\ v = WalkTurn(w, path, k + 1)
    BY <2>2, <2>3, <2>5, Zenon
  <2> QED
    BY <2>4, <2>5, <2>6, WalkTurnIs
<1> HIDE DEF P
<1>6. N \in P
  BY <1>0, <1>4, <1>5, SetInduction
<1>7. WalkSoFar(f, path, N, h[N])
  BY <1>0, <1>6 DEF P
<1> QED
  BY <1>3, <1>7 DEF N

\* A path leads to an inode by an entry.
Leads(f, p, s, i) ==
  /\ p # <<>> /\ Last(p) \in AllNames /\ i \in Live(f) \ {Root}
  /\ \E c : /\ Chain(f, p, Len(p), c) /\ c[Len(p)] = i
            /\ c[Len(p)-1] \in Dirs(f) /\ s \in Places(f, c[Len(p)-1]) /\ Holds(f, s, Last(p), i)

\* A path has no more than its last name missing.
Misses(f, p, d, g) ==
  /\ p # <<>> /\ Last(p) \in AllNames /\ d \in Dirs(f) /\ Lacks(g, d, Last(p))
  /\ \E c : Chain(f, p, Len(p) - 1, c) /\ c[Len(p)-1] = d

LEMMA LastIs ==
  ASSUME NEW p, IsPath(p), p # <<>>
  PROVE  Len(p) \in Nat /\ Len(p) # 0 /\ Len(p) - 1 \in Nat /\ Last(p) = p[Len(p)] /\ Last(p) \in AllNames
<1>1. Len(p) \in Nat /\ Len(p) # 0 /\ \A k \in 1..Len(p) : p[k] \in AllNames
  <2>1. Len(p) # 0
    BY DEF IsPath
  <2> QED
    BY <2>1, PathIs
<1>2. Len(p) \in 1..Len(p) /\ Len(p) - 1 \in Nat
  BY <1>1
<1> QED
  BY <1>1, <1>2, Zenon DEF Last

LEMMA WalkIs ==
  ASSUME NEW f, Sound(f), NEW p, IsPath(p), NEW w, w = walk_path(f, p)
  PROVE  /\ w = [r |-> w.r, fs |-> w.fs, dir |-> w.dir, ino |-> w.ino, slot |-> w.slot]
         /\ w.r \in {"ok", "ENOENT", "ENOSPC"}
         /\ Sound(w.fs) /\ Fills(f, w.fs) /\ SameNames(f, w.fs)
         /\ w.r # "ENOENT" => w.fs = f
         /\ w.r = "ok" => IF p = <<>> THEN w.ino = Root ELSE Leads(f, p, w.slot, w.ino)
         /\ w.r # "ok" => \A c : ~Chain(f, p, Len(p), c)
         /\ w.r = "ENOSPC" => f.free = {} /\ Hole(f)
         /\ w.r = "ENOENT" /\ w.dir # 0 => Misses(f, p, w.dir, w.fs)
         /\ w.r = "ENOENT" /\ w.dir = 0 => \A c : Chain(f, p, Len(p) - 1, c) => c[Len(p)-1] \notin Dirs(f)
<1>1. WalkSoFar(f, p, Len(p), w)
  BY WalkLoop
<1>2. /\ w = [r |-> w.r, fs |-> w.fs, dir |-> w.dir, ino |-> w.ino, slot |-> w.slot]
      /\ w.r \in {"ok", "ENOENT", "ENOSPC"}
      /\ Sound(w.fs) /\ Fills(f, w.fs)
      /\ w.r = "ok" => w.fs = f /\ Reached(f, p, Len(p), w)
      /\ w.r # "ok" => \A c : ~Chain(f, p, Len(p), c)
      /\ w.r = "ENOSPC" => w.fs = f /\ f.free = {} /\ Hole(f)
      /\ w.r = "ENOENT" /\ w.dir # 0 => Lacking(f, p, Len(p), w)
      /\ w.r = "ENOENT" /\ w.dir = 0 => NoParent(f, p, Len(p))
  BY <1>1, Zenon DEF WalkSoFar
<1>3. w.r # "ENOENT" => w.fs = f
  BY <1>2
<1>4. SameNames(f, w.fs)
  BY <1>2, FillsSame
<1>5. ASSUME w.r = "ok" PROVE IF p = <<>> THEN w.ino = Root ELSE Leads(f, p, w.slot, w.ino)
  <2>1. CASE p = <<>>
    <3>1. Len(p) = 0
      BY <2>1
    <3>2. PICK c : Chain(f, p, 0, c) /\ c[0] = w.ino
      BY <1>2, <1>5, <3>1 DEF Reached
    <3> QED
      BY <2>1, <3>2 DEF Chain
  <2>2. CASE p # <<>>
    <3>1. PICK n, i, s, d : n = Len(p) /\ i = w.ino /\ s = w.slot /\ d = w.dir
      OBVIOUS
    <3>2. n # 0 /\ Last(p) = p[n] /\ Last(p) \in AllNames
      BY <2>2, <3>1, LastIs
    <3>3. PICK c : /\ Chain(f, p, n, c) /\ c[n] = i
                   /\ d = c[n-1] /\ d \in Dirs(f) /\ s \in Places(f, d) /\ Holds(f, s, p[n], i)
      BY <1>2, <1>5, <3>1, <3>2, Zenon DEF Reached
    <3>4. i \in Live(f) \ {Root}
      <4>1. Ent(f, s) # NoEnt /\ Ent(f, s).inum = i
        <5>1. Ent(f, s).name = Last(p) /\ Ent(f, s).inum = i
          BY <3>2, <3>3 DEF Holds
        <5>2. NoEnt.name = ""
          BY DEF NoEnt
        <5> QED
          BY <3>2, <5>1, <5>2, NamesAre, Zenon
      <4> QED
        BY <3>3, <4>1, EntLeads
    <3> QED
      BY <2>2, <3>1, <3>2, <3>3, <3>4, Zenon DEF Leads
  <2> QED
    BY <2>1, <2>2
<1>6. ASSUME w.r = "ENOENT", w.dir # 0 PROVE Misses(f, p, w.dir, w.fs)
  <2>1. PICK n, d, g : n = Len(p) /\ d = w.dir /\ g = w.fs
    OBVIOUS
  <2>2. /\ n # 0 /\ d \in Dirs(f) /\ Lacks(g, d, p[n])
        /\ \E c : Chain(f, p, n - 1, c) /\ c[n-1] = d
    BY <1>2, <1>6, <2>1, Zenon DEF Lacking
  <2>3. p # <<>>
    BY <2>1, <2>2
  <2>4. Last(p) = p[n] /\ Last(p) \in AllNames
    BY <2>1, <2>3, LastIs
  <2> QED
    BY <2>1, <2>2, <2>3, <2>4, Zenon DEF Misses
<1>7. w.r = "ENOENT" /\ w.dir = 0 => \A c : Chain(f, p, Len(p) - 1, c) => c[Len(p)-1] \notin Dirs(f)
  BY <1>2, Zenon DEF NoParent
<1> QED
  BY <1>2, <1>3, <1>4, <1>5, <1>6, <1>7

-----------------------------------------------------------------------------
(* Unlinking *)

LEMMA SetEntIsPut ==
  ASSUME NEW f \in Disks, NEW i, NEW nl, NEW s, NEW e
  PROVE  SetEnt([f EXCEPT !.inode[i].nlink = nl], s, e) = Put(f, i, nl, s, e)
<1>1. PICK F, I, E, b, j : F = f.free /\ I = f.inode /\ E = f.ents /\ b = s[1] /\ j = s[2]
  OBVIOUS
<1>2. f = [free |-> F, inode |-> I, ents |-> E]
  BY <1>1, DiskIs
<1>3. PICK J, y : J = [I EXCEPT ![i].nlink = nl] /\ y = [E EXCEPT ![b][j] = e]
  OBVIOUS
<1>4. [[free |-> F, inode |-> I, ents |-> E] EXCEPT !.inode[i].nlink = nl]
        = [free |-> F, inode |-> [I EXCEPT ![i].nlink = nl], ents |-> E]
  BY SMT
<1>5. [[free |-> F, inode |-> J, ents |-> E] EXCEPT !.ents[b][j] = e]
        = [free |-> F, inode |-> J, ents |-> [E EXCEPT ![b][j] = e]]
  BY SMT
<1>6. SetEnt([f EXCEPT !.inode[i].nlink = nl], s, e) = [free |-> F, inode |-> J, ents |-> y]
  BY <1>1, <1>2, <1>3, <1>4, <1>5, Zenon DEF SetEnt
<1> QED
  BY <1>1, <1>3, <1>6, Zenon DEF Put

LessOne(f, i) == f.inode[i].nlink - 1

\* The disk without an entry, and without the inode if it was its last one.
Without(f, s, i) ==
  IF LessOne(f, i) = 0 THEN inode_free(Put(f, i, LessOne(f, i), s, NoEnt), i)
  ELSE Put(f, i, LessOne(f, i), s, NoEnt)

LEMMA UnlinkIs ==
  ASSUME NEW f, Sound(f), NEW p, IsPath(p), p # <<>>, NEW u, u = inode_unlink(f, p)
  PROVE  \/ u.r \in {"ENOENT", "ENOSPC"} /\ Sound(u.fs) /\ SameNames(f, u.fs) /\ \A c : ~Chain(f, p, Len(p), c)
         \/ u.r = "ok" /\ \E s, i : Leads(f, p, s, i) /\ u.fs = Without(f, s, i)
<1>1. PICK w : w = walk_path(f, p)
  OBVIOUS
<1>2. /\ w = [r |-> w.r, fs |-> w.fs, dir |-> w.dir, ino |-> w.ino, slot |-> w.slot]
      /\ w.r \in {"ok", "ENOENT", "ENOSPC"} /\ Sound(w.fs) /\ SameNames(f, w.fs)
      /\ w.r # "ENOENT" => w.fs = f
      /\ w.r # "ok" => \A c : ~Chain(f, p, Len(p), c)
      /\ w.r = "ok" => Leads(f, p, w.slot, w.ino)
  BY <1>1, WalkIs
<1>3. CASE w.r # "ok"
  <2>1. u = w
    BY <1>1, <1>3, Zenon DEF inode_unlink
  <2> QED
    BY <1>2, <1>3, <2>1
<1>4. CASE w.r = "ok"
  <2>1. PICK s, i : s = w.slot /\ i = w.ino
    OBVIOUS
  <2>2. f \in Disks /\ i \in Inums /\ w.fs = f /\ Leads(f, p, s, i)
    BY <1>2, <1>4, <2>1 DEF Sound, Leads, Live
  <2>3. PICK g, nl : g = SetEnt([f EXCEPT !.inode[i].nlink = @ - 1], s, NoEnt) /\ nl = f.inode[i].nlink - 1
    OBVIOUS
  <2>4. g = Put(f, i, nl, s, NoEnt)
    <3>1. [f EXCEPT !.inode[i].nlink = @ - 1] = [f EXCEPT !.inode[i].nlink = nl]
      BY <2>3
    <3> QED
      BY <2>2, <2>3, <3>1, SetEntIsPut
  <2>5. u = [w EXCEPT !.fs = IF g.inode[i].nlink = 0 THEN inode_free(g, i) ELSE g]
    BY <1>1, <1>4, <2>1, <2>2, <2>3, Zenon DEF inode_unlink
  <2>6. u.r = "ok" /\ u.fs = IF g.inode[i].nlink = 0 THEN inode_free(g, i) ELSE g
    BY <1>2, <1>4, <2>5
  <2>7. g.inode[i].nlink = nl
    <3>1. PICK I, J : I = f.inode /\ J = [I EXCEPT ![i].nlink = nl]
      OBVIOUS
    <3>2. g.inode = J
      BY <2>4, <3>1 DEF Put
    <3>3. I \in [Inums -> Inode] /\ I[i] \in Inode
      BY <2>2, <3>1, DiskIs
    <3>4. J[i].nlink = nl
      BY <2>2, <3>1, <3>3 DEF Inode
    <3> QED
      BY <3>2, <3>4
  <2>8. u.fs = Without(f, s, i)
    BY <2>3, <2>4, <2>6, <2>7, Zenon DEF Without, LessOne
  <2> QED
    BY <2>2, <2>6, <2>8
<1> QED
  BY <1>3, <1>4

\* An inode goes with its last name.
Gone(f, i) == IF LessOne(f, i) = 0 THEN {i} ELSE {}

Surely(f, g, s, i) ==
  /\ Sound(g) /\ Live(g) = Live(f) \ Gone(f, i) /\ Dirs(g) = Dirs(f) \ Gone(f, i)
  /\ \A k \in Inums \ {i} : g.inode[k] = f.inode[k]
  /\ i \notin Gone(f, i) => g.inode[i].mode = f.inode[i].mode /\ g.inode[i].nlink = LessOne(f, i)
  /\ i \in Gone(f, i) => Places(g, i) = {}
  /\ \A k \in Inums \ Gone(f, i) : /\ Places(g, k) = Places(f, k)
                                   /\ \A t \in Places(f, k) : Ent(g, t) = IF t = s THEN NoEnt ELSE Ent(f, t)
  /\ \A k \in Inums : /\ i \notin Gone(f, i) => SlotsOf(g, k) = SlotsOf(f, k) \ {s}
                      /\ i \in Gone(f, i) => SlotsOf(g, k) = (SlotsOf(f, k) \ {s}) \ Places(f, i)

LEMMA WithoutIs ==
  ASSUME NEW f, Sound(f), NEW d \in Dirs(f), NEW s \in Places(f, d),
         NEW i \in Inums, i \in Live(f) \ {Root}, s \in SlotsOf(f, i), NEW g, g = Without(f, s, i)
  PROVE  Surely(f, g, s, i) /\ LessOne(f, i) \in Nat
<1>1. f \in Disks /\ d \in Inums
  BY DEF Sound, Dirs
<1>2. s \in Cells
  BY <1>1, PlaceIs
<1>3. PICK nl, h, e : nl = LessOne(f, i) /\ h = Put(f, i, nl, s, e) /\ e = NoEnt
  OBVIOUS
<1>4. nl \in Nat /\ CountsOneLess(f, i, nl)
  <2>1. f.inode[i].nlink \in Nat
    BY <1>1, InodeIs
  <2>2. Cardinality(SlotsOf(f, i)) <= f.inode[i].nlink
    BY DEF Sound, Links
  <2>3. IsFiniteSet(SlotsOf(f, i)) /\ Cardinality(SlotsOf(f, i)) \in Nat
    BY <1>1, FiniteSlots
  <2>4. Cardinality(SlotsOf(f, i)) # 0
    BY <2>3, FS_EmptySet
  <2>5. nl = f.inode[i].nlink - 1
    BY <1>3 DEF LessOne
  <2> QED
    BY <2>1, <2>2, <2>3, <2>4, <2>5 DEF CountsOneLess
<1>5. /\ Sound(h) /\ h.inode[i].nlink = nl
      /\ \A k \in Inums \ {i} : SlotsOf(h, k) = SlotsOf(f, k) /\ h.inode[k] = f.inode[k]
      /\ SlotsOf(h, i) = SlotsOf(f, i) \ {s}
      /\ Cardinality(SlotsOf(h, i)) + 1 = Cardinality(SlotsOf(f, i))
  <2>1. e \in Entry
    BY <1>3, Types
  <2> QED
    BY <1>3, <1>4, <2>1, EntryEmptied
<1>6. /\ Live(h) = Live(f) /\ Dirs(h) = Dirs(f) /\ \A k \in Inums : Places(h, k) = Places(f, k)
      /\ \A k \in Inums : SlotsOf(h, k) = SlotsOf(f, k) \ {s}
  <2>1. e \in Entry /\ e.inum = 0 /\ 0 \notin Inums
    BY <1>3, Types, Basics DEF NoEnt
  <2>2. /\ Live(h) = Live(f) /\ Dirs(h) = Dirs(f) /\ \A k \in Inums : Places(h, k) = Places(f, k)
        /\ \A k : SlotsOf(h, k) = IF e.inum = k THEN SlotsOf(f, k) \cup {s} ELSE SlotsOf(f, k) \ {s}
    BY <1>1, <1>3, <1>4, <2>1, PutSlots
  <2> QED
    BY <2>1, <2>2
<1>7. /\ h.inode[i].mode = f.inode[i].mode
      /\ \A k \in Inums : \A t \in Places(f, k) : Ent(h, t) = IF t = s THEN NoEnt ELSE Ent(f, t)
  <2>1. e \in Entry
    BY <1>3, Types
  <2>2. /\ \A k \in Inums : h.inode[k].mode = f.inode[k].mode
        /\ Ent(h, s) = e /\ \A t \in Cells : t # s => Ent(h, t) = Ent(f, t)
    BY <1>1, <1>2, <1>3, <1>4, <2>1, PutIs
  <2>3. \A k \in Inums : Places(f, k) \subseteq Cells
    BY <1>1, PlaceIs
  <2> QED
    BY <1>3, <2>2, <2>3
<1>8. CASE nl # 0
  <2>1. g = h /\ Gone(f, i) = {}
    BY <1>3, <1>8, Zenon DEF Without, Gone
  <2> QED
    BY <1>3, <1>4, <1>5, <1>6, <1>7, <2>1 DEF Surely
<1>9. CASE nl = 0
  <2>1. g = inode_free(h, i) /\ Gone(f, i) = {i}
    BY <1>3, <1>9, Zenon DEF Without, Gone
  <2>2. SlotsOf(h, i) = {}
    <3>1. Cardinality(SlotsOf(h, i)) \in Nat /\ IsFiniteSet(SlotsOf(h, i))
      <4>1. h \in Disks
        BY <1>5 DEF Sound
      <4> QED
        BY <4>1, FiniteSlots
    <3>2. Cardinality(SlotsOf(h, i)) = 0
      <4>1. Cardinality(SlotsOf(f, i)) <= nl + 1
        BY <1>4 DEF CountsOneLess
      <4> QED
        BY <1>5, <1>9, <3>1, <4>1
    <3> QED
      BY <3>1, <3>2, FS_EmptySet
  <2>3. i \in Live(h) \ {Root}
    BY <1>6
  <2>4. /\ Sound(g) /\ Live(g) = Live(h) \ {i} /\ Dirs(g) = Dirs(h) \ {i}
        /\ \A k \in Inums : k # i => g.inode[k] = h.inode[k]
        /\ Places(g, i) = {} /\ \A k \in Inums : k # i => Places(g, k) = Places(h, k)
        /\ \A k \in Inums : k # i => \A t \in Places(h, k) : Ent(g, t) = Ent(h, t)
        /\ \A k \in Inums : SlotsOf(g, k) = SlotsOf(h, k) \ Places(h, i)
    BY <1>5, <2>1, <2>2, <2>3, InodeFreed
  <2>5. \A k \in Inums \ {i} : g.inode[k] = f.inode[k]
    BY <1>5, <2>4
  <2>6. \A k \in Inums \ {i} : /\ Places(g, k) = Places(f, k)
                               /\ \A t \in Places(f, k) : Ent(g, t) = IF t = s THEN NoEnt ELSE Ent(f, t)
    BY <1>6, <1>7, <2>4
  <2>7. \A k \in Inums : SlotsOf(g, k) = (SlotsOf(f, k) \ {s}) \ Places(f, i)
    BY <1>6, <2>4
  <2> QED
    BY <1>3, <1>4, <1>6, <2>1, <2>4, <2>5, <2>6, <2>7 DEF Surely
<1> QED
  BY <1>8, <1>9

\* There is nothing in it.
Barren(f, i) == i \in Dirs(f) => \A t \in Places(f, i) : Ent(f, t) = NoEnt

\* A directory has one name; one inode may be about to lose a second.
OneNameBut(f, i) ==
  /\ \A d \in Dirs(f) \ {Root, i} : f.inode[d].nlink = 1
  /\ \A k \in Live(f) \ {Root} : f.inode[k].nlink # 0

LEMMA SameCounts ==
  ASSUME NEW f, NEW g, Sound(f), Sound(g), SameNames(f, g)
  PROVE  /\ Exact(f) => Exact(g)
         /\ OneName(f) => OneName(g)
         /\ \A k \in Inums : g.inode[k].mode = f.inode[k].mode /\ g.inode[k].nlink = f.inode[k].nlink
<1>1. \A k \in Inums : g.inode[k].mode = f.inode[k].mode /\ g.inode[k].nlink = f.inode[k].nlink
  BY DEF SameNames
<1>2. Dirs(g) = Dirs(f) /\ Live(g) = Live(f) /\ Live(f) \subseteq Inums /\ Dirs(f) \subseteq Inums
  BY SameDirs DEF Live, Dirs
<1>3. \A k \in Inums : SlotsOf(g, k) = SlotsOf(f, k)
  BY SameSlots
<1> QED
  BY <1>1, <1>2, <1>3 DEF Exact, OneName

LEMMA WithoutCounts ==
  ASSUME NEW f, Sound(f), NEW d \in Dirs(f), NEW s \in Places(f, d),
         NEW i \in Inums, i \in Live(f) \ {Root}, s \in SlotsOf(f, i), NEW g, Surely(f, g, s, i)
  PROVE  /\ Exact(f) /\ (i \in Gone(f, i) => Barren(f, i)) => Exact(g)
         /\ OneNameBut(f, i) /\ (i \in Dirs(f) => f.inode[i].nlink \in {1, 2}) => OneName(g)
<1>1. f \in Disks /\ d \in Inums /\ f.inode[i].nlink \in Nat /\ Live(f) \subseteq Inums /\ Dirs(f) \subseteq Inums
  BY InodeIs DEF Sound, Dirs, Live
<1>2. PICK G : G = Gone(f, i)
  OBVIOUS
<1>3. /\ Live(g) = Live(f) \ G /\ Dirs(g) = Dirs(f) \ G
      /\ \A k \in Inums \ {i} : g.inode[k] = f.inode[k]
      /\ i \notin G => g.inode[i].mode = f.inode[i].mode /\ g.inode[i].nlink = LessOne(f, i)
      /\ \A k \in Inums : /\ i \notin G => SlotsOf(g, k) = SlotsOf(f, k) \ {s}
                          /\ i \in G => SlotsOf(g, k) = (SlotsOf(f, k) \ {s}) \ Places(f, i)
  BY <1>2 DEF Surely
<1>4. G \subseteq {i} /\ (i \in G <=> LessOne(f, i) = 0)
  BY <1>2 DEF Gone
<1>5. \A k \in Inums \ {i} : s \notin SlotsOf(f, k)
  BY <1>1, SlotIs
<1>6. ASSUME i \in G => Barren(f, i), NEW k \in Inums \ {i}
      PROVE  SlotsOf(g, k) = SlotsOf(f, k)
  <2>1. CASE i \notin G
    <3>1. k \in Inums /\ s \notin SlotsOf(f, k)
      BY <1>5, <1>6
    <3>2. SlotsOf(g, k) = SlotsOf(f, k) \ {s}
      BY <1>3, <2>1, <3>1, Zenon
    <3> QED
      BY <3>1, <3>2
  <2>2. CASE i \in G
    <3>1. ASSUME NEW t \in SlotsOf(f, k), t \in Places(f, i) PROVE FALSE
      <4>1. PICK x \in Dirs(f) : t \in Places(f, x)
        BY <1>1, <3>1, SlotIs
      <4>2. Ent(f, t).inum = k
        BY <1>1, <3>1, SlotIs
      <4>3. x = i
        BY <1>1, <3>1, <4>1, OneDir
      <4>4. Ent(f, t) = NoEnt
        BY <1>6, <2>2, <3>1, <4>1, <4>3 DEF Barren
      <4>5. NoEnt.inum = 0 /\ 0 \notin Inums
        BY Basics DEF NoEnt
      <4>6. k \in Inums
        BY <1>6
      <4> QED
        BY <4>2, <4>4, <4>5, <4>6, Zenon
    <3>2. SlotsOf(g, k) = (SlotsOf(f, k) \ {s}) \ Places(f, i)
      BY <1>3, <2>2
    <3> QED
      BY <1>5, <3>1, <3>2
  <2> QED
    BY <2>1, <2>2
<1>7. ASSUME Exact(f), i \in G => Barren(f, i), NEW k \in Live(g) \ {Root}
      PROVE  Cardinality(SlotsOf(g, k)) = g.inode[k].nlink
  <2>1. CASE k = i
    <3>1. i \notin G /\ SlotsOf(g, i) = SlotsOf(f, i) \ {s}
      BY <1>3, <1>7, <2>1
    <3>2. Cardinality(SlotsOf(f, i)) = f.inode[i].nlink
      BY <1>7 DEF Exact
    <3>3. Cardinality(SlotsOf(f, i) \ {s}) = Cardinality(SlotsOf(f, i)) - 1
      <4>1. PICK S : S = SlotsOf(f, i)
        OBVIOUS
      <4>2. IsFiniteSet(S) /\ s \in S
        BY <1>1, <4>1, FiniteSlots
      <4>3. Cardinality(S \ {s}) = Cardinality(S) - 1
        BY <4>2, FS_RemoveElement
      <4> QED
        BY <4>1, <4>3
    <3> QED
      BY <1>3, <2>1, <3>1, <3>2, <3>3 DEF LessOne
  <2>2. CASE k # i
    <3>1. k \in Live(f) \ {Root} /\ k \in Inums \ {i}
      BY <1>1, <1>3, <1>7, <2>2
    <3>2. SlotsOf(g, k) = SlotsOf(f, k) /\ g.inode[k] = f.inode[k]
      BY <1>3, <1>6, <1>7, <3>1
    <3> QED
      BY <1>7, <3>1, <3>2 DEF Exact
  <2> QED
    BY <2>1, <2>2
<1>8. ASSUME OneNameBut(f, i), i \in Dirs(f) => f.inode[i].nlink \in {1, 2}, NEW k \in Dirs(g) \ {Root}
      PROVE  g.inode[k].nlink = 1
  <2>1. k \in Dirs(f) /\ k \in Inums /\ k \notin G
    BY <1>1, <1>3, <1>8
  <2>2. CASE k = i
    <3>1. g.inode[i].nlink = LessOne(f, i) /\ LessOne(f, i) # 0
      BY <1>3, <1>4, <2>1, <2>2
    <3>2. f.inode[i].nlink \in {1, 2}
      BY <1>8, <2>1, <2>2
    <3> QED
      BY <2>2, <3>1, <3>2 DEF LessOne
  <2>3. CASE k # i
    BY <1>3, <1>8, <2>1, <2>3 DEF OneNameBut
  <2> QED
    BY <2>2, <2>3
<1>9. Exact(f) /\ (i \in G => Barren(f, i)) => Exact(g)
  BY <1>7 DEF Exact
<1>10. ASSUME OneNameBut(f, i), NEW k \in Live(g) \ {Root}
       PROVE  g.inode[k].nlink # 0
  <2>1. k \in Live(f) /\ k \in Inums /\ k \notin G
    BY <1>1, <1>3, <1>10
  <2>2. CASE k = i
    BY <1>3, <1>4, <2>1, <2>2
  <2>3. CASE k # i
    BY <1>3, <1>10, <2>1, <2>3 DEF OneNameBut
  <2> QED
    BY <2>2, <2>3
<1>11. OneNameBut(f, i) /\ (i \in Dirs(f) => f.inode[i].nlink \in {1, 2}) => OneName(g)
  BY <1>8, <1>10 DEF OneName
<1> QED
  BY <1>2, <1>9, <1>11

-----------------------------------------------------------------------------
(* A new entry for an inode *)

Named(h, g, d, s, i, name) ==
  /\ Sound(g) /\ d \in Dirs(h) /\ s \in Places(h, d) /\ Ent(h, s) = NoEnt /\ Lacks(h, d, name)
  /\ i \in Inums \ {Root} /\ name \in AllNames
  /\ Live(g) = Live(h) \cup {i} /\ Dirs(h) \subseteq Dirs(g) /\ Dirs(g) \subseteq Dirs(h) \cup {i}
  /\ \A k \in Inums \ {i} : g.inode[k] = h.inode[k] /\ SlotsOf(g, k) = SlotsOf(h, k)
  /\ \A k \in Inums : /\ Places(g, k) = Places(h, k)
                      /\ \A t \in Places(h, k) : t # s => Ent(g, t) = Ent(h, t)
  /\ Holds(g, s, name, i)
  /\ SlotsOf(g, i) = SlotsOf(h, i) \cup {s} /\ Cardinality(SlotsOf(g, i)) = Cardinality(SlotsOf(h, i)) + 1

\* An entry for an inode that is there.
LEMMA LinkedIs ==
  ASSUME NEW h, Sound(h), NEW d \in Dirs(h), NEW s \in Places(h, d), Ent(h, s) = NoEnt,
         NEW i \in Inums, i \in Live(h) \ {Root}, NEW name \in AllNames, Lacks(h, d, name),
         NEW nl \in Nat, CountsOneMore(h, i, nl),
         NEW e, e = [name |-> name, inum |-> i], NEW g, g = Put(h, i, nl, s, e)
  PROVE  Named(h, g, d, s, i, name) /\ g.inode[i].nlink = nl /\ g.inode[i].mode = h.inode[i].mode
<1>1. h \in Disks /\ d \in Inums
  BY DEF Sound, Dirs
<1>2. s \in Cells
  BY <1>1, PlaceIs
<1>3. e \in Entry /\ Fits(h, d, e) /\ e.inum = i
  <2>1. e.name = name /\ e.inum = i
    OBVIOUS
  <2>2. i \in Free
    BY Basics
  <2>3. e \in Entry
    BY <2>2 DEF Entry
  <2>4. name # ""
    BY NamesAre, Zenon
  <2>5. Fits(h, d, e)
    BY <2>1, <2>4, Zenon DEF Fits
  <2> QED
    BY <2>1, <2>3, <2>5
<1>4. /\ Sound(g) /\ g.inode[i].nlink = nl
      /\ \A k \in Inums \ {i} : SlotsOf(g, k) = SlotsOf(h, k) /\ g.inode[k] = h.inode[k]
      /\ SlotsOf(g, i) = SlotsOf(h, i) \cup {s}
      /\ Cardinality(SlotsOf(g, i)) = Cardinality(SlotsOf(h, i)) + 1
  BY <1>3, EntryAdded
<1>5. /\ Live(g) = Live(h) /\ Dirs(g) = Dirs(h) /\ \A k \in Inums : Places(g, k) = Places(h, k)
  BY <1>3, PutSlots
<1>6. /\ \A k \in Inums : g.inode[k].mode = h.inode[k].mode
      /\ Ent(g, s) = e /\ \A t \in Cells : t # s => Ent(g, t) = Ent(h, t)
  BY <1>1, <1>2, <1>3, PutIs
<1>7. \A k \in Inums : Places(h, k) \subseteq Cells
  BY <1>1, PlaceIs
<1>8. Holds(g, s, name, i)
  BY <1>6, Zenon DEF Holds
<1>9. \A k \in Inums : /\ Places(g, k) = Places(h, k)
                       /\ \A t \in Places(h, k) : t # s => Ent(g, t) = Ent(h, t)
  BY <1>5, <1>6, <1>7
<1>10. Live(g) = Live(h) \cup {i} /\ Dirs(h) \subseteq Dirs(g) /\ Dirs(g) \subseteq Dirs(h) \cup {i}
  BY <1>5
<1>11. i \in Inums \ {Root}
  OBVIOUS
<1> QED
  BY <1>4, <1>6, <1>8, <1>9, <1>10, <1>11, Zenon DEF Named

\* An entry for a new inode.
LEMMA CreatedIs ==
  ASSUME NEW h, Sound(h), NEW d \in Dirs(h), NEW s \in Places(h, d), Ent(h, s) = NoEnt,
         NEW b \in h.free, NEW name \in AllNames, Lacks(h, d, name),
         NEW x, FreshInode(x), x.nlink = 1,
         NEW e, e = [name |-> name, inum |-> b], NEW g, g = Put(NewInode(h, b, x), b, 1, s, e)
  PROVE  /\ Named(h, g, d, s, b, name) /\ b \notin Live(h) /\ g.inode[b].nlink = 1
         /\ g.inode[b].mode = x.mode /\ SlotsOf(h, b) = {} /\ Places(h, b) = {}
         /\ g.inode[b].blk = x.blk /\ g.inode[b].size = x.size
<1>1. PICK k : k = NewInode(h, b, x)
  OBVIOUS
<1>2. /\ Sound(k) /\ Live(k) = Live(h) \cup {b} /\ b \notin Live(h) /\ b \in Inums /\ b # Root
      /\ Dirs(h) \subseteq Dirs(k) /\ k.inode[b] = x
      /\ \A j \in Inums : /\ j # b => k.inode[j] = h.inode[j]
                          /\ Places(k, j) = Places(h, j) /\ SlotsOf(k, j) = SlotsOf(h, j)
      /\ \A t : Ent(k, t) = Ent(h, t)
      /\ Places(k, b) = {} /\ SlotsOf(k, b) = {}
  BY <1>1, InodeAdded
<1>3. Dirs(k) \subseteq Dirs(h) \cup {b} /\ d \in Inums
  BY <1>2 DEF Dirs
<1>4. d \in Dirs(k) /\ s \in Places(k, d) /\ Ent(k, s) = NoEnt /\ Lacks(k, d, name)
  BY <1>2, <1>3 DEF Lacks
<1>5. PICK nl : nl = 1
  OBVIOUS
<1>6. nl \in Nat /\ CountsOneMore(k, b, nl)
  <2>1. Cardinality(SlotsOf(k, b)) = 0
    BY <1>2, FS_EmptySet
  <2> QED
    BY <1>5, <2>1 DEF CountsOneMore
<1>7. b \in Inums /\ b \in Live(k) \ {Root}
  BY <1>2
<1>8. g = Put(k, b, nl, s, e)
  BY <1>1, <1>5, Zenon
<1>9. Named(k, g, d, s, b, name) /\ g.inode[b].nlink = nl /\ g.inode[b].mode = k.inode[b].mode
  BY <1>2, <1>4, <1>6, <1>7, <1>8, LinkedIs
<1>10. g.inode[b].blk = x.blk /\ g.inode[b].size = x.size
  <2>1. k \in Disks /\ s \in Cells
    BY <1>2, <1>3, <1>4, PlaceIs DEF Sound
  <2>2. e \in Entry
    <3>1. b \in Free
      BY <1>7, Basics
    <3> QED
      BY <3>1 DEF Entry
  <2>3. g.inode[b].blk = k.inode[b].blk /\ g.inode[b].size = k.inode[b].size
    BY <1>6, <1>7, <1>8, <2>1, <2>2, PutIs
  <2> QED
    BY <1>2, <2>3
<1>11. Named(h, g, d, s, b, name)
  <2>1. /\ Sound(g) /\ Live(g) = Live(k) \cup {b} /\ Dirs(k) \subseteq Dirs(g) /\ Dirs(g) \subseteq Dirs(k) \cup {b}
        /\ \A j \in Inums \ {b} : g.inode[j] = k.inode[j] /\ SlotsOf(g, j) = SlotsOf(k, j)
        /\ \A j \in Inums : /\ Places(g, j) = Places(k, j)
                            /\ \A t \in Places(k, j) : t # s => Ent(g, t) = Ent(k, t)
        /\ Holds(g, s, name, b)
        /\ SlotsOf(g, b) = SlotsOf(k, b) \cup {s} /\ Cardinality(SlotsOf(g, b)) = Cardinality(SlotsOf(k, b)) + 1
    BY <1>9, Zenon DEF Named
  <2>2. Live(g) = Live(h) \cup {b} /\ Dirs(h) \subseteq Dirs(g) /\ Dirs(g) \subseteq Dirs(h) \cup {b}
    BY <1>2, <1>3, <2>1
  <2>3. \A j \in Inums \ {b} : g.inode[j] = h.inode[j] /\ SlotsOf(g, j) = SlotsOf(h, j)
    BY <1>2, <2>1
  <2>4. \A j \in Inums : /\ Places(g, j) = Places(h, j)
                         /\ \A t \in Places(h, j) : t # s => Ent(g, t) = Ent(h, t)
    BY <1>2, <2>1
  <2>5. SlotsOf(g, b) = SlotsOf(h, b) \cup {s} /\ Cardinality(SlotsOf(g, b)) = Cardinality(SlotsOf(h, b)) + 1
    BY <1>2, <2>1
  <2>6. b \in Inums \ {Root}
    BY <1>2
  <2> QED
    BY <2>1, <2>2, <2>3, <2>4, <2>5, <2>6, Zenon DEF Named
<1> QED
  BY <1>2, <1>5, <1>9, <1>10, <1>11

\* The inode inode_create makes, and its callers' fields in it.
Made(mode, size) == [NoInode EXCEPT !.mode = mode, !.nlink = 1, !.size = size]

LEMMA MadeFields ==
  ASSUME NEW mode, NEW size, NEW x, x = Made(mode, size)
  PROVE  /\ x = [mode |-> mode, nlink |-> 1, size |-> size, blk |-> NoInode.blk]
         /\ x.mode = mode /\ x.nlink = 1 /\ x.size = size /\ x.blk = NoInode.blk
<1>1. PICK n, B, none : n = 1 /\ B = NoInode.blk /\ none = "none"
  OBVIOUS
<1>2. PICK y, z : y = NoInode /\ z = 0
  OBVIOUS
<1>3. y = [mode |-> none, nlink |-> z, size |-> z, blk |-> B]
  BY <1>1, <1>2 DEF NoInode
<1>4. x = [y EXCEPT !.mode = mode, !.nlink = n, !.size = size]
  BY <1>1, <1>2, Zenon DEF Made
<1>5. /\ x = [mode |-> x.mode, nlink |-> x.nlink, size |-> x.size, blk |-> x.blk]
      /\ x.mode = mode /\ x.nlink = n /\ x.size = size /\ x.blk = B
  BY <1>3, <1>4
<1> QED
  BY <1>1, <1>5, Zenon

LEMMA MadeFresh ==
  ASSUME NEW mode \in {"file", "dir", "symlink"}, NEW size \in {0, 1}, mode = "dir" => size = 0
  PROVE  FreshInode(Made(mode, size)) /\ Made(mode, size).nlink = 1
<1>1. PICK x, B : x = Made(mode, size) /\ B = NoInode.blk
  OBVIOUS
<1>2. /\ x = [mode |-> mode, nlink |-> 1, size |-> size, blk |-> B]
      /\ x.mode = mode /\ x.nlink = 1 /\ x.size = size /\ x.blk = B
  BY <1>1, MadeFields
<1>3. B \in [0..MaxBlocks-1 -> Free \cup {0}] /\ \A n \in 0..MaxBlocks-1 : B[n] = 0
  BY <1>1 DEF NoInode
<1>4. size \in 0..MaxBlocks
  BY HasBlocks, Sizes
<1>5. x \in Inode
  <2>1. mode \in {"none", "file", "dir", "symlink"} /\ 1 \in Nat
    OBVIOUS
  <2> QED
    BY <1>2, <1>3, <1>4, <2>1, Zenon DEF Inode
<1>6. x.mode # "none"
  BY <1>2
<1>7. x.mode = "dir" => x.size = 0
  BY <1>2
<1>8. \A n \in 0..MaxBlocks-1 : x.blk[n] = 0
  BY <1>2, <1>3
<1> QED
  BY <1>1, <1>2, <1>5, <1>6, <1>7, <1>8, Zenon DEF FreshInode

LEMMA NewInodeFields ==
  ASSUME NEW h \in Disks, NEW b \in h.free, NEW X, FreshInode(X), X.nlink = 1, NEW s, NEW e,
         NEW k, k = [free |-> h.free \ {b}, inode |-> h.inode, ents |-> h.ents]
  PROVE  SetEnt([k EXCEPT !.inode[b] = X], s, e) = Put(NewInode(h, b, X), b, 1, s, e)
<1>1. PICK F, I, E, x, y : F = h.free \ {b} /\ I = h.inode /\ E = h.ents /\ x = s[1] /\ y = s[2]
  OBVIOUS
<1>2. PICK J, G : J = [I EXCEPT ![b] = X] /\ G = [E EXCEPT ![x][y] = e]
  OBVIOUS
<1>3. k = [free |-> F, inode |-> I, ents |-> E]
  BY <1>1
<1>4. [[free |-> F, inode |-> I, ents |-> E] EXCEPT !.inode[b] = X]
        = [free |-> F, inode |-> [I EXCEPT ![b] = X], ents |-> E]
  BY SMT
<1>5. [[free |-> F, inode |-> J, ents |-> E] EXCEPT !.ents[x][y] = e]
        = [free |-> F, inode |-> J, ents |-> [E EXCEPT ![x][y] = e]]
  BY SMT
<1>6. SetEnt([k EXCEPT !.inode[b] = X], s, e) = [free |-> F, inode |-> J, ents |-> G]
  BY <1>1, <1>2, <1>3, <1>4, <1>5, Zenon DEF SetEnt
<1>7. NewInode(h, b, X) = [free |-> F, inode |-> J, ents |-> E]
  BY <1>1, <1>2, Zenon DEF NewInode
<1>8. PICK K : K = NewInode(h, b, X)
  OBVIOUS
<1>9. K.free = F /\ K.inode = J /\ K.ents = E
  BY <1>7, <1>8
<1>10. [J EXCEPT ![b].nlink = 1] = J
  <2>1. I \in [Inums -> Inode] /\ b \in Inums /\ X \in Inode
    BY <1>1, DiskIs, Basics DEF FreshInode
  <2>2. J \in [Inums -> Inode] /\ J[b] = X
    BY <1>2, <2>1
  <2>3. PICK z : z = [X EXCEPT !.nlink = 1]
    OBVIOUS
  <2>4. z = X
    BY <2>1, <2>3 DEF Inode
  <2>5. [J EXCEPT ![b].nlink = 1] = [J EXCEPT ![b] = z]
    BY <2>2, <2>3
  <2>6. [J EXCEPT ![b] = X] = J
    BY <2>1, <2>2
  <2> QED
    BY <2>4, <2>5, <2>6, Zenon
<1>11. Put(K, b, 1, s, e) = [free |-> F, inode |-> J, ents |-> G]
  BY <1>1, <1>2, <1>9, <1>10, Zenon DEF Put
<1> QED
  BY <1>6, <1>8, <1>11, Zenon

\* A directory lacks the names it lacked.
LEMMA SameLacks ==
  ASSUME NEW f, NEW g, SameNames(f, g), NEW d \in Inums, NEW name \in AllNames, Lacks(f, d, name)
  PROVE  Lacks(g, d, name)
<1> SUFFICES ASSUME NEW t \in Places(g, d) PROVE Ent(g, t).name # name
  BY DEF Lacks
<1>1. CASE t \in Places(f, d)
  <2>1. Ent(g, t) = Ent(f, t) /\ Ent(f, t).name # name
    BY <1>1 DEF Lacks, SameNames
  <2> QED
    BY <2>1
<1>2. CASE t \notin Places(f, d)
  <2>1. Ent(g, t) = NoEnt
    BY <1>2 DEF SameNames
  <2>2. NoEnt.name = ""
    BY DEF NoEnt
  <2> QED
    BY <2>1, <2>2, NamesAre, Zenon
<1> QED
  BY <1>1, <1>2

\* What inode_create leaves: the names there were, or one more.
LEMMA CreateIs ==
  ASSUME NEW f, Sound(f), NEW p, IsPath(p), NEW mode, NEW size,
         FreshInode(Made(mode, size)), Made(mode, size).nlink = 1,
         NEW x, x = inode_create(f, p, mode, size)
  PROVE  \/ x.r # "ok" /\ Sound(x.fs) /\ SameNames(f, x.fs)
         \/ /\ x.r = "ok" /\ x = [r |-> "ok", ino |-> x.ino, fs |-> x.fs]
            /\ \E h, d, s, g : /\ Sound(h) /\ SameNames(f, h) /\ Misses(f, p, d, g)
                               /\ Named(h, x.fs, d, s, x.ino, Last(p)) /\ x.ino \notin Live(h)
                               /\ SlotsOf(h, x.ino) = {} /\ Places(h, x.ino) = {}
            /\ x.fs.inode[x.ino] = Made(mode, size)
<1>1. PICK w : w = walk_path(f, p)
  OBVIOUS
<1>2. /\ w = [r |-> w.r, fs |-> w.fs, dir |-> w.dir, ino |-> w.ino, slot |-> w.slot]
      /\ w.r \in {"ok", "ENOENT", "ENOSPC"} /\ Sound(w.fs) /\ SameNames(f, w.fs)
      /\ w.r = "ENOENT" /\ w.dir # 0 => Misses(f, p, w.dir, w.fs)
  BY <1>1, WalkIs
<1>3. CASE w.r = "ok"
  <2>1. x = [w EXCEPT !.r = "EEXIST"]
    BY <1>1, <1>3, Zenon DEF inode_create
  <2>2. x.r = "EEXIST" /\ x.fs = w.fs
    BY <1>2, <2>1
  <2> QED
    BY <1>2, <2>2
<1>4. CASE w.r # "ok" /\ (w.r # "ENOENT" \/ w.dir = 0)
  <2>1. x = w
    BY <1>1, <1>4, Zenon DEF inode_create
  <2> QED
    BY <1>2, <1>4, <2>1
<1>5. CASE w.r = "ENOENT" /\ w.dir # 0
  <2>1. PICK dir, v : dir = w.dir /\ v = w.fs
    OBVIOUS
  <2>2. Misses(f, p, dir, v) /\ dir \in Dirs(v) /\ Sound(v) /\ SameNames(f, v)
    <3>1. Misses(f, p, dir, v) /\ Sound(v) /\ SameNames(f, v)
      BY <1>2, <1>5, <2>1
    <3> QED
      BY <3>1, SameDirs DEF Misses
  <2>3. PICK d : d = dir_alloc_dirent(v, dir)
    OBVIOUS
  <2>4. /\ d.r \in {"ok", "ENOSPC"} /\ Sound(d.fs) /\ SameNames(v, d.fs)
        /\ d.r = "ok" => d.slot \in Places(d.fs, dir) /\ Ent(d.fs, d.slot) = NoEnt
    BY <2>2, <2>3, DirentIs
  <2>5. PICK h, s : h = d.fs /\ s = d.slot
    OBVIOUS
  <2>6. SameNames(f, h) /\ Sound(h) /\ SameNames(v, h) /\ h \in Disks
    BY <2>2, <2>4, <2>5, SameMore DEF Sound
  <2>7. CASE d.r # "ok"
    <3>1. x = d
      BY <1>1, <1>5, <2>1, <2>3, <2>7, Zenon DEF inode_create
    <3> QED
      BY <2>5, <2>6, <2>7, <3>1
  <2>8. CASE d.r = "ok"
    <3>1. PICK a : a = alloc_block(h)
      OBVIOUS
    <3>2. \/ a.r = "ENOSPC" /\ a.fs = h
          \/ /\ a.r = "ok" /\ a.b \in h.free
             /\ a.fs = [free |-> h.free \ {a.b}, inode |-> h.inode, ents |-> h.ents]
      BY <2>6, <3>1, AllocIs
    <3>3. x = IF a.r # "ok" THEN a
              ELSE [r |-> "ok", ino |-> a.b,
                    fs |-> SetEnt([a.fs EXCEPT !.inode[a.b] = Made(mode, size)],
                                  s, [name |-> Last(p), inum |-> a.b])]
      BY <1>1, <1>5, <2>1, <2>3, <2>5, <2>8, <3>1, Zenon DEF inode_create, Made
    <3>4. CASE a.r # "ok"
      BY <2>6, <3>2, <3>3, <3>4
    <3>5. CASE a.r = "ok"
      <4>1. PICK b, k, e, X : b = a.b /\ k = a.fs /\ e = [name |-> Last(p), inum |-> b] /\ X = Made(mode, size)
        OBVIOUS
      <4>2. b \in h.free /\ k = [free |-> h.free \ {b}, inode |-> h.inode, ents |-> h.ents]
        BY <3>2, <3>5, <4>1
      <4>3. PICK y : y = SetEnt([k EXCEPT !.inode[b] = X], s, e)
        OBVIOUS
      <4>4. x = [r |-> "ok", ino |-> b, fs |-> y]
        BY <3>3, <3>5, <4>1, <4>3, Zenon
      <4>5. FreshInode(X) /\ X.nlink = 1
        BY <4>1
      <4>6. y = Put(NewInode(h, b, X), b, 1, s, e)
        BY <2>6, <4>2, <4>3, <4>5, NewInodeFields
      <4>7. PICK name : name = Last(p)
        OBVIOUS
      <4>8. dir \in Dirs(h) /\ s \in Places(h, dir) /\ Ent(h, s) = NoEnt /\ name \in AllNames /\ Lacks(h, dir, name)
        <5>1. s \in Places(h, dir) /\ Ent(h, s) = NoEnt
          BY <2>4, <2>5, <2>8
        <5>2. dir \in Dirs(h) /\ dir \in Inums
          BY <2>2, <2>6, SameDirs DEF Dirs
        <5>3. name \in AllNames /\ Lacks(v, dir, name)
          BY <2>2, <4>7 DEF Misses
        <5>4. Lacks(h, dir, name)
          BY <2>6, <5>2, <5>3, SameLacks
        <5> QED
          BY <5>1, <5>2, <5>3, <5>4
      <4>9. e = [name |-> name, inum |-> b]
        BY <4>1, <4>7, Zenon
      <4>10. /\ Named(h, y, dir, s, b, name) /\ b \notin Live(h) /\ y.inode[b].nlink = 1
             /\ y.inode[b].mode = X.mode /\ SlotsOf(h, b) = {} /\ Places(h, b) = {}
             /\ y.inode[b].blk = X.blk /\ y.inode[b].size = X.size
        BY <2>6, <4>2, <4>5, <4>6, <4>8, <4>9, CreatedIs
      <4>11. y.inode[b] = X
        <5>1. y \in Disks /\ b \in Inums /\ X \in Inode
          BY <4>5, <4>10 DEF Named, Sound, FreshInode
        <5>2. y.inode[b] = [mode |-> y.inode[b].mode, nlink |-> y.inode[b].nlink,
                            size |-> y.inode[b].size, blk |-> y.inode[b].blk]
          BY <5>1, InodeIs
        <5>3. X = [mode |-> X.mode, nlink |-> X.nlink, size |-> X.size, blk |-> X.blk]
          BY <5>1 DEF Inode
        <5>4. y.inode[b].nlink = X.nlink
          BY <4>5, <4>10
        <5> QED
          BY <4>10, <5>2, <5>3, <5>4, Zenon
      <4>12. x.r = "ok" /\ x.ino = b /\ x.fs = y
        BY <4>4
      <4> QED
        BY <2>2, <2>6, <4>1, <4>4, <4>7, <4>10, <4>11, <4>12, Zenon
    <3> QED
      BY <3>4, <3>5
  <2> QED
    BY <2>7, <2>8
<1> QED
  BY <1>2, <1>3, <1>4, <1>5

-----------------------------------------------------------------------------
(* Linking *)

MoreOne(f, i) == f.inode[i].nlink + 1

\* What inode_link leaves: the names there were, or one more for the inode.
LEMMA LinkIs ==
  ASSUME NEW f, Sound(f), NEW src, IsPath(src), src # <<>>, NEW dst, IsPath(dst),
         NEW x, x = inode_link(f, src, dst)
  PROVE  \/ /\ x.r # "ok" /\ Sound(x.fs) /\ SameNames(f, x.fs)
            /\ x.r = "EEXIST" => x.fs = f /\ (dst = <<>> \/ \E t, j : Leads(f, dst, t, j))
         \/ /\ x.r = "ok"
            /\ \E h, d, s, g, t, i : /\ Sound(h) /\ SameNames(f, h) /\ Misses(f, dst, d, g) /\ Leads(f, src, t, i)
                                     /\ Named(h, x.fs, d, s, i, Last(dst)) /\ i \in Live(h)
                                     /\ x.fs.inode[i].nlink = MoreOne(f, i)
                                     /\ x.fs.inode[i].mode = f.inode[i].mode
<1>1. PICK o : o = walk_path(f, src)
  OBVIOUS
<1>2. /\ o.r \in {"ok", "ENOENT", "ENOSPC"} /\ Sound(o.fs) /\ SameNames(f, o.fs)
      /\ o.r = "ok" => o.fs = f /\ Leads(f, src, o.slot, o.ino)
  BY <1>1, WalkIs
<1>3. CASE o.r # "ok"
  <2>1. x = o
    BY <1>1, <1>3, Zenon DEF inode_link, inode_open
  <2> QED
    BY <1>2, <1>3, <2>1
<1>4. CASE o.r = "ok"
  <2>1. PICK i, t : i = o.ino /\ t = o.slot
    OBVIOUS
  <2>2. Leads(f, src, t, i) /\ o.fs = f /\ i \in Live(f) \ {Root} /\ i \in Inums
    BY <1>2, <1>4, <2>1 DEF Leads, Live
  <2>3. PICK w : w = walk_path(f, dst)
    OBVIOUS
  <2>4. /\ w = [r |-> w.r, fs |-> w.fs, dir |-> w.dir, ino |-> w.ino, slot |-> w.slot]
        /\ w.r \in {"ok", "ENOENT", "ENOSPC"} /\ Sound(w.fs) /\ SameNames(f, w.fs)
        /\ w.r # "ENOENT" => w.fs = f
        /\ w.r = "ok" => IF dst = <<>> THEN w.ino = Root ELSE Leads(f, dst, w.slot, w.ino)
        /\ w.r = "ENOENT" /\ w.dir # 0 => Misses(f, dst, w.dir, w.fs)
    BY <2>3, WalkIs
  <2>5. CASE w.r = "ok"
    <3>1. x = [w EXCEPT !.r = "EEXIST"]
      BY <1>1, <1>4, <2>1, <2>2, <2>3, <2>5, Zenon DEF inode_link, inode_open
    <3>2. x.r = "EEXIST" /\ x.fs = w.fs
      BY <2>4, <3>1
    <3>3. w.fs = f /\ (dst = <<>> \/ Leads(f, dst, w.slot, w.ino))
      BY <2>4, <2>5
    <3> QED
      BY <2>4, <3>2, <3>3
  <2>6. CASE w.r # "ok" /\ (w.r # "ENOENT" \/ w.dir = 0)
    <3>1. x = w
      BY <1>1, <1>4, <2>1, <2>2, <2>3, <2>6, Zenon DEF inode_link, inode_open
    <3> QED
      BY <2>4, <2>6, <3>1
  <2>7. CASE w.r = "ENOENT" /\ w.dir # 0
    <3>1. PICK dir, v : dir = w.dir /\ v = w.fs
      OBVIOUS
    <3>2. Misses(f, dst, dir, v) /\ dir \in Dirs(v) /\ Sound(v) /\ SameNames(f, v)
      <4>1. Misses(f, dst, dir, v) /\ Sound(v) /\ SameNames(f, v)
        BY <2>4, <2>7, <3>1
      <4> QED
        BY <4>1, SameDirs DEF Misses
    <3>3. PICK d : d = dir_alloc_dirent(v, dir)
      OBVIOUS
    <3>4. /\ d = [r |-> d.r, fs |-> d.fs, slot |-> d.slot]
          /\ d.r \in {"ok", "ENOSPC"} /\ Sound(d.fs) /\ SameNames(v, d.fs)
          /\ d.r = "ok" => d.slot \in Places(d.fs, dir) /\ Ent(d.fs, d.slot) = NoEnt
      BY <3>2, <3>3, DirentIs
    <3>5. PICK h, s : h = d.fs /\ s = d.slot
      OBVIOUS
    <3>6. SameNames(f, h) /\ Sound(h) /\ SameNames(v, h) /\ h \in Disks
      BY <3>2, <3>4, <3>5, SameMore DEF Sound
    <3>7. CASE d.r # "ok"
      <4>1. x = d
        BY <1>1, <1>4, <2>1, <2>2, <2>3, <2>7, <3>1, <3>3, <3>7, Zenon DEF inode_link, inode_open
      <4> QED
        BY <3>4, <3>5, <3>6, <3>7, <4>1
    <3>8. CASE d.r = "ok"
      <4>1. PICK e, y : e = [name |-> Last(dst), inum |-> i] /\ y = SetEnt(Counted(h, i), s, e)
        OBVIOUS
      <4>2. x = [d EXCEPT !.fs = y]
        BY <1>1, <1>4, <2>1, <2>2, <2>3, <2>7, <3>1, <3>3, <3>5, <3>8, <4>1, Zenon DEF inode_link, inode_open
      <4>3. x.r = "ok" /\ x.fs = y
        BY <3>4, <3>8, <4>2
      <4>4. PICK nl, name : nl = MoreOne(f, i) /\ name = Last(dst)
        OBVIOUS
      <4>5. /\ i \in Live(h) \ {Root} /\ h.inode[i].mode = f.inode[i].mode /\ h.inode[i].nlink = f.inode[i].nlink
            /\ SlotsOf(h, i) = SlotsOf(f, i)
        BY <2>2, <3>6, SameDirs, SameCounts, SameSlots
      <4>6. y = Put(h, i, nl, s, e)
        <5>1. nl = h.inode[i].nlink + 1
          BY <4>4, <4>5 DEF MoreOne
        <5>2. Counted(h, i) = [h EXCEPT !.inode[i].nlink = nl]
          BY <5>1 DEF Counted
        <5> QED
          BY <3>6, <4>1, <5>2, SetEntIsPut
      <4>7. nl \in Nat /\ CountsOneMore(h, i, nl)
        <5>1. h.inode[i].nlink \in Nat /\ nl = h.inode[i].nlink + 1
          BY <2>2, <3>6, <4>4, <4>5, InodeIs DEF MoreOne
        <5>2. Cardinality(SlotsOf(h, i)) <= h.inode[i].nlink /\ Cardinality(SlotsOf(h, i)) \in Nat
          BY <3>6, <4>5, FiniteSlots DEF Sound, Links
        <5> QED
          BY <5>1, <5>2 DEF CountsOneMore
      <4>8. dir \in Dirs(h) /\ s \in Places(h, dir) /\ Ent(h, s) = NoEnt /\ name \in AllNames /\ Lacks(h, dir, name)
        <5>1. s \in Places(h, dir) /\ Ent(h, s) = NoEnt
          BY <3>4, <3>5, <3>8
        <5>2. dir \in Dirs(h) /\ dir \in Inums
          BY <3>2, <3>6, SameDirs DEF Dirs
        <5>3. name \in AllNames /\ Lacks(v, dir, name)
          BY <3>2, <4>4 DEF Misses
        <5>4. Lacks(h, dir, name)
          BY <3>6, <5>2, <5>3, SameLacks
        <5> QED
          BY <5>1, <5>2, <5>3, <5>4
      <4>9. e = [name |-> name, inum |-> i]
        BY <4>1, <4>4, Zenon
      <4>10. Named(h, y, dir, s, i, name) /\ y.inode[i].nlink = nl /\ y.inode[i].mode = h.inode[i].mode
        BY <2>2, <3>6, <4>5, <4>6, <4>7, <4>8, <4>9, LinkedIs
      <4>11. i \in Live(h)
        BY <4>5
      <4>12. y.inode[i].nlink = MoreOne(f, i) /\ y.inode[i].mode = f.inode[i].mode
        BY <4>4, <4>5, <4>10, Zenon
      <4>13. /\ Misses(f, dst, dir, v) /\ Leads(f, src, t, i) /\ Sound(h) /\ SameNames(f, h)
             /\ Named(h, y, dir, s, i, Last(dst))
        BY <2>2, <3>2, <3>6, <4>4, <4>10, Zenon
      <4> QED
        BY <4>3, <4>11, <4>12, <4>13, Zenon
    <3> QED
      BY <3>4, <3>7, <3>8
  <2> QED
    BY <2>4, <2>5, <2>6, <2>7
<1> QED
  BY <1>3, <1>4

-----------------------------------------------------------------------------
(* Names that stay *)

\* Every name of f is where it was.
Keeps(f, g) ==
  /\ Dirs(f) \subseteq Dirs(g) /\ Live(f) \subseteq Live(g)
  /\ \A d \in Dirs(f) : \A s \in Places(f, d) :
       Ent(f, s) # NoEnt => s \in Places(g, d) /\ Ent(g, s) = Ent(f, s)

LEMMA KeepsMore ==
  ASSUME NEW f, NEW g, NEW h, Keeps(f, g), Keeps(g, h)
  PROVE  Keeps(f, h)
BY DEF Keeps

LEMMA SameKeeps ==
  ASSUME NEW f, NEW g, SameNames(f, g)
  PROVE  Keeps(f, g)
<1>1. Dirs(g) = Dirs(f) /\ Live(g) = Live(f) /\ Dirs(f) \subseteq Inums
  BY SameDirs DEF Dirs
<1>2. \A d \in Inums : Places(f, d) \subseteq Places(g, d) /\ \A s \in Places(f, d) : Ent(g, s) = Ent(f, s)
  BY DEF SameNames
<1> QED
  BY <1>1, <1>2 DEF Keeps

LEMMA NamedKeeps ==
  ASSUME NEW h, NEW g, NEW d, NEW s, NEW i, NEW name, Named(h, g, d, s, i, name)
  PROVE  Keeps(h, g)
<1>1. /\ Ent(h, s) = NoEnt /\ Dirs(h) \subseteq Dirs(g) /\ Live(h) \subseteq Live(g) /\ Dirs(h) \subseteq Inums
      /\ \A k \in Inums : /\ Places(g, k) = Places(h, k)
                          /\ \A t \in Places(h, k) : t # s => Ent(g, t) = Ent(h, t)
  BY DEF Named, Dirs
<1> QED
  BY <1>1 DEF Keeps

LEMMA HoldsName ==
  ASSUME NEW f, NEW s, NEW name \in AllNames, NEW i, Holds(f, s, name, i)
  PROVE  Ent(f, s) # NoEnt /\ Ent(f, s).name = name /\ Ent(f, s).inum = i
<1>1. Ent(f, s).name = name /\ Ent(f, s).inum = i
  BY DEF Holds
<1>2. NoEnt.name = ""
  BY DEF NoEnt
<1> QED
  BY <1>1, <1>2, NamesAre, Zenon

LEMMA KeptStep ==
  ASSUME NEW f, NEW g, Keeps(f, g), NEW d \in Dirs(f), NEW name, NEW i, Step(f, d, name, i)
  PROVE  d \in Dirs(g) /\ Step(g, d, name, i)
<1>1. PICK s \in Places(f, d) : Holds(f, s, name, i)
  BY DEF Step
<1>2. name \in AllNames
  BY DEF Step
<1>3. Ent(f, s) # NoEnt
  BY <1>1, <1>2, HoldsName
<1>4. s \in Places(g, d) /\ Ent(g, s) = Ent(f, s) /\ d \in Dirs(g)
  BY <1>1, <1>3 DEF Keeps
<1>5. Holds(g, s, name, i)
  BY <1>1, <1>4 DEF Holds
<1> QED
  BY <1>2, <1>4, <1>5 DEF Step

LEMMA KeptChain ==
  ASSUME NEW f, NEW g, Keeps(f, g), NEW p, NEW k, NEW c, Chain(f, p, k, c)
  PROVE  Chain(g, p, k, c)
<1>1. c \in [0..k -> Inums] /\ c[0] = Root
  BY DEF Chain
<1>2. \A m \in 1..k : c[m-1] \in Dirs(f) /\ Step(f, c[m-1], p[m], c[m])
  BY DEF Chain
<1>3. \A m \in 1..k : c[m-1] \in Dirs(g) /\ Step(g, c[m-1], p[m], c[m])
  BY <1>2, KeptStep
<1> QED
  BY <1>1, <1>3 DEF Chain

LEMMA KeptLeads ==
  ASSUME NEW f, NEW g, Keeps(f, g), NEW p, NEW s, NEW i, Leads(f, p, s, i)
  PROVE  Leads(g, p, s, i)
<1>1. PICK n : n = Len(p)
  OBVIOUS
<1>2. PICK c : /\ Chain(f, p, n, c) /\ c[n] = i
               /\ c[n-1] \in Dirs(f) /\ s \in Places(f, c[n-1]) /\ Holds(f, s, Last(p), i)
  BY <1>1, Zenon DEF Leads
<1>3. p # <<>> /\ Last(p) \in AllNames /\ i \in Live(f) \ {Root}
  BY DEF Leads
<1>4. PICK d : d = c[n-1]
  OBVIOUS
<1>5. Ent(f, s) # NoEnt
  BY <1>2, <1>3, HoldsName
<1>6. d \in Dirs(g) /\ s \in Places(g, d) /\ Ent(g, s) = Ent(f, s) /\ i \in Live(g) \ {Root}
  BY <1>2, <1>3, <1>4, <1>5 DEF Keeps
<1>7. Holds(g, s, Last(p), i)
  BY <1>2, <1>6 DEF Holds
<1>8. Chain(g, p, n, c)
  BY <1>2, KeptChain
<1> QED
  BY <1>1, <1>2, <1>3, <1>4, <1>6, <1>7, <1>8, Zenon DEF Leads

\* A path leads to one entry.
LEMMA LeadsOne ==
  ASSUME NEW f, Sound(f), NEW p, IsPath(p), NEW s, NEW i, Leads(f, p, s, i), NEW t, NEW j, Leads(f, p, t, j)
  PROVE  s = t /\ i = j
<1>1. PICK n, name : n = Len(p) /\ name = Last(p)
  OBVIOUS
<1>2. n \in Nat /\ n - 1 \in 0..n /\ name \in AllNames
  <2>1. p # <<>>
    BY DEF Leads
  <2> QED
    BY <1>1, <2>1, LastIs
<1>3. PICK c : /\ Chain(f, p, n, c) /\ c[n] = i
               /\ c[n-1] \in Dirs(f) /\ s \in Places(f, c[n-1]) /\ Holds(f, s, name, i)
  BY <1>1, Zenon DEF Leads
<1>4. PICK e : /\ Chain(f, p, n, e) /\ e[n] = j
               /\ e[n-1] \in Dirs(f) /\ t \in Places(f, e[n-1]) /\ Holds(f, t, name, j)
  BY <1>1, Zenon DEF Leads
<1>5. c[n-1] = e[n-1]
  BY <1>2, <1>3, <1>4, ChainIsOne
<1>6. PICK d : d = c[n-1]
  OBVIOUS
<1>7. d \in Dirs(f) /\ s \in Places(f, d) /\ t \in Places(f, d)
  BY <1>3, <1>4, <1>5, <1>6
<1> QED
  BY <1>2, <1>3, <1>4, <1>7, SlotIsOne

\* The new name leads where it should.
LEMMA NamedLeads ==
  ASSUME NEW f, NEW h, Keeps(f, h), NEW p, IsPath(p), NEW d, NEW v, Misses(f, p, d, v),
         NEW g, NEW s, NEW i, Named(h, g, d, s, i, Last(p))
  PROVE  Leads(g, p, s, i)
<1>1. PICK n, name : n = Len(p) /\ name = Last(p)
  OBVIOUS
<1>2. p # <<>> /\ name \in AllNames
  BY <1>1 DEF Misses
<1>3. PICK c : Chain(f, p, n - 1, c) /\ c[n-1] = d
  BY <1>1 DEF Misses
<1>4. n \in Nat /\ n - 1 \in Nat /\ (n - 1) + 1 = n /\ name = p[n]
  BY <1>1, <1>2, LastIs
<1>5. Keeps(f, g)
  BY NamedKeeps, KeepsMore
<1>6. Chain(g, p, n - 1, c)
  BY <1>3, <1>5, KeptChain
<1>7. /\ d \in Dirs(h) /\ Dirs(h) \subseteq Dirs(g) /\ s \in Places(h, d) /\ Holds(g, s, name, i)
      /\ i \in Inums \ {Root} /\ i \in Live(g) /\ \A k \in Inums : Places(g, k) = Places(h, k)
  BY <1>1 DEF Named
<1>8. d \in Dirs(g) /\ s \in Places(g, d)
  BY <1>7 DEF Dirs
<1>9. Step(g, c[n-1], p[n], i)
  BY <1>2, <1>3, <1>4, <1>7, <1>8 DEF Step
<1>10. PICK m : m = n - 1
  OBVIOUS
<1>11. m \in Nat /\ Chain(g, p, m, c) /\ c[m] \in Dirs(g) /\ i \in Inums /\ Step(g, c[m], p[m + 1], i)
  BY <1>3, <1>4, <1>6, <1>7, <1>8, <1>9, <1>10
<1>12. PICK e : Chain(g, p, m + 1, e) /\ e[m + 1] = i /\ e[m] = c[m]
  BY <1>11, ChainOn
<1>13. Chain(g, p, n, e) /\ e[n] = i /\ e[n-1] = d
  BY <1>3, <1>4, <1>10, <1>12
<1>14. i \in Live(g) \ {Root}
  BY <1>7
<1> QED
  BY <1>1, <1>2, <1>7, <1>8, <1>13, <1>14, Zenon DEF Leads

LEMMA LeadsIs ==
  ASSUME NEW f, Sound(f), NEW p, NEW s, NEW i, Leads(f, p, s, i)
  PROVE  /\ i \in Inums /\ i \in Live(f) \ {Root} /\ s \in SlotsOf(f, i)
         /\ \E d \in Dirs(f) : s \in Places(f, d) /\ Holds(f, s, Last(p), i)
<1>1. PICK n : n = Len(p)
  OBVIOUS
<1>2. PICK c : c[n-1] \in Dirs(f) /\ s \in Places(f, c[n-1]) /\ Holds(f, s, Last(p), i)
  BY <1>1, Zenon DEF Leads
<1>3. PICK d : d = c[n-1]
  OBVIOUS
<1>4. d \in Dirs(f) /\ s \in Places(f, d) /\ Holds(f, s, Last(p), i)
  BY <1>2, <1>3
<1>5. i \in Live(f) \ {Root} /\ Last(p) \in AllNames
  BY DEF Leads
<1>6. Ent(f, s).inum = i
  BY <1>4 DEF Holds
<1>7. s \in SlotsOf(f, i)
  BY <1>4, <1>6, SlotIs DEF Sound
<1> QED
  BY <1>4, <1>5, <1>7 DEF Live

LEMMA NamedCounts ==
  ASSUME NEW h, Sound(h), NEW g, NEW d, NEW s, NEW i, NEW name, Named(h, g, d, s, i, name)
  PROVE  /\ i \in Live(h) /\ g.inode[i].nlink = MoreOne(h, i) =>
              (Exact(h) => Exact(g)) /\ (OneName(h) => OneNameBut(g, i))
         /\ i \notin Live(h) /\ g.inode[i].nlink = 1 /\ SlotsOf(h, i) = {} =>
              (Exact(h) => Exact(g)) /\ (OneName(h) => OneName(g))
<1>1. /\ i \in Inums \ {Root} /\ Live(g) = Live(h) \cup {i} /\ Dirs(g) \subseteq Dirs(h) \cup {i}
      /\ \A k \in Inums \ {i} : g.inode[k] = h.inode[k] /\ SlotsOf(g, k) = SlotsOf(h, k)
      /\ Cardinality(SlotsOf(g, i)) = Cardinality(SlotsOf(h, i)) + 1
      /\ Live(h) \subseteq Inums /\ Dirs(g) \subseteq Inums
  BY Zenon DEF Named, Live, Dirs
<1>2. ASSUME Exact(h), Cardinality(SlotsOf(g, i)) = g.inode[i].nlink PROVE Exact(g)
  <2> SUFFICES ASSUME NEW k \in Live(g) \ {Root} PROVE Cardinality(SlotsOf(g, k)) = g.inode[k].nlink
    BY DEF Exact
  <2>1. CASE k = i
    BY <1>2, <2>1
  <2>2. CASE k # i
    BY <1>1, <1>2, <2>2 DEF Exact
  <2> QED
    BY <2>1, <2>2
<1>3. ASSUME OneName(h), g.inode[i].nlink # 0 PROVE OneNameBut(g, i)
  <2>1. \A k \in Dirs(g) \ {Root, i} : g.inode[k].nlink = 1
    BY <1>1, <1>3 DEF OneName
  <2>2. \A k \in Live(g) \ {Root} : g.inode[k].nlink # 0
    BY <1>1, <1>3 DEF OneName
  <2> QED
    BY <2>1, <2>2 DEF OneNameBut
<1>4. ASSUME i \in Live(h), g.inode[i].nlink = MoreOne(h, i), Exact(h) PROVE Exact(g)
  <2>1. Cardinality(SlotsOf(h, i)) = h.inode[i].nlink
    BY <1>1, <1>4 DEF Exact
  <2>2. Cardinality(SlotsOf(g, i)) = g.inode[i].nlink
    BY <1>1, <1>4, <2>1 DEF MoreOne
  <2> QED
    BY <1>2, <1>4, <2>2
<1>5. ASSUME g.inode[i].nlink = 1, SlotsOf(h, i) = {}, Exact(h) PROVE Exact(g)
  <2>1. Cardinality(SlotsOf(h, i)) = 0
    BY <1>5, FS_EmptySet
  <2>2. Cardinality(SlotsOf(g, i)) = g.inode[i].nlink
    BY <1>1, <1>5, <2>1
  <2> QED
    BY <1>2, <1>5, <2>2
<1>6. ASSUME g.inode[i].nlink = 1, OneName(h) PROVE OneName(g)
  <2>1. OneNameBut(g, i)
    BY <1>3, <1>6
  <2> QED
    BY <1>6, <2>1 DEF OneName, OneNameBut
<1>7. ASSUME i \in Live(h), g.inode[i].nlink = MoreOne(h, i) PROVE g.inode[i].nlink # 0
  <2>1. h.inode[i].nlink \in Nat
    BY <1>1, InodeIs DEF Sound
  <2> QED
    BY <1>7, <2>1 DEF MoreOne
<1> QED
  BY <1>3, <1>4, <1>5, <1>6, <1>7

-----------------------------------------------------------------------------
(* The calls *)

\* What a call leaves as it should be.
Right(f, g) == Sound(g) /\ OneName(g) /\ (Exact(f) => Exact(g))

LEMMA SameRight ==
  ASSUME NEW f, NEW g, Sound(f), OneName(f), Sound(g), SameNames(f, g)
  PROVE  Right(f, g)
BY SameCounts DEF Right

LEMMA RightMore ==
  ASSUME NEW f, NEW g, NEW h, Right(f, g), Right(g, h)
  PROVE  Right(f, h)
BY DEF Right

\* An unlink keeps the counts, unless what it frees has names in it.
LEMMA UnlinkRight ==
  ASSUME NEW f, Sound(f), OneName(f), NEW p, IsPath(p), p # <<>>, NEW u, u = inode_unlink(f, p)
  PROVE  /\ Sound(u.fs) /\ OneName(u.fs)
         /\ (\A s, i : Leads(f, p, s, i) => Barren(f, i)) => Right(f, u.fs)
<1>1. CASE Sound(u.fs) /\ SameNames(f, u.fs)
  BY <1>1, SameRight DEF Right
<1>2. CASE \E s, i : Leads(f, p, s, i) /\ u.fs = Without(f, s, i)
  <2>1. PICK s, i, g : Leads(f, p, s, i) /\ g = Without(f, s, i) /\ u.fs = g
    BY <1>2
  <2>2. i \in Inums /\ i \in Live(f) \ {Root} /\ s \in SlotsOf(f, i) /\ \E d \in Dirs(f) : s \in Places(f, d)
    BY <2>1, LeadsIs
  <2>3. PICK d \in Dirs(f) : s \in Places(f, d)
    BY <2>2
  <2>4. Surely(f, g, s, i)
    BY <2>1, <2>2, <2>3, WithoutIs
  <2>5. /\ Exact(f) /\ (i \in Gone(f, i) => Barren(f, i)) => Exact(g)
        /\ OneNameBut(f, i) /\ (i \in Dirs(f) => f.inode[i].nlink \in {1, 2}) => OneName(g)
    BY <2>2, <2>3, <2>4, WithoutCounts
  <2>6. OneNameBut(f, i) /\ (i \in Dirs(f) => f.inode[i].nlink \in {1, 2})
    BY <2>2 DEF OneName, OneNameBut
  <2>7. Sound(g)
    BY <2>4 DEF Surely
  <2> QED
    BY <2>1, <2>5, <2>6, <2>7 DEF Right
<1> QED
  BY <1>1, <1>2, UnlinkIs

LEMMA CreateRight ==
  ASSUME NEW f, Sound(f), OneName(f), NEW p, IsPath(p), NEW mode, NEW size,
         FreshInode(Made(mode, size)), Made(mode, size).nlink = 1,
         NEW x, x = inode_create(f, p, mode, size)
  PROVE  /\ Right(f, x.fs)
         /\ x.r = "ok" => /\ \E s : Leads(x.fs, p, s, x.ino)
                          /\ x.fs.inode[x.ino] = Made(mode, size) /\ x.ino \in Live(x.fs)
<1>1. CASE x.r # "ok" /\ Sound(x.fs) /\ SameNames(f, x.fs)
  BY <1>1, SameRight
<1>2. CASE /\ \E h, d, s, g : /\ Sound(h) /\ SameNames(f, h) /\ Misses(f, p, d, g)
                              /\ Named(h, x.fs, d, s, x.ino, Last(p)) /\ x.ino \notin Live(h)
                              /\ SlotsOf(h, x.ino) = {} /\ Places(h, x.ino) = {}
           /\ x.fs.inode[x.ino] = Made(mode, size)
  <2>1. PICK y, i : y = x.fs /\ i = x.ino
    OBVIOUS
  <2>2. PICK h, d, s, g : /\ Sound(h) /\ SameNames(f, h) /\ Misses(f, p, d, g)
                          /\ Named(h, y, d, s, i, Last(p)) /\ i \notin Live(h)
                          /\ SlotsOf(h, i) = {}
    BY <1>2, <2>1
  <2>3. y.inode[i] = Made(mode, size) /\ y.inode[i].nlink = 1
    BY <1>2, <2>1
  <2>4. (Exact(h) => Exact(y)) /\ (OneName(h) => OneName(y))
    BY <2>2, <2>3, NamedCounts
  <2>5. Sound(y) /\ i \in Live(y)
    BY <2>2 DEF Named
  <2>6. Right(f, y)
    BY <2>2, <2>4, <2>5, SameCounts DEF Right
  <2>7. Leads(y, p, s, i)
    <3>1. Keeps(f, h)
      BY <2>2, SameKeeps
    <3> QED
      BY <2>2, <3>1, NamedLeads
  <2> QED
    BY <2>1, <2>3, <2>5, <2>6, <2>7
<1> QED
  BY <1>1, <1>2, CreateIs

LEMMA MakeRight ==
  ASSUME NEW f, Sound(f), OneName(f), NEW p, IsPath(p)
  PROVE  Right(f, fs_mknod(f, p).fs) /\ Right(f, fs_mkdir(f, p).fs)
<1>1. FreshInode(Made("file", 0)) /\ Made("file", 0).nlink = 1
  BY MadeFresh
<1>2. FreshInode(Made("dir", 0)) /\ Made("dir", 0).nlink = 1
  BY MadeFresh
<1>3. Right(f, inode_create(f, p, "file", 0).fs)
  BY <1>1, CreateRight
<1>4. Right(f, inode_create(f, p, "dir", 0).fs)
  BY <1>2, CreateRight
<1> QED
  BY <1>3, <1>4 DEF fs_mknod, fs_mkdir

\* A block for what is no directory changes no name.
LEMMA GetRight ==
  ASSUME NEW f, Sound(f), OneName(f), NEW i \in Live(f), i \notin Dirs(f),
         NEW g, g = inode_get_block(f, i, 0)
  PROVE  Right(f, g.fs)
<1>1. f \in Disks /\ i \in Inums /\ 0 \in 0..MaxBlocks-1
  BY HasBlocks DEF Sound, Live
<1>2. CASE g.fs = f
  BY <1>2 DEF Right
<1>3. CASE f.inode[i].blk[0] = 0 /\ g.b \in f.free /\ g.fs = WithBlock(f, i, 0, g.b)
  <2>1. PICK n, b, h : n = 0 /\ b = g.b /\ h = g.fs
    OBVIOUS
  <2>2. n \in 0..MaxBlocks-1 /\ f.inode[i].blk[n] = 0 /\ b \in f.free /\ h = WithBlock(f, i, n, b)
    BY <1>1, <1>3, <2>1
  <2>3. /\ Sound(h) /\ Live(h) = Live(f) /\ Dirs(h) = Dirs(f)
        /\ \A k \in Inums \ {0} : SlotsOf(h, k) = SlotsOf(f, k)
    BY <2>2, BlockAdded
  <2>4. \A k \in Inums : h.inode[k].nlink = f.inode[k].nlink
    BY <1>1, <2>2, WithBlockIs
  <2>5. 0 \notin Inums /\ Live(f) \subseteq Inums /\ Dirs(f) \subseteq Inums
    BY Basics DEF Live, Dirs
  <2>6. Exact(f) => Exact(h)
    BY <2>3, <2>4, <2>5 DEF Exact
  <2>7. OneName(h)
    BY <2>3, <2>4, <2>5 DEF OneName
  <2> QED
    BY <2>1, <2>3, <2>6, <2>7 DEF Right
<1> QED
  BY <1>1, <1>2, <1>3, GetBlock

LEMMA SymlinkRight ==
  ASSUME NEW f, Sound(f), OneName(f), NEW p, IsPath(p), NEW x, x = fs_symlink(f, p)
  PROVE  Right(f, x.fs)
<1>1. PICK c : c = inode_create(f, p, "symlink", 1)
  OBVIOUS
<1>2. FreshInode(Made("symlink", 1)) /\ Made("symlink", 1).nlink = 1
  BY MadeFresh
<1>3. /\ Right(f, c.fs)
      /\ c.r = "ok" => /\ \E s : Leads(c.fs, p, s, c.ino)
                       /\ c.fs.inode[c.ino] = Made("symlink", 1) /\ c.ino \in Live(c.fs)
  BY <1>1, <1>2, CreateRight
<1>4. CASE c.r # "ok"
  <2>1. x = c
    BY <1>1, <1>4, Zenon DEF fs_symlink
  <2> QED
    BY <1>3, <2>1
<1>5. CASE c.r = "ok"
  <2>1. PICK y, i : y = c.fs /\ i = c.ino
    OBVIOUS
  <2>2. Right(f, y) /\ i \in Live(y) /\ y.inode[i] = Made("symlink", 1) /\ \E s : Leads(y, p, s, i)
    BY <1>3, <1>5, <2>1
  <2>3. PICK s : Leads(y, p, s, i)
    BY <2>2
  <2>4. Sound(y) /\ OneName(y)
    BY <2>2 DEF Right
  <2>5. i \notin Dirs(y)
    <3>1. Made("symlink", 1).mode = "symlink"
      BY MadeFields
    <3> QED
      BY <2>2, <3>1 DEF Dirs
  <2>6. PICK g : g = inode_get_block(y, i, 0)
    OBVIOUS
  <2>7. Right(y, g.fs)
    BY <2>2, <2>4, <2>5, <2>6, GetRight
  <2>8. x = IF g.r = "ok" THEN g ELSE [g EXCEPT !.fs = inode_unlink(g.fs, p).fs]
    BY <1>1, <1>5, <2>1, <2>6, Zenon DEF fs_symlink
  <2>9. CASE g.r = "ok"
    <3>1. x = g
      BY <2>8, <2>9
    <3> QED
      BY <2>2, <2>7, <3>1, RightMore
  <2>10. CASE g.r # "ok"
    <3>1. y \in Disks /\ i \in Inums
      BY <2>2, <2>4 DEF Sound, Live
    <3>2. g.fs = y /\ g = [r |-> "ENOSPC", fs |-> y, b |-> g.b]
      <4>1. 0 \in 0..MaxBlocks-1
        BY HasBlocks
      <4>2. g.r = "ENOSPC" /\ g.fs = y /\ y.inode[i].blk[0] = 0 /\ y.free = {}
        BY <2>6, <2>10, <3>1, <4>1, GetBlock
      <4>3. PICK a : a = alloc_block(y)
        OBVIOUS
      <4>4. a = [r |-> "ENOSPC", fs |-> y, b |-> 0]
        BY <4>2, <4>3, Zenon DEF alloc_block
      <4>5. g = a
        <5>1. ~(0 >= MaxBlocks) /\ a.r # "ok"
          BY <4>4, HasBlocks, Sizes
        <5> QED
          BY <2>6, <4>2, <4>3, <5>1, Zenon DEF inode_get_block
      <4> QED
        BY <4>4, <4>5
    <3>3. PICK u : u = inode_unlink(y, p)
      OBVIOUS
    <3>4. x.fs = u.fs
      <4>1. x = [g EXCEPT !.fs = u.fs]
        BY <2>8, <2>10, <3>2, <3>3
      <4> QED
        BY <3>2, <4>1
    <3>5. p # <<>>
      BY <2>3 DEF Leads
    <3>6. \A t, j : Leads(y, p, t, j) => Barren(y, j)
      <4> SUFFICES ASSUME NEW t, NEW j, Leads(y, p, t, j) PROVE Barren(y, j)
        OBVIOUS
      <4>1. i = j
        BY <2>3, <2>4, LeadsOne
      <4> QED
        BY <2>5, <4>1 DEF Barren
    <3>7. Right(y, u.fs)
      BY <2>4, <3>3, <3>5, <3>6, UnlinkRight
    <3> QED
      BY <2>2, <3>4, <3>7, RightMore
  <2> QED
    BY <2>9, <2>10
<1> QED
  BY <1>4, <1>5

\* The root is a directory that no name leads to.
LEMMA RootIs ==
  ASSUME NEW f, Sound(f)
  PROVE  Root \in Dirs(f) /\ f.inode[Root].mode = "dir" /\ Root \in Inums /\ Root \in Live(f)
<1>1. Root \in Dirs(f)
  BY DEF Sound, Shapes
<1> QED
  BY <1>1 DEF Dirs, Live

LEMMA ReadlinkRight ==
  ASSUME NEW f, Sound(f), OneName(f), NEW p, IsPath(p), Mode(f, p) = "symlink", NEW x, x = fs_readlink(f, p)
  PROVE  Right(f, x.fs)
<1>1. PICK w : w = walk_path(f, p)
  OBVIOUS
<1>2. w.r = "ok" => w.fs = f /\ IF p = <<>> THEN w.ino = Root ELSE Leads(f, p, w.slot, w.ino)
  BY <1>1, WalkIs
<1>3. w.r = "ok" /\ w.fs.inode[w.ino].mode = "symlink"
  <2>1. Mode(f, p) = IF w.r = "ok" THEN w.fs.inode[w.ino].mode ELSE "none"
    BY <1>1, Zenon DEF Mode
  <2> QED
    BY <2>1
<1>4. PICK i : i = w.ino
  OBVIOUS
<1>5. w.fs = f
  BY <1>2, <1>3
<1>6. i \in Live(f) /\ i \notin Dirs(f)
  <2>1. f.inode[i].mode = "symlink"
    BY <1>3, <1>4, <1>5
  <2>2. i \in Inums
    BY <1>2, <1>3, <1>4, RootIs DEF Leads, Live
  <2> QED
    BY <2>1, <2>2 DEF Live, Dirs
<1>7. x = inode_get_block(f, i, 0)
  BY <1>1, <1>3, <1>4, <1>5, Zenon DEF fs_readlink, inode_open
<1> QED
  BY <1>6, <1>7, GetRight

LEMMA UnlinkCall ==
  ASSUME NEW f, Sound(f), OneName(f), NEW p, IsPath(p), NEW x, x = fs_unlink(f, p)
  PROVE  Right(f, x.fs)
<1>1. PICK w : w = walk_path(f, p)
  OBVIOUS
<1>2. /\ w = [r |-> w.r, fs |-> w.fs, dir |-> w.dir, ino |-> w.ino, slot |-> w.slot]
      /\ Sound(w.fs) /\ SameNames(f, w.fs)
      /\ w.r = "ok" => w.fs = f /\ IF p = <<>> THEN w.ino = Root ELSE Leads(f, p, w.slot, w.ino)
  BY <1>1, WalkIs
<1>3. Right(f, w.fs)
  BY <1>2, SameRight
<1>4. CASE w.r # "ok"
  <2>1. x = w
    BY <1>1, <1>4, Zenon DEF fs_unlink, inode_open
  <2> QED
    BY <1>3, <2>1
<1>5. CASE w.r = "ok" /\ w.fs.inode[w.ino].mode = "dir"
  <2>1. x = [w EXCEPT !.r = "EISDIR"]
    BY <1>1, <1>5, Zenon DEF fs_unlink, inode_open
  <2>2. x.fs = w.fs
    BY <1>2, <2>1
  <2> QED
    BY <1>3, <2>2
<1>6. CASE w.r = "ok" /\ w.fs.inode[w.ino].mode # "dir"
  <2>1. PICK i, s : i = w.ino /\ s = w.slot
    OBVIOUS
  <2>2. x = inode_unlink(f, p)
    BY <1>1, <1>2, <1>6, Zenon DEF fs_unlink, inode_open
  <2>3. f.inode[i].mode # "dir"
    BY <1>2, <1>6, <2>1
  <2>4. p # <<>> /\ Leads(f, p, s, i)
    BY <1>2, <1>6, <2>1, <2>3, RootIs
  <2>5. ASSUME NEW t, NEW j, Leads(f, p, t, j) PROVE Barren(f, j)
    <3>1. i = j
      BY <2>4, <2>5, LeadsOne
    <3> QED
      BY <2>3, <3>1 DEF Barren, Dirs
  <2> QED
    BY <2>2, <2>4, <2>5, UnlinkRight
<1> QED
  BY <1>4, <1>5, <1>6

\* Where no name is found there is none.
LEMMA NoneFound ==
  ASSUME NEW f, Sound(f), NEW d \in Dirs(f), NEW wanted, wanted = AllNames,
         \A t \in Places(f, d) : Ent(f, t).name \notin wanted
  PROVE  Barren(f, d)
<1>1. ASSUME NEW t \in Places(f, d), Ent(f, t) # NoEnt PROVE FALSE
  <2>1. Ent(f, t).name \in AllNames
    BY <1>1, EntLeads
  <2> QED
    BY <1>1, <2>1
<1> QED
  BY <1>1 DEF Barren

LEMMA RmdirCall ==
  ASSUME NEW f, Sound(f), OneName(f), NEW p, IsPath(p), NEW x, x = fs_rmdir(f, p)
  PROVE  Right(f, x.fs)
<1>1. PICK w : w = walk_path(f, p)
  OBVIOUS
<1>2. /\ w = [r |-> w.r, fs |-> w.fs, dir |-> w.dir, ino |-> w.ino, slot |-> w.slot]
      /\ Sound(w.fs) /\ SameNames(f, w.fs)
      /\ w.r = "ok" => w.fs = f /\ IF p = <<>> THEN w.ino = Root ELSE Leads(f, p, w.slot, w.ino)
  BY <1>1, WalkIs
<1>3. Right(f, w.fs)
  BY <1>2, SameRight
<1>4. CASE w.r # "ok"
  <2>1. x = w
    BY <1>1, <1>4, Zenon DEF fs_rmdir, inode_open
  <2> QED
    BY <1>3, <2>1
<1>5. CASE w.r = "ok" /\ w.ino = Root
  <2>1. x = [w EXCEPT !.r = "EPERM"]
    BY <1>1, <1>5, Zenon DEF fs_rmdir, inode_open
  <2>2. x.fs = w.fs
    BY <1>2, <2>1
  <2> QED
    BY <1>3, <2>2
<1>6. CASE w.r = "ok" /\ w.ino # Root /\ w.fs.inode[w.ino].mode # "dir"
  <2>1. x = [w EXCEPT !.r = "ENOTDIR"]
    BY <1>1, <1>6, Zenon DEF fs_rmdir, inode_open
  <2>2. x.fs = w.fs
    BY <1>2, <2>1
  <2> QED
    BY <1>3, <2>2
<1>7. CASE w.r = "ok" /\ w.ino # Root /\ w.fs.inode[w.ino].mode = "dir"
  <2>1. PICK i, slot : i = w.ino /\ slot = w.slot
    OBVIOUS
  <2>2. f.inode[i].mode = "dir" /\ w.fs = f /\ Leads(f, p, slot, i) /\ p # <<>>
    BY <1>2, <1>7, <2>1
  <2>3. i \in Dirs(f)
    BY <2>2 DEF Dirs, Leads, Live
  <2>4. PICK s, wanted : wanted = AllNames /\ s = ScanDir(f, i, wanted)
    OBVIOUS
  <2>5. s = InUse(f, i)
    BY <2>4, Zenon DEF InUse, AllNames
  <2>6. x = IF s.r = "ok" THEN [s EXCEPT !.r = "ENOTEMPTY"]
            ELSE IF s.r # "ENOENT" THEN s
            ELSE inode_unlink(s.fs, p)
    BY <1>1, <1>7, <2>1, <2>2, <2>5, Zenon DEF fs_rmdir, inode_open
  <2>7. PICK g : g = s.fs
    OBVIOUS
  <2>8. /\ s = [r |-> s.r, fs |-> g, slot |-> s.slot] /\ Sound(g) /\ Fills(f, g)
        /\ s.r # "ok" => \A t \in Places(g, i) : Ent(g, t).name \notin wanted
    BY <2>3, <2>4, <2>7, ScanIs
  <2>9. SameNames(f, g) /\ Right(f, g)
    BY <2>8, FillsSame, SameRight
  <2>10. CASE s.r # "ENOENT"
    <3>1. x.fs = g
      BY <2>6, <2>8, <2>10
    <3> QED
      BY <2>9, <3>1
  <2>11. CASE s.r = "ENOENT"
    <3>1. x = inode_unlink(g, p)
      BY <2>6, <2>7, <2>11, Zenon
    <3>2. Leads(g, p, slot, i) /\ i \in Dirs(g)
      <4>1. Keeps(f, g)
        BY <2>9, SameKeeps
      <4> QED
        BY <2>2, <2>3, <4>1, KeptLeads DEF Keeps
    <3>3. Barren(g, i)
      BY <2>4, <2>8, <2>11, <3>2, NoneFound
    <3>4. ASSUME NEW t, NEW j, Leads(g, p, t, j) PROVE Barren(g, j)
      <4>1. i = j
        BY <2>8, <3>2, <3>4, LeadsOne
      <4> QED
        BY <3>3, <4>1
    <3>5. Right(g, x.fs)
      BY <2>2, <2>8, <2>9, <3>1, <3>4, UnlinkRight DEF Right
    <3> QED
      BY <2>9, <3>5, RightMore
  <2> QED
    BY <2>10, <2>11
<1> QED
  BY <1>4, <1>5, <1>6, <1>7

LEMMA LinkCall ==
  ASSUME NEW f, Sound(f), OneName(f), NEW src, IsPath(src), NEW dst, IsPath(dst), NEW x, x = fs_link(f, src, dst)
  PROVE  Right(f, x.fs)
<1>1. PICK w : w = walk_path(f, src)
  OBVIOUS
<1>2. /\ w = [r |-> w.r, fs |-> w.fs, dir |-> w.dir, ino |-> w.ino, slot |-> w.slot]
      /\ Sound(w.fs) /\ SameNames(f, w.fs)
      /\ w.r = "ok" => w.fs = f /\ IF src = <<>> THEN w.ino = Root ELSE Leads(f, src, w.slot, w.ino)
  BY <1>1, WalkIs
<1>3. Right(f, w.fs)
  BY <1>2, SameRight
<1>4. CASE w.r # "ok"
  <2>1. x = w
    BY <1>1, <1>4, Zenon DEF fs_link, inode_open
  <2> QED
    BY <1>3, <2>1
<1>5. CASE w.r = "ok" /\ w.fs.inode[w.ino].mode = "dir"
  <2>1. x = [w EXCEPT !.r = "EPERM"]
    BY <1>1, <1>5, Zenon DEF fs_link, inode_open
  <2>2. x.fs = w.fs
    BY <1>2, <2>1
  <2> QED
    BY <1>3, <2>2
<1>6. CASE w.r = "ok" /\ w.fs.inode[w.ino].mode # "dir"
  <2>1. PICK j, s : j = w.ino /\ s = w.slot
    OBVIOUS
  <2>2. x = inode_link(f, src, dst)
    BY <1>1, <1>2, <1>6, Zenon DEF fs_link, inode_open
  <2>3. f.inode[j].mode # "dir"
    BY <1>2, <1>6, <2>1
  <2>4. src # <<>> /\ Leads(f, src, s, j)
    BY <1>2, <1>6, <2>1, <2>3, RootIs
  <2>5. CASE Sound(x.fs) /\ SameNames(f, x.fs)
    BY <2>5, SameRight
  <2>6. CASE \E h, d, e, g, t, i : /\ Sound(h) /\ SameNames(f, h) /\ Misses(f, dst, d, g) /\ Leads(f, src, t, i)
                                   /\ Named(h, x.fs, d, e, i, Last(dst)) /\ i \in Live(h)
                                   /\ x.fs.inode[i].nlink = MoreOne(f, i)
                                   /\ x.fs.inode[i].mode = f.inode[i].mode
    <3>1. PICK y : y = x.fs
      OBVIOUS
    <3>2. PICK h, d, e, g, t, i : /\ Sound(h) /\ SameNames(f, h) /\ Leads(f, src, t, i)
                                  /\ Named(h, y, d, e, i, Last(dst)) /\ i \in Live(h)
                                  /\ y.inode[i].nlink = MoreOne(f, i)
                                  /\ y.inode[i].mode = f.inode[i].mode
      BY <2>6, <3>1
    <3>3. i = j
      BY <2>4, <3>2, LeadsOne
    <3>4. i \in Inums /\ Sound(y)
      BY <3>2 DEF Named
    <3>5. MoreOne(h, i) = MoreOne(f, i)
      BY <3>2, <3>4, SameCounts DEF MoreOne
    <3>6. (Exact(h) => Exact(y)) /\ (OneName(h) => OneNameBut(y, i))
      BY <3>2, <3>5, NamedCounts
    <3>7. OneName(y)
      <4>1. i \notin Dirs(y)
        BY <2>3, <3>2, <3>3 DEF Dirs
      <4> QED
        BY <3>2, <3>6, <4>1, SameCounts DEF OneName, OneNameBut
    <3> QED
      BY <3>1, <3>2, <3>4, <3>6, <3>7, SameCounts DEF Right
  <2> QED
    BY <2>2, <2>4, <2>5, <2>6, LinkIs
<1> QED
  BY <1>4, <1>5, <1>6

\* getattr and chmod do no more than find the inode.
LEMMA LookCall ==
  ASSUME NEW f, Sound(f), OneName(f), NEW p, IsPath(p)
  PROVE  /\ Right(f, walk_path(f, p).fs) /\ Right(f, fs_getattr(f, p).fs) /\ Right(f, fs_chmod(f, p).fs)
<1>1. PICK w : w = walk_path(f, p)
  OBVIOUS
<1>2. /\ w = [r |-> w.r, fs |-> w.fs, dir |-> w.dir, ino |-> w.ino, slot |-> w.slot]
      /\ Sound(w.fs) /\ SameNames(f, w.fs)
  BY <1>1, WalkIs
<1>3. Right(f, w.fs)
  BY <1>2, SameRight
<1>4. PICK x : x = fs_chmod(f, p)
  OBVIOUS
<1>5. x = IF w.r = "ok" /\ w.ino = Root THEN [w EXCEPT !.r = "EPERM"] ELSE w
  BY <1>1, <1>4, Zenon DEF fs_chmod, inode_open
<1>6. x.fs = w.fs
  BY <1>2, <1>5
<1>7. fs_getattr(f, p) = w
  BY <1>1, Zenon DEF fs_getattr, inode_open
<1> QED
  BY <1>1, <1>3, <1>4, <1>6, <1>7

-----------------------------------------------------------------------------
(* Renaming *)

Full(f, d) == \A t \in Places(f, d) : Ent(f, t) # NoEnt

\* There is no way to, or no room in, the directory of a path's last name.
Blocked(f, p) ==
  \A c : Chain(f, p, Len(p) - 1, c) => c[Len(p)-1] \notin Dirs(f) \/ Full(f, c[Len(p)-1])

\* Why a link fails.
LEMMA LinkFails ==
  ASSUME NEW f, Sound(f), NEW src, IsPath(src), src # <<>>, NEW dst, IsPath(dst),
         NEW x, x = inode_link(f, src, dst), x.r # "ok"
  PROVE  \/ x.r = "EEXIST"
         \/ \A c : ~Chain(f, src, Len(src), c)
         \/ f.free = {} /\ Hole(f)
         \/ Blocked(f, dst)
<1>1. PICK o : o = walk_path(f, src)
  OBVIOUS
<1>2. /\ o.r = "ok" => o.fs = f
      /\ o.r # "ok" => \A c : ~Chain(f, src, Len(src), c)
  BY <1>1, WalkIs
<1>3. CASE o.r # "ok"
  BY <1>2, <1>3
<1>4. CASE o.r = "ok"
  <2>1. o.fs = f
    BY <1>2, <1>4
  <2>2. PICK w : w = walk_path(f, dst)
    OBVIOUS
  <2>3. /\ w = [r |-> w.r, fs |-> w.fs, dir |-> w.dir, ino |-> w.ino, slot |-> w.slot]
        /\ w.r \in {"ok", "ENOENT", "ENOSPC"} /\ Sound(w.fs) /\ SameNames(f, w.fs)
        /\ w.r = "ENOSPC" => f.free = {} /\ Hole(f)
        /\ w.r = "ENOENT" /\ w.dir # 0 => Misses(f, dst, w.dir, w.fs)
        /\ w.r = "ENOENT" /\ w.dir = 0 => \A c : Chain(f, dst, Len(dst) - 1, c) => c[Len(dst)-1] \notin Dirs(f)
    BY <2>2, WalkIs
  <2>4. CASE w.r = "ok"
    <3>1. x = [w EXCEPT !.r = "EEXIST"]
      BY <1>1, <1>4, <2>1, <2>2, <2>4, Zenon DEF inode_link, inode_open
    <3>2. x.r = "EEXIST"
      BY <2>3, <3>1
    <3> QED
      BY <3>2
  <2>5. CASE w.r = "ENOENT" /\ w.dir = 0
    BY <2>3, <2>5, Zenon DEF Blocked
  <2>6. CASE w.r = "ENOENT" /\ w.dir # 0
    <3>1. PICK dir, v : dir = w.dir /\ v = w.fs
      OBVIOUS
    <3>2. Misses(f, dst, dir, v) /\ dir \in Dirs(v) /\ dir \in Inums /\ Sound(v) /\ SameNames(f, v)
      <4>1. Misses(f, dst, dir, v) /\ Sound(v) /\ SameNames(f, v)
        BY <2>3, <2>6, <3>1
      <4> QED
        BY <4>1, SameDirs DEF Misses, Dirs
    <3>3. PICK d : d = dir_alloc_dirent(v, dir)
      OBVIOUS
    <3>4. /\ d = [r |-> d.r, fs |-> d.fs, slot |-> d.slot]
          /\ d.r \in {"ok", "ENOSPC"}
          /\ d.r = "ENOSPC" => \A t \in Places(v, dir) : Ent(v, t) # NoEnt
      BY <3>2, <3>3, DirentIs
    <3>5. CASE d.r = "ok"
      <4>1. PICK y : x = [d EXCEPT !.fs = y]
        <5>1. x = [d EXCEPT !.fs = SetEnt(Counted(d.fs, o.ino), d.slot, [name |-> Last(dst), inum |-> o.ino])]
          BY <1>1, <1>4, <2>1, <2>2, <2>6, <3>1, <3>3, <3>5, Zenon DEF inode_link, inode_open
        <5> QED
          BY <5>1, Zenon
      <4>2. x.r = "ok"
        BY <3>4, <3>5, <4>1
      <4> QED
        BY <4>2
    <3>6. CASE d.r = "ENOSPC"
      <4>1. Full(f, dir)
        <5> SUFFICES ASSUME NEW t \in Places(f, dir) PROVE Ent(f, t) # NoEnt
          BY DEF Full
        <5>1. t \in Places(v, dir) /\ Ent(v, t) = Ent(f, t)
          BY <3>2 DEF SameNames
        <5> QED
          BY <3>4, <3>6, <5>1
      <4>2. PICK n : n = Len(dst) - 1
        OBVIOUS
      <4>3. n \in Nat /\ n \in 0..n
        <5>1. dst # <<>>
          BY <3>2 DEF Misses
        <5> QED
          BY <4>2, <5>1, LastIs
      <4>4. PICK e : Chain(f, dst, n, e) /\ e[n] = dir
        BY <3>2, <4>2, Zenon DEF Misses
      <4>5. ASSUME NEW c, Chain(f, dst, n, c) PROVE Full(f, c[n])
        <5>0. n \in Nat /\ Chain(f, dst, n, c) /\ Chain(f, dst, n, e)
          BY <4>3, <4>4, <4>5
        <5>1. \A m \in 0..n : c[m] = e[m]
          BY <5>0, ChainIsOne
        <5>2. c[n] = e[n]
          BY <4>3, <5>1
        <5> QED
          BY <4>1, <4>4, <5>2
      <4> QED
        BY <4>2, <4>5, Zenon DEF Blocked
    <3> QED
      BY <3>4, <3>5, <3>6
  <2>7. CASE w.r = "ENOSPC"
    BY <2>3, <2>7
  <2> QED
    BY <2>3, <2>4, <2>5, <2>6, <2>7
<1> QED
  BY <1>3, <1>4

\* The link to the new name and the unlink of the old.
Moves(f, src, dst) ==
  LET Linked(l) == IF l.r # "ok" THEN l ELSE inode_unlink(l.fs, src) IN
  Linked(inode_link(f, src, dst))

\* The inode i goes from entry t to entry s.
MovesName(f, src, dst, k, h, y, d, s, t, i) ==
  /\ Sound(h) /\ SameNames(f, h) /\ Leads(f, src, t, i) /\ (\E g : Misses(f, dst, d, g))
  /\ Named(h, y, d, s, i, Last(dst)) /\ i \in Live(h) /\ y.inode[i].mode = f.inode[i].mode
  /\ Leads(y, src, t, i) /\ Surely(y, k, t, i) /\ i \notin Gone(y, i)

LEMMA NamesCounted ==
  ASSUME NEW f, Sound(f), NEW p, NEW s, NEW i, Leads(f, p, s, i)
  PROVE  f.inode[i].nlink \in Nat /\ f.inode[i].nlink >= 1
<1>1. i \in Inums /\ i \in Live(f) \ {Root} /\ s \in SlotsOf(f, i) /\ f \in Disks
  BY LeadsIs DEF Sound
<1>2. f.inode[i].nlink \in Nat
  BY <1>1, InodeIs
<1>3. IsFiniteSet(SlotsOf(f, i)) /\ Cardinality(SlotsOf(f, i)) \in Nat
  BY <1>1, FiniteSlots
<1>4. Cardinality(SlotsOf(f, i)) # 0
  BY <1>1, <1>3, FS_EmptySet
<1>5. Cardinality(SlotsOf(f, i)) <= f.inode[i].nlink
  BY <1>1 DEF Sound, Links
<1> QED
  BY <1>2, <1>3, <1>4, <1>5

LEMMA MoveIs ==
  ASSUME NEW f, Sound(f), OneName(f), NEW src, IsPath(src), src # <<>>, NEW dst, IsPath(dst),
         NEW x, x = Moves(f, src, dst)
  PROVE  /\ Right(f, x.fs) /\ Live(x.fs) = Live(f)
         /\ \/ /\ x.r # "ok" /\ Sound(x.fs) /\ SameNames(f, x.fs)
               /\ x = inode_link(f, src, dst)
            \/ x.r = "ok" /\ \E h, y, d, s, t, i : MovesName(f, src, dst, x.fs, h, y, d, s, t, i)
<1>1. PICK l : l = inode_link(f, src, dst)
  OBVIOUS
<1>2. CASE l.r # "ok"
  <2>1. x = l
    BY <1>1, <1>2, Zenon DEF Moves
  <2>2. Sound(l.fs) /\ SameNames(f, l.fs)
    BY <1>1, <1>2, LinkIs
  <2>3. Right(f, l.fs) /\ Live(l.fs) = Live(f)
    BY <2>2, SameRight, SameDirs
  <2> QED
    BY <1>1, <1>2, <2>1, <2>2, <2>3
<1>3. CASE l.r = "ok"
  <2>1. PICK y : y = l.fs
    OBVIOUS
  <2>2. PICK h, d, s, g, t, i : /\ Sound(h) /\ SameNames(f, h) /\ Misses(f, dst, d, g) /\ Leads(f, src, t, i)
                                /\ Named(h, y, d, s, i, Last(dst)) /\ i \in Live(h)
                                /\ y.inode[i].nlink = MoreOne(f, i)
                                /\ y.inode[i].mode = f.inode[i].mode
    BY <1>1, <1>3, <2>1, LinkIs
  <2>3. i \in Inums /\ i \in Live(f) \ {Root} /\ Sound(y) /\ Live(y) = Live(h) \cup {i}
    BY <2>2, LeadsIs DEF Named
  <2>4. Keeps(f, y)
    BY <2>2, SameKeeps, NamedKeeps, KeepsMore
  <2>5. Leads(y, src, t, i)
    BY <2>2, <2>4, KeptLeads
  <2>6. x = inode_unlink(y, src)
    BY <1>1, <1>3, <2>1, Zenon DEF Moves
  <2>7. PICK z : z = x.fs
    OBVIOUS
  <2>8. x.r = "ok" /\ z = Without(y, t, i)
    <3>1. \E c : Chain(y, src, Len(src), c)
      BY <2>5 DEF Leads
    <3>2. x.r = "ok" /\ \E e, j : Leads(y, src, e, j) /\ z = Without(y, e, j)
      BY <2>3, <2>6, <2>7, <3>1, UnlinkIs
    <3>3. PICK e, j : Leads(y, src, e, j) /\ z = Without(y, e, j)
      BY <3>2
    <3>4. e = t /\ j = i
      BY <2>3, <2>5, <3>3, LeadsOne
    <3> QED
      BY <3>2, <3>3, <3>4
  <2>9. PICK c \in Dirs(y) : t \in Places(y, c)
    BY <2>3, <2>5, LeadsIs
  <2>10. t \in SlotsOf(y, i) /\ i \in Live(y) \ {Root}
    BY <2>3, <2>5, LeadsIs
  <2>11. Surely(y, z, t, i)
    BY <2>3, <2>8, <2>9, <2>10, WithoutIs
  <2>12. i \notin Gone(y, i) /\ y.inode[i].nlink = f.inode[i].nlink + 1
    <3>1. f.inode[i].nlink \in Nat /\ f.inode[i].nlink >= 1
      BY <2>2, NamesCounted
    <3>2. y.inode[i].nlink = f.inode[i].nlink + 1
      BY <2>2 DEF MoreOne
    <3>3. LessOne(y, i) # 0
      BY <3>1, <3>2 DEF LessOne
    <3> QED
      BY <3>2, <3>3 DEF Gone
  <2>13. (Exact(f) => Exact(y)) /\ OneNameBut(y, i)
    <3>1. MoreOne(h, i) = MoreOne(f, i) /\ OneName(h) /\ (Exact(f) => Exact(h))
      BY <2>2, <2>3, SameCounts DEF MoreOne
    <3>2. (Exact(h) => Exact(y)) /\ (OneName(h) => OneNameBut(y, i))
      BY <2>2, <3>1, NamedCounts
    <3> QED
      BY <3>1, <3>2
  <2>14. i \in Dirs(y) => y.inode[i].nlink \in {1, 2}
    <3> SUFFICES ASSUME i \in Dirs(y) PROVE y.inode[i].nlink \in {1, 2}
      OBVIOUS
    <3>1. i \in Dirs(f)
      BY <2>2, <2>3 DEF Dirs
    <3>2. f.inode[i].nlink = 1
      BY <2>3, <3>1 DEF OneName
    <3> QED
      BY <2>12, <3>2
  <2>15. (Exact(y) => Exact(z)) /\ OneName(z)
    BY <2>3, <2>9, <2>10, <2>11, <2>12, <2>13, <2>14, WithoutCounts
  <2>16. Right(f, z)
    BY <2>11, <2>13, <2>15 DEF Right, Surely
  <2>17. Live(z) = Live(f)
    <3>1. Live(z) = Live(y) \ Gone(y, i) /\ Gone(y, i) = {}
      BY <2>11, <2>12 DEF Surely, Gone
    <3>2. Live(h) = Live(f)
      BY <2>2, SameDirs
    <3> QED
      BY <2>3, <3>1, <3>2
  <2>18. MovesName(f, src, dst, z, h, y, d, s, t, i)
    BY <2>2, <2>5, <2>11, <2>12, Zenon DEF MovesName
  <2> QED
    BY <2>7, <2>8, <2>16, <2>17, <2>18
<1> QED
  BY <1>2, <1>3

\* A link that finds its name taken has looked, and left all as it was.
LEMMA LinkClash ==
  ASSUME NEW f, Sound(f), NEW src, IsPath(src), src # <<>>, NEW dst, IsPath(dst),
         NEW x, x = inode_link(f, src, dst), x.r = "EEXIST", NEW w, w = walk_path(f, dst)
  PROVE  /\ w.r = "ok" /\ w.fs = f /\ (IF dst = <<>> THEN w.ino = Root ELSE Leads(f, dst, w.slot, w.ino))
         /\ x = [r |-> "EEXIST", fs |-> f, dir |-> w.dir, ino |-> w.ino, slot |-> w.slot]
<1>1. PICK o : o = walk_path(f, src)
  OBVIOUS
<1>2. o.r \in {"ok", "ENOENT", "ENOSPC"} /\ (o.r = "ok" => o.fs = f)
  BY <1>1, WalkIs
<1>3. o.r = "ok" /\ o.fs = f
  <2>1. ASSUME o.r # "ok" PROVE FALSE
    <3>1. x = o
      BY <1>1, <2>1, Zenon DEF inode_link, inode_open
    <3> QED
      BY <1>2, <3>1
  <2> QED
    BY <1>2, <2>1
<1>4. /\ w = [r |-> w.r, fs |-> w.fs, dir |-> w.dir, ino |-> w.ino, slot |-> w.slot]
      /\ w.r \in {"ok", "ENOENT", "ENOSPC"} /\ Sound(w.fs) /\ SameNames(f, w.fs)
      /\ w.r = "ok" => w.fs = f /\ IF dst = <<>> THEN w.ino = Root ELSE Leads(f, dst, w.slot, w.ino)
      /\ w.r = "ENOENT" /\ w.dir # 0 => Misses(f, dst, w.dir, w.fs)
  BY WalkIs
<1>5. CASE w.r = "ok"
  <2>1. x = [w EXCEPT !.r = "EEXIST"]
    BY <1>1, <1>3, <1>5, Zenon DEF inode_link, inode_open
  <2> QED
    BY <1>4, <1>5, <2>1
<1>6. CASE w.r # "ok" /\ (w.r # "ENOENT" \/ w.dir = 0)
  <2>1. x = w
    BY <1>1, <1>3, <1>6, Zenon DEF inode_link, inode_open
  <2> QED
    BY <1>4, <2>1
<1>7. CASE w.r = "ENOENT" /\ w.dir # 0
  <2>1. PICK dir, v : dir = w.dir /\ v = w.fs
    OBVIOUS
  <2>2. dir \in Dirs(v) /\ Sound(v)
    <3>1. Misses(f, dst, dir, v) /\ Sound(v) /\ SameNames(f, v)
      BY <1>4, <1>7, <2>1
    <3> QED
      BY <3>1, SameDirs DEF Misses
  <2>3. PICK d : d = dir_alloc_dirent(v, dir)
    OBVIOUS
  <2>4. d = [r |-> d.r, fs |-> d.fs, slot |-> d.slot] /\ d.r \in {"ok", "ENOSPC"}
    BY <2>2, <2>3, DirentIs
  <2>5. CASE d.r = "ok"
    <3>1. x = [d EXCEPT !.fs = SetEnt(Counted(d.fs, o.ino), d.slot, [name |-> Last(dst), inum |-> o.ino])]
      BY <1>1, <1>3, <1>7, <2>1, <2>3, <2>5, Zenon DEF inode_link, inode_open
    <3>2. PICK y : x = [d EXCEPT !.fs = y]
      BY <3>1, Zenon
    <3>3. x.r = "ok"
      BY <2>4, <2>5, <3>2
    <3> QED
      BY <3>3
  <2>6. CASE d.r # "ok"
    <3>1. x = d
      BY <1>1, <1>3, <1>7, <2>1, <2>3, <2>6, Zenon DEF inode_link, inode_open
    <3> QED
      BY <2>4, <3>1
  <2> QED
    BY <2>5, <2>6
<1> QED
  BY <1>5, <1>6, <1>7

\* readdir passes on what is in the directory's blocks.
LEMMA ReaddirIs ==
  ASSUME NEW f, Sound(f), NEW d \in Dirs(f), NEW e
  PROVE  e \in fs_readdir(f, d) <=> e # NoEnt /\ \E t \in Places(f, d) : Ent(f, t) = e
<1>1. PICK B : B = {f.inode[d].blk[n] : n \in 0..f.inode[d].size-1} \ {0}
  OBVIOUS
<1>2. PICK U : U = UNION {{f.ents[b][j] : j \in 1..BLKDIRENTS} : b \in B}
  OBVIOUS
<1>3. fs_readdir(f, d) = {x \in U : x.name # ""}
  BY <1>1, <1>2, Zenon DEF fs_readdir
<1>4. B = BlocksOf(f, d)
  <2>1. d \in Inums /\ f \in Disks
    BY DEF Dirs, Sound
  <2>2. f.inode[d].size \in 0..MaxBlocks
    BY <2>1, InodeIs
  <2>3. \A n \in 0..MaxBlocks-1 : n >= f.inode[d].size => f.inode[d].blk[n] = 0
    BY DEF Sound, Shapes
  <2>4. MaxBlocks \in Nat
    BY Sizes
  <2>5. PICK z, k : z = f.inode[d].size /\ k = f.inode[d].blk
    OBVIOUS
  <2>6. {k[n] : n \in 0..z-1} \ {0} = {k[n] : n \in 0..MaxBlocks-1} \ {0}
    BY <2>2, <2>3, <2>4, <2>5
  <2> QED
    BY <1>1, <2>5, <2>6 DEF BlocksOf
<1>5. e \in U <=> \E t \in Places(f, d) : Ent(f, t) = e
  <2>1. ASSUME e \in U PROVE \E t \in Places(f, d) : Ent(f, t) = e
    <3>1. PICK b \in B, j \in 1..BLKDIRENTS : e = f.ents[b][j]
      BY <1>2, <2>1, Zenon
    <3>2. <<b, j>> \in Places(f, d) /\ Ent(f, <<b, j>>) = e
      BY <1>4, <3>1 DEF Places, Ent
    <3> QED
      BY <3>2
  <2>2. ASSUME NEW t \in Places(f, d), Ent(f, t) = e PROVE e \in U
    <3>1. PICK b, j : b = t[1] /\ j = t[2]
      OBVIOUS
    <3>2. b \in B /\ j \in 1..BLKDIRENTS /\ e = f.ents[b][j]
      BY <1>4, <2>2, <3>1 DEF Places, Ent
    <3>3. PICK E : E = {f.ents[b][k] : k \in 1..BLKDIRENTS}
      OBVIOUS
    <3>4. e \in E
      BY <3>2, <3>3
    <3>5. E \in {{f.ents[c][k] : k \in 1..BLKDIRENTS} : c \in B}
      BY <3>2, <3>3
    <3> QED
      BY <1>2, <3>4, <3>5
  <2> QED
    BY <2>1, <2>2
<1>6. ASSUME NEW t \in Places(f, d) PROVE Ent(f, t) = NoEnt \/ Ent(f, t).name # ""
  BY DEF Sound, Names1
<1>7. NoEnt.name = ""
  BY DEF NoEnt
<1> QED
  BY <1>3, <1>5, <1>6, <1>7, Zenon

\* A directory readdir finds nothing in has nothing in it.
LEMMA NothingRead ==
  ASSUME NEW f, Sound(f), NEW d, d \in Dirs(f) => fs_readdir(f, d) = {}
  PROVE  Barren(f, d)
<1> SUFFICES ASSUME d \in Dirs(f), NEW t \in Places(f, d), Ent(f, t) # NoEnt PROVE FALSE
  BY DEF Barren
<1>1. Ent(f, t) \in fs_readdir(f, d)
  BY ReaddirIs
<1> QED
  BY <1>1

\* What fs_rename does.
LEMMA RenameIs ==
  ASSUME NEW f, Sound(f), NEW src, IsPath(src), src # <<>>, NEW dst, IsPath(dst),
         NEW x, x = fs_rename(f, src, dst), NEW l, l = inode_link(f, src, dst), NEW u, u = inode_unlink(f, dst)
  PROVE  \/ l.r # "EEXIST" /\ x = Moves(f, src, dst)
         \/ l.r = "EEXIST" /\ src = dst /\ x.r = "ok" /\ x.fs = f
         \/ l.r = "EEXIST" /\ src # dst /\ u.r # "ok" /\ x = u
         \/ l.r = "EEXIST" /\ src # dst /\ u.r = "ok" /\ x = Moves(u.fs, src, dst)
<1>1. CASE l.r # "EEXIST"
  BY <1>1, Zenon DEF fs_rename, Moves
<1>2. CASE l.r = "EEXIST" /\ src = dst
  <2>1. x = [l EXCEPT !.r = "ok"]
    BY <1>2, Zenon DEF fs_rename
  <2>2. PICK w : w = walk_path(f, dst)
    OBVIOUS
  <2>3. l = [r |-> "EEXIST", fs |-> f, dir |-> w.dir, ino |-> w.ino, slot |-> w.slot]
    BY <1>2, <2>2, LinkClash
  <2>4. x.r = "ok" /\ x.fs = f
    BY <2>1, <2>3
  <2> QED
    BY <1>2, <2>4
<1>3. CASE l.r = "EEXIST" /\ src # dst
  <2>1. PICK w : w = walk_path(f, dst)
    OBVIOUS
  <2>2. l = [r |-> "EEXIST", fs |-> f, dir |-> w.dir, ino |-> w.ino, slot |-> w.slot]
    BY <1>3, <2>1, LinkClash
  <2>3. l.fs = f
    BY <2>2
  <2>4. CASE u.r # "ok"
    BY <1>3, <2>3, <2>4, Zenon DEF fs_rename
  <2>5. CASE u.r = "ok"
    BY <1>3, <2>3, <2>5, Zenon DEF fs_rename, Moves
  <2> QED
    BY <1>3, <2>4, <2>5
<1> QED
  BY <1>1, <1>2, <1>3

\* The counts a rename leaves; only the directory it replaces may take names
\* with it that are counted.
LEMMA RenameRight ==
  ASSUME NEW f, Sound(f), OneName(f), NEW src, IsPath(src), src # <<>>, NEW dst, IsPath(dst), dst # <<>>,
         NEW x, x = fs_rename(f, src, dst), NEW w, w = walk_path(f, dst)
  PROVE  /\ Sound(x.fs) /\ OneName(x.fs)
         /\ w.r # "ok" \/ (w.ino \in Dirs(f) => fs_readdir(f, w.ino) = {} \/ x.fs.inode[w.ino] # NoInode)
              => Right(f, x.fs)
<1>1. PICK l, u : l = inode_link(f, src, dst) /\ u = inode_unlink(f, dst)
  OBVIOUS
<1>2. ASSUME l.r = "EEXIST" PROVE w.r = "ok" /\ Leads(f, dst, w.slot, w.ino)
  BY <1>1, <1>2, LinkClash
<1>3. CASE x = Moves(f, src, dst)
  <2>1. Right(f, x.fs)
    BY <1>3, MoveIs
  <2> QED
    BY <2>1 DEF Right
<1>4. CASE x.fs = f
  BY <1>4 DEF Right
<1>5. CASE l.r = "EEXIST" /\ u.r # "ok" /\ x = u
  <2>1. Sound(u.fs) /\ SameNames(f, u.fs)
    BY <1>1, <1>5, UnlinkIs
  <2>2. Right(f, u.fs)
    BY <2>1, SameRight
  <2> QED
    BY <1>5, <2>2 DEF Right
<1>6. CASE l.r = "EEXIST" /\ u.r = "ok" /\ x = Moves(u.fs, src, dst)
  <2>1. PICK v, s, j : v = u.fs /\ s = w.slot /\ j = w.ino
    OBVIOUS
  <2>2. Leads(f, dst, s, j) /\ w.r = "ok"
    BY <1>2, <1>6, <2>1
  <2>3. Sound(v) /\ OneName(v) /\ ((\A t, i : Leads(f, dst, t, i) => Barren(f, i)) => Right(f, v))
    BY <1>1, <2>1, UnlinkRight
  <2>4. Right(v, x.fs) /\ Live(x.fs) = Live(v)
    BY <1>6, <2>1, <2>3, MoveIs
  <2>5. Barren(f, j) => Right(f, v)
    <3> SUFFICES ASSUME Barren(f, j), NEW t, NEW i, Leads(f, dst, t, i) PROVE Barren(f, i)
      BY <2>3
    <3>1. i = j
      BY <2>2, LeadsOne
    <3> QED
      BY <3>1
  <2>6. ASSUME j \in Dirs(f), x.fs.inode[j] # NoInode PROVE FALSE
    <3>1. v = Without(f, s, j)
      <4>1. PICK t, i : Leads(f, dst, t, i) /\ u.fs = Without(f, t, i)
        <5>1. u.r # "ok" \/ \E t, i : Leads(f, dst, t, i) /\ u.fs = Without(f, t, i)
          <6>1. u.r \in {"ENOENT", "ENOSPC"} => u.r # "ok"
            OBVIOUS
          <6> QED
            BY <1>1, <6>1, UnlinkIs
        <5> QED
          BY <1>6, <5>1
      <4>2. t = s /\ i = j
        BY <2>2, <4>1, LeadsOne
      <4> QED
        BY <2>1, <4>1, <4>2
    <3>2. j \in Inums /\ j \in Live(f) \ {Root} /\ s \in SlotsOf(f, j)
      BY <2>2, LeadsIs
    <3>3. PICK d \in Dirs(f) : s \in Places(f, d)
      BY <2>2, LeadsIs
    <3>4. Surely(f, v, s, j)
      BY <3>1, <3>2, <3>3, WithoutIs
    <3>5. f.inode[j].nlink = 1
      BY <2>6, <3>2 DEF OneName
    <3>6. j \in Gone(f, j)
      BY <3>5 DEF Gone, LessOne
    <3>7. j \notin Live(v)
      BY <3>4, <3>6 DEF Surely
    <3>8. Sound(x.fs) /\ j \notin Live(x.fs)
      BY <2>4, <3>7 DEF Right
    <3>9. \A i \in Inums \ Live(x.fs) : x.fs.inode[i] = NoInode
      BY <3>8 DEF Sound, Shapes
    <3> QED
      BY <2>6, <3>2, <3>8, <3>9
  <2>7. ASSUME j \in Dirs(f) => fs_readdir(f, j) = {} \/ x.fs.inode[j] # NoInode PROVE Right(f, x.fs)
    <3>1. j \in Dirs(f) => fs_readdir(f, j) = {}
      BY <2>6, <2>7
    <3>2. Barren(f, j)
      BY <3>1, NothingRead
    <3> QED
      BY <2>4, <2>5, <3>2, RightMore
  <2> QED
    BY <2>1, <2>2, <2>4, <2>7 DEF Right
<1> QED
  BY <1>1, <1>3, <1>4, <1>5, <1>6, RenameIs

-----------------------------------------------------------------------------
(* The invariant *)

\* A fresh image holds the root and nothing else.
LEMMA InitIs ==
  ASSUME Init
  PROVE  Sound(fs) /\ OneName(fs) /\ Exact(fs) /\ fh = NoHandle /\ dropped = FALSE
<1>1. PICK f, x : f = fs /\ x = [NoInode EXCEPT !.mode = "dir", !.nlink = 1]
  OBVIOUS
<1>2. x.mode = "dir" /\ x.blk = NoInode.blk /\ x.size = 0 /\ x \in Inode
  <2>1. PICK y : y = NoInode
    OBVIOUS
  <2>2. y \in Inode /\ y.size = 0 /\ y.blk = NoInode.blk
    BY <2>1, Types DEF NoInode
  <2>3. x = [y EXCEPT !.mode = "dir", !.nlink = 1]
    BY <1>1, <2>1
  <2> QED
    BY <2>2, <2>3 DEF Inode
<1>3. f = [free |-> Free, inode |-> [i \in Inums |-> IF i = Root THEN x ELSE NoInode],
           ents |-> [b \in {0} \cup Free |-> EmptyBlk]]
  BY <1>1, Zenon DEF Init
<1>4. /\ f.free = Free /\ f.inode = [i \in Inums |-> IF i = Root THEN x ELSE NoInode]
      /\ f.ents = [b \in {0} \cup Free |-> EmptyBlk]
  BY <1>3
<1>5. f \in Disks /\ f.ents[0] = EmptyBlk
  <2>1. PICK F, I, E : F = f.free /\ I = f.inode /\ E = f.ents
    OBVIOUS
  <2>2. F \in SUBSET Free /\ I \in [Inums -> Inode] /\ E \in [{0} \cup Free -> [1..BLKDIRENTS -> Entry]]
    BY <1>2, <1>4, <2>1, Types
  <2>3. f = [free |-> F, inode |-> I, ents |-> E]
    BY <1>3, <1>4, <2>1
  <2> QED
    BY <1>4, <2>2, <2>3, Types
<1>6. NoInode.mode = "none" /\ \A n \in 0..MaxBlocks-1 : NoInode.blk[n] = 0
  BY DEF NoInode
<1>7. \A i \in Inums, n \in 0..MaxBlocks-1 : f.inode[i].blk[n] = 0
  BY <1>2, <1>4, <1>6
<1>8. Live(f) = {Root} /\ Dirs(f) = {Root} /\ \A i \in Inums \ {Root} : f.inode[i] = NoInode
  BY <1>2, <1>4, <1>6, Basics DEF Live, Dirs
<1>9. \A i \in Inums : BlocksOf(f, i) = {} /\ Places(f, i) = {}
  BY <1>7 DEF BlocksOf, Places
<1>10. OneUse(f)
  BY <1>7 DEF OneUse
<1>11. Partition(f)
  BY <1>4, <1>7, <1>8, Basics DEF Partition
<1>12. Shapes(f)
  <2>1. f.inode[Root].size = 0
    BY <1>2, <1>4, Basics
  <2>2. \A n \in 0..MaxBlocks-1 : ~(n + 1 < 0)
    BY Sizes
  <2> QED
    BY <1>7, <1>8, <2>1, <2>2, Basics DEF Shapes
<1>13. Names1(f)
  BY <1>8, <1>9, Basics DEF Names1
<1>14. Links(f) /\ Exact(f) /\ OneName(f)
  BY <1>8 DEF Links, Exact, OneName
<1> QED
  BY <1>1, <1>5, <1>10, <1>11, <1>12, <1>13, <1>14 DEF Sound, Init

LEMMA SingleIs ==
  ASSUME NEW e
  PROVE  <<e>> \in Seq({e}) /\ Len(<<e>>) = 1 /\ 1 \in 1..Len(<<e>>) /\ <<e>>[1] = e
OBVIOUS

LEMMA StartIs ==
  ASSUME NEW S, NEW t \in Seq(S), NEW n \in Nat, n # 0, n <= Len(t)
  PROVE  SubSeq(t, 1, n)[1] = t[1]
OBVIOUS

\* The paths a call is given, and those libfuse makes of them.
LEMMA PathsAre ==
  /\ \A p \in Paths : IsPath(p)
  /\ \A p : IsPath(p) /\ p # <<>> => IsPath(HiddenPath(p)) /\ HiddenPath(p) # <<>>
  /\ ~IsPath(Nowhere) /\ Nowhere # <<>> /\ Last(Nowhere) # Hidden
<1>1. ASSUME NEW p \in Paths PROVE IsPath(p)
  <2>1. p \in Seq(Names)
    BY PathsAssumption
  <2> QED
    BY <2>1 DEF IsPath, AllNames
<1>2. ASSUME NEW p, IsPath(p), p # <<>> PROVE IsPath(HiddenPath(p)) /\ HiddenPath(p) # <<>>
  <2>1. PICK q : q = Front(p)
    OBVIOUS
  <2>2. q \in Seq(AllNames)
    <3>1. p \in Seq(AllNames) /\ Len(p) - 1 \in 0..Len(p)
      BY <1>2 DEF IsPath
    <3>2. q = SubSeq(p, 1, Len(p) - 1)
      BY <2>1, Zenon DEF Front
    <3> QED
      BY <3>1, <3>2
  <2>3. Hidden \in AllNames
    BY DEF AllNames
  <2>4. Append(q, Hidden) \in Seq(AllNames) /\ Len(Append(q, Hidden)) = Len(q) + 1 /\ Len(q) \in Nat
    BY <2>2, <2>3
  <2>5. Append(q, Hidden) # <<>>
    BY <2>4
  <2> QED
    BY <2>1, <2>4, <2>5, Zenon DEF HiddenPath, IsPath
<1>3. Len(Nowhere) = 1 /\ Nowhere[1] = ""
  BY DEF Nowhere
<1>4. Last(Nowhere) = ""
  BY <1>3 DEF Last
<1>5. ~IsPath(Nowhere)
  <2> SUFFICES ASSUME IsPath(Nowhere) PROVE FALSE
    OBVIOUS
  <2>1. \A k \in 1..Len(Nowhere) : Nowhere[k] \in AllNames
    BY PathIs
  <2>2. 1 \in 1..Len(Nowhere)
    BY SingleIs DEF Nowhere
  <2>3. Nowhere[1] \in AllNames
    BY <2>1, <2>2, Zenon
  <2> QED
    BY <1>3, <2>3, NamesAre, Zenon
<1>6. Nowhere # <<>>
  BY DEF Nowhere
<1> QED
  BY <1>1, <1>2, <1>4, <1>5, <1>6, NamesAssumption

\* What a call needs of the state, and leaves of it.
Fine(f, lost) == Sound(f) /\ OneName(f) /\ (~lost => Exact(f))

LEMMA FineMore ==
  ASSUME NEW f, NEW g, NEW lost, Fine(f, lost), Right(f, g)
  PROVE  Fine(g, lost)
BY DEF Fine, Right

\* The inode an opened path leads to.
LEMMA ModeIs ==
  ASSUME NEW f, Sound(f), NEW p, IsPath(p), NEW w, w = walk_path(f, p)
  PROVE  /\ Mode(f, p) = IF w.r = "ok" THEN f.inode[w.ino].mode ELSE "none"
         /\ w.r = "ok" => w.ino \in Inums /\ w.ino \in Live(f)
         /\ Mode(f, p) = "none" <=> w.r # "ok"
<1>1. w.r = "ok" => w.fs = f /\ IF p = <<>> THEN w.ino = Root ELSE Leads(f, p, w.slot, w.ino)
  BY WalkIs
<1>2. Mode(f, p) = IF w.r = "ok" THEN w.fs.inode[w.ino].mode ELSE "none"
  BY Zenon DEF Mode
<1>3. Mode(f, p) = IF w.r = "ok" THEN f.inode[w.ino].mode ELSE "none"
  BY <1>1, <1>2
<1>4. ASSUME w.r = "ok" PROVE w.ino \in Inums /\ w.ino \in Live(f) /\ f.inode[w.ino].mode # "none"
  <2>1. w.ino \in Live(f)
    BY <1>1, <1>4, RootIs DEF Leads
  <2> QED
    BY <2>1 DEF Live
<1> QED
  BY <1>3, <1>4

\* Where a path leads after a rename libfuse has heard of.
LEMMA MovedIs ==
  ASSUME NEW p, p = Nowhere \/ (IsPath(p) /\ p # <<>>),
         NEW src, IsPath(src), src # <<>>, NEW dst, IsPath(dst), dst # <<>>, NEW q, q = Moved(p, src, dst)
  PROVE  q = Nowhere \/ (IsPath(q) /\ q # <<>>)
<1>1. CASE IsPrefix(src, p)
  <2>1. Len(src) \in Nat /\ Len(src) # 0 /\ Len(src) <= Len(p) /\ SubSeq(src, 1, Len(src)) = SubSeq(p, 1, Len(src))
    BY <1>1, LastIs DEF IsPrefix
  <2>2. IsPath(p)
    <3> SUFFICES ASSUME p = Nowhere PROVE FALSE
      OBVIOUS
    <3>1. src \in Seq(AllNames)
      BY DEF IsPath
    <3>2. Nowhere \in Seq({""}) /\ Nowhere[1] = ""
      BY SingleIs DEF Nowhere
    <3>3. SubSeq(src, 1, Len(src))[1] = src[1]
      BY <2>1, <3>1, StartIs
    <3>4. SubSeq(p, 1, Len(src))[1] = p[1]
      <4>1. p \in Seq({""})
        BY <3>2
      <4> QED
        BY <2>1, <4>1, StartIs
    <3>5. src[1] \in AllNames
      BY <2>1, <3>1
    <3> QED
      BY <2>1, <3>2, <3>3, <3>4, <3>5, NamesAre, Zenon
  <2>3. PICK r : r = SubSeq(p, Len(src) + 1, Len(p))
    OBVIOUS
  <2>4. q = dst \o r
    BY <1>1, <2>3, Zenon DEF Moved
  <2>5. r \in Seq(AllNames)
    BY <2>1, <2>2, <2>3 DEF IsPath
  <2>6. dst \in Seq(AllNames) /\ Len(dst) \in Nat /\ Len(dst) # 0
    BY LastIs DEF IsPath
  <2>7. q \in Seq(AllNames) /\ Len(q) = Len(dst) + Len(r) /\ Len(r) \in Nat
    BY <2>4, <2>5, <2>6
  <2>8. q # <<>>
    BY <2>6, <2>7
  <2> QED
    BY <2>7, <2>8 DEF IsPath
<1>2. CASE ~IsPrefix(src, p) /\ IsPrefix(dst, p)
  BY <1>2, Zenon DEF Moved
<1>3. CASE ~IsPrefix(src, p) /\ ~IsPrefix(dst, p)
  <2>1. q = p
    BY <1>3, Zenon DEF Moved
  <2> QED
    BY <2>1
<1> QED
  BY <1>1, <1>2, <1>3

\* A callback that leaves the disk right.
LEMMA CallStep ==
  ASSUME IInv, NEW x, Done(x), Right(fs, x.fs), UNCHANGED <<fh, dropped>>
  PROVE  IInv'
<1>1. fs' = x.fs /\ fh' = fh /\ dropped' = dropped
  BY DEF Done
<1>2. Fine(fs, dropped) /\ HandleIs /\ dropped \in BOOLEAN
  BY DEF IInv, Fine
<1>3. Fine(fs', dropped')
  BY <1>1, <1>2, FineMore
<1>4. HandleIs'
  BY <1>1, <1>2 DEF HandleIs
<1> QED
  BY <1>1, <1>2, <1>3, <1>4 DEF IInv, Fine

LEMMA RenameStep ==
  ASSUME IInv, NEW src \in Paths, NEW dst \in Paths, Rename(src, dst)
  PROVE  IInv'
<1>1. PICK x, w : x = fs_rename(fs, src, dst) /\ w = walk_path(fs, dst)
  OBVIOUS
<1>2. /\ fs' = x.fs
      /\ fh' = IF x.r = "ok" /\ fh # NoHandle THEN [fh EXCEPT !.path = Moved(@, src, dst)] ELSE fh
      /\ dropped' = (dropped \/ (/\ fs.inode[w.ino].mode = "dir" /\ fs_readdir(fs, w.ino) # {}
                                 /\ x.fs.inode[w.ino] = NoInode))
  BY <1>1, Zenon DEF Rename, Done
<1>3. IsPath(src) /\ src # <<>> /\ IsPath(dst) /\ dst # <<>>
  BY PathsAre DEF Rename, Renameable
<1>4. Fine(fs, dropped) /\ HandleIs /\ dropped \in BOOLEAN
  BY DEF IInv, Fine
<1>5. Sound(fs) /\ OneName(fs)
  BY <1>4 DEF Fine
<1>6. /\ Sound(x.fs) /\ OneName(x.fs)
      /\ w.r # "ok" \/ (w.ino \in Dirs(fs) => fs_readdir(fs, w.ino) = {} \/ x.fs.inode[w.ino] # NoInode)
           => Right(fs, x.fs)
  BY <1>1, <1>3, <1>5, RenameRight
<1>7. Fine(fs', dropped') /\ dropped' \in BOOLEAN
  <2>1. CASE dropped'
    <3>1. dropped' \in BOOLEAN
      BY <1>2, <1>4, Zenon
    <3> QED
      BY <1>2, <1>6, <2>1, <3>1 DEF Fine
  <2>2. CASE ~dropped'
    <3>1. ~dropped /\ dropped' = FALSE
      BY <1>2, <1>4, <2>2, Zenon
    <3>2. ~(fs.inode[w.ino].mode = "dir" /\ fs_readdir(fs, w.ino) # {} /\ x.fs.inode[w.ino] = NoInode)
      BY <1>2, <2>2, Zenon
    <3>3. Right(fs, x.fs)
      BY <1>6, <3>2, Zenon DEF Dirs
    <3> QED
      BY <1>2, <1>4, <3>1, <3>3, FineMore
  <2> QED
    BY <2>1, <2>2
<1>8. HandleIs'
  <2>1. CASE fh' = fh
    BY <1>4, <2>1 DEF HandleIs
  <2>2. CASE fh # NoHandle /\ fh' = [fh EXCEPT !.path = Moved(@, src, dst)]
    <3>1. PICK p, q : p = fh.path /\ q = Moved(p, src, dst)
      OBVIOUS
    <3>2. /\ fh = [ino |-> fh.ino, path |-> p] /\ fh.ino \in Inums
          /\ p = Nowhere \/ (IsPath(p) /\ p # <<>>)
      BY <1>4, <2>2, <3>1 DEF HandleIs
    <3>3. q = Nowhere \/ (IsPath(q) /\ q # <<>>)
      BY <1>3, <3>1, <3>2, MovedIs
    <3>4. fh' = [ino |-> fh.ino, path |-> q]
      <4>1. fh' = [fh EXCEPT !.path = q]
        BY <2>2, <3>1, Zenon
      <4> QED
        BY <3>2, <4>1
    <3> QED
      BY <3>2, <3>3, <3>4 DEF HandleIs
  <2> QED
    BY <1>2, <2>1, <2>2
<1> QED
  BY <1>7, <1>8 DEF IInv, Fine

\* An open file that is removed gets the hidden name, if nothing has it.
LEMMA HideStep ==
  ASSUME IInv, NEW path \in Paths, UnlinkOpen(path)
  PROVE  IInv'
<1>1. PICK x, p : x = Hide(fs, path) /\ p = HiddenPath(path)
  OBVIOUS
<1>2. /\ fs' = x.fs /\ fh' = IF x.r = "ok" THEN [fh EXCEPT !.path = p] ELSE fh
      /\ fh # NoHandle /\ fh.path = path /\ dropped' = dropped
  BY <1>1, Zenon DEF UnlinkOpen, IsOpen, Done
<1>3. Fine(fs, dropped) /\ HandleIs /\ dropped \in BOOLEAN
  BY DEF IInv, Fine
<1>4. /\ fh = [ino |-> fh.ino, path |-> path] /\ fh.ino \in Inums /\ IsPath(path) /\ path # <<>>
      /\ IsPath(p) /\ p # <<>>
  <2>1. /\ fh = [ino |-> fh.ino, path |-> path] /\ fh.ino \in Inums
        /\ path = Nowhere \/ (IsPath(path) /\ path # <<>>)
    BY <1>2, <1>3, Zenon DEF HandleIs
  <2>2. IsPath(path) /\ path # <<>>
    BY <2>1, PathsAre
  <2> QED
    BY <1>1, <2>1, <2>2, PathsAre
<1>5. Right(fs, x.fs)
  <2>1. Sound(fs) /\ OneName(fs)
    BY <1>3 DEF Fine
  <2>2. CASE Mode(fs, p) = "none"
    <3>1. x = fs_rename(fs, path, p)
      BY <1>1, <2>2, Zenon DEF Hide
    <3>2. PICK w : w = walk_path(fs, p)
      OBVIOUS
    <3>3. w.r # "ok"
      BY <1>4, <2>1, <2>2, <3>2, ModeIs
    <3> QED
      BY <1>4, <2>1, <3>1, <3>2, <3>3, RenameRight
  <2>3. CASE Mode(fs, p) # "none"
    <3>1. x = [r |-> "EBUSY", fs |-> fs]
      BY <1>1, <2>3, Zenon DEF Hide
    <3>2. x.fs = fs
      BY <3>1
    <3> QED
      BY <2>1, <3>2 DEF Right
  <2> QED
    BY <2>2, <2>3
<1>6. Fine(fs', dropped')
  BY <1>2, <1>3, <1>5, FineMore
<1>7. HandleIs'
  <2>1. CASE fh' = fh
    BY <1>3, <2>1 DEF HandleIs
  <2>2. CASE fh' = [fh EXCEPT !.path = p]
    <3>1. fh' = [ino |-> fh.ino, path |-> p]
      BY <1>4, <2>2
    <3> QED
      BY <1>4, <3>1 DEF HandleIs
  <2> QED
    BY <1>2, <2>1, <2>2
<1> QED
  BY <1>2, <1>3, <1>6, <1>7 DEF IInv, Fine

LEMMA OpenStep ==
  ASSUME IInv, NEW path \in OpenPaths, Open(path)
  PROVE  IInv'
<1>1. PICK w : w = walk_path(fs, path)
  OBVIOUS
<1>2. fs' = w.fs /\ fh' = [ino |-> w.ino, path |-> path] /\ dropped' = dropped /\ Mode(fs, path) = "file"
  BY <1>1, Zenon DEF Open, Done, inode_open
<1>3. Fine(fs, dropped) /\ dropped \in BOOLEAN /\ Sound(fs) /\ OneName(fs)
  BY DEF IInv, Fine
<1>4. IsPath(path)
  BY PathsAre, OpenPathsAssumption
<1>5. /\ Mode(fs, path) = IF w.r = "ok" THEN fs.inode[w.ino].mode ELSE "none"
      /\ w.r = "ok" => w.ino \in Inums
  BY <1>1, <1>3, <1>4, ModeIs
<1>6. w.r = "ok" => (path = <<>> => w.ino = Root)
  BY <1>1, <1>3, <1>4, WalkIs
<1>7. w.ino \in Inums /\ path # <<>>
  <2>1. w.r = "ok" /\ fs.inode[w.ino].mode = "file"
    BY <1>2, <1>5
  <2>2. fs.inode[Root].mode = "dir"
    BY <1>3, RootIs
  <2> QED
    BY <1>5, <1>6, <2>1, <2>2
<1>8. Right(fs, w.fs)
  BY <1>1, <1>3, <1>4, LookCall
<1>9. Fine(fs', dropped')
  BY <1>2, <1>3, <1>8, FineMore
<1>10. HandleIs'
  BY <1>2, <1>4, <1>7 DEF HandleIs
<1> QED
  BY <1>2, <1>3, <1>9, <1>10 DEF IInv, Fine

LEMMA ReleaseStep ==
  ASSUME IInv, Release
  PROVE  IInv'
<1>1. fh # NoHandle /\ fh' = NoHandle /\ dropped' = dropped
  BY DEF Release
<1>2. PICK p, x : p = fh.path /\ x = fs_unlink(fs, p)
  OBVIOUS
<1>3. Fine(fs, dropped) /\ dropped \in BOOLEAN /\ Sound(fs) /\ OneName(fs) /\ HandleIs
  BY DEF IInv, Fine
<1>4. Fine(fs', dropped')
  <2>1. CASE Last(p) = Hidden
    <3>1. fs' = x.fs
      BY <1>2, <2>1, Zenon DEF Release, Done
    <3>2. IsPath(p)
      <4>1. p = Nowhere \/ IsPath(p)
        BY <1>1, <1>2, <1>3 DEF HandleIs
      <4> QED
        BY <2>1, <4>1, PathsAre
    <3>3. Right(fs, x.fs)
      BY <1>2, <1>3, <3>2, UnlinkCall
    <3> QED
      BY <1>1, <1>3, <3>1, <3>3, FineMore
  <2>2. CASE Last(p) # Hidden
    <3>1. fs' = fs
      BY <1>2, <2>2, Zenon DEF Release
    <3> QED
      BY <1>1, <1>3, <3>1
  <2> QED
    BY <2>1, <2>2
<1>5. HandleIs'
  BY <1>1 DEF HandleIs
<1> QED
  BY <1>1, <1>3, <1>4, <1>5 DEF IInv, Fine

\* The root is a directory already.
LEMMA RemountSame ==
  ASSUME Sound(fs), Remount
  PROVE  fs' = fs
<1>1. PICK F, I, E : F = fs.free /\ I = fs.inode /\ E = fs.ents
  OBVIOUS
<1>2. fs = [free |-> F, inode |-> I, ents |-> E] /\ I \in [Inums -> Inode]
  BY <1>1, DiskIs DEF Sound
<1>3. I[Root].mode = "dir" /\ Root \in Inums
  BY <1>1, RootIs
<1>4. [I EXCEPT ![Root].mode = "dir"] = I
  BY <1>2, <1>3 DEF Inode
<1>5. PICK J : J = [I EXCEPT ![Root].mode = "dir"]
  OBVIOUS
<1>6. [[free |-> F, inode |-> I, ents |-> E] EXCEPT !.inode[Root].mode = "dir"]
        = [free |-> F, inode |-> [I EXCEPT ![Root].mode = "dir"], ents |-> E]
  BY SMT
<1>7. fs' = [fs EXCEPT !.inode[Root].mode = "dir"]
  BY DEF Remount
<1> QED
  BY <1>2, <1>4, <1>6, <1>7, Zenon

LEMMA RemountStep ==
  ASSUME IInv, Remount
  PROVE  IInv'
<1>1. fh' = NoHandle /\ dropped' = dropped
  BY DEF Remount
<1>2. Fine(fs, dropped) /\ dropped \in BOOLEAN
  BY DEF IInv, Fine
<1>3. fs' = fs
  BY RemountSame DEF IInv
<1>4. HandleIs'
  BY <1>1 DEF HandleIs
<1> QED
  BY <1>1, <1>2, <1>3, <1>4 DEF IInv, Fine

\* Whatever calls come, in whatever order, and whether they fail or not: the
\* bitmap, the inodes and the directories fit together (IInv).
THEOREM FileSystemInvariant == Spec => []IInv
<1>1. Init => IInv
  BY InitIs DEF IInv, HandleIs
<1>2. IInv /\ [Next]_vars => IInv'
  <2> SUFFICES ASSUME IInv, [Next]_vars PROVE IInv'
    OBVIOUS
  <2>1. Sound(fs) /\ OneName(fs)
    BY DEF IInv
  <2>2. ASSUME NEW p \in Paths PROVE IsPath(p)
    BY <2>2, PathsAre
  <2>3. ASSUME NEW p \in Paths, Mknod(p) PROVE IInv'
    BY <2>1, <2>2, <2>3, MakeRight, CallStep DEF Mknod
  <2>4. ASSUME NEW p \in Paths, Mkdir(p) PROVE IInv'
    BY <2>1, <2>2, <2>4, MakeRight, CallStep DEF Mkdir
  <2>5. ASSUME NEW p \in Paths, Symlink(p) PROVE IInv'
    BY <2>1, <2>2, <2>5, SymlinkRight, CallStep DEF Symlink
  <2>6. ASSUME NEW p \in Paths, Getattr(p) PROVE IInv'
    BY <2>1, <2>2, <2>6, LookCall, CallStep DEF Getattr
  <2>7. ASSUME NEW p \in Paths, Chmod(p) PROVE IInv'
    BY <2>1, <2>2, <2>7, LookCall, CallStep DEF Chmod
  <2>8. ASSUME NEW p \in Paths, Readlink(p) PROVE IInv'
    BY <2>1, <2>2, <2>8, ReadlinkRight, CallStep DEF Readlink
  <2>9. ASSUME NEW p \in Paths, Unlink(p) PROVE IInv'
    BY <2>1, <2>2, <2>9, UnlinkCall, CallStep DEF Unlink
  <2>10. ASSUME NEW p \in Paths, Rmdir(p) PROVE IInv'
    BY <2>1, <2>2, <2>10, RmdirCall, CallStep DEF Rmdir
  <2>11. ASSUME NEW p \in Paths, NEW q \in Paths, Link(p, q) PROVE IInv'
    BY <2>1, <2>2, <2>11, LinkCall, CallStep DEF Link
  <2>12. CASE UNCHANGED vars
    BY <2>12 DEF vars, IInv, HandleIs
  <2> QED
    BY <2>3, <2>4, <2>5, <2>6, <2>7, <2>8, <2>9, <2>10, <2>11, <2>12,
       RenameStep, HideStep, OpenStep, ReleaseStep, RemountStep DEF Next
<1> QED
  BY <1>1, <1>2, PTL DEF Spec

\* What bitmap, inodes and directories promise each other, from the invariant.
LEMMA BlocksFit ==
  ASSUME NEW f, Sound(f), NEW U, U = UNION {BlocksOf(f, i) : i \in Live(f)}
  PROVE  /\ \A i, j \in Live(f) : i # j => BlocksOf(f, i) \cap BlocksOf(f, j) = {}
         /\ \A i \in Live(f) : BlocksOf(f, i) \cap Live(f) = {}
         /\ f.free = Free \ (Live(f) \cup U) /\ U \subseteq Free /\ U \cap Live(f) = {}
<1>1. /\ f \in Disks /\ OneUse(f) /\ Partition(f) /\ Shapes(f) /\ Live(f) \subseteq Inums /\ f.free \subseteq Free
      /\ \A i \in Inums : \A n \in 0..MaxBlocks-1 : f.inode[i].blk[n] \in Free \cup {0}
  BY DiskIs, InodeIs DEF Sound
<1>2. ASSUME NEW i \in Inums, NEW b
      PROVE  b \in BlocksOf(f, i) <=> b # 0 /\ \E n \in 0..MaxBlocks-1 : f.inode[i].blk[n] = b
  BY DEF BlocksOf
<1>3. ASSUME NEW i \in Inums, NEW j \in Inums, NEW b, b \in BlocksOf(f, i), b \in BlocksOf(f, j)
      PROVE  i = j
  BY <1>1, <1>2, <1>3 DEF OneUse
<1>4. ASSUME NEW i \in Inums, NEW b \in BlocksOf(f, i)
      PROVE  b \in Free /\ b \notin f.free /\ b \notin Live(f) /\ i \in Live(f)
  <2>1. PICK n \in 0..MaxBlocks-1 : f.inode[i].blk[n] = b
    BY <1>2, <1>4
  <2>2. b # 0
    BY <1>2, <1>4
  <2>3. b \in Free
    BY <1>1, <1>4, <2>1, <2>2
  <2>4. b \notin f.free /\ b \notin Live(f)
    BY <1>1, <1>4, <2>1 DEF Partition
  <2>5. i \in Live(f)
    <3> SUFFICES ASSUME i \notin Live(f) PROVE FALSE
      OBVIOUS
    <3>1. f.inode[i] = NoInode
      BY <1>1, <1>4 DEF Shapes
    <3>2. NoInode.blk[n] = 0
      BY DEF NoInode
    <3> QED
      BY <2>1, <2>2, <3>1, <3>2, Zenon
  <2> QED
    BY <2>3, <2>4, <2>5
<1>5. ASSUME NEW b PROVE b \in U <=> \E i \in Inums : b \in BlocksOf(f, i)
  BY <1>1, <1>4
<1>6. f.free = Free \ (Live(f) \cup U)
  <2>1. ASSUME NEW b \in Free, b \notin f.free PROVE b \in Live(f) \cup U
    BY <1>1, <1>5, <2>1 DEF Partition
  <2>2. ASSUME NEW b \in f.free PROVE b \notin Live(f) /\ b \notin U
    BY <1>1, <1>4, <1>5, <2>2 DEF Partition
  <2> QED
    BY <1>1, <2>1, <2>2
<1>7. U \subseteq Free /\ U \cap Live(f) = {}
  BY <1>4, <1>5
<1> QED
  BY <1>1, <1>3, <1>4, <1>6, <1>7

LEMMA ThreeParts ==
  ASSUME NEW S, IsFiniteSet(S), NEW A, NEW B, NEW C,
         S = A \cup B \cup C, A \cap B = {}, (A \cup B) \cap C = {}
  PROVE  Cardinality(A) + Cardinality(B) + Cardinality(C) = Cardinality(S)
<1>1. IsFiniteSet(A) /\ IsFiniteSet(B) /\ IsFiniteSet(C) /\ IsFiniteSet(A \cup B)
  BY FS_Subset
<1>2. /\ Cardinality(A) \in Nat /\ Cardinality(B) \in Nat /\ Cardinality(C) \in Nat
      /\ Cardinality(A \cup B) \in Nat /\ Cardinality({}) = 0
  BY <1>1, FS_CardinalityType, FS_EmptySet
<1>3. Cardinality(A \cup B) = Cardinality(A) + Cardinality(B) - Cardinality(A \cap B)
  BY <1>1, FS_Union
<1>4. PICK D : D = A \cup B
  OBVIOUS
<1>5. Cardinality(D \cup C) = Cardinality(D) + Cardinality(C) - Cardinality(D \cap C)
  BY <1>1, <1>4, FS_Union
<1>6. S = D \cup C /\ D \cap C = {}
  BY <1>4
<1>7. Cardinality(A \cap B) = 0 /\ Cardinality(D \cap C) = 0
  BY <1>2, <1>6, Zenon
<1>8. Cardinality(D) = Cardinality(A) + Cardinality(B)
  BY <1>2, <1>3, <1>4, <1>7
<1>9. Cardinality(S) = Cardinality(D \cup C)
  BY <1>6, Zenon
<1> QED
  BY <1>2, <1>5, <1>7, <1>8, <1>9

LEMMA Accounted ==
  ASSUME IInv
  PROVE  BlocksAccounted
<1>1. Sound(fs) /\ HandleIs /\ dropped \in BOOLEAN
  BY DEF IInv
<1>2. PICK U : U = UNION {BlocksOf(fs, i) : i \in Live(fs)}
  OBVIOUS
<1>3. /\ \A i, j \in Live(fs) : i # j => BlocksOf(fs, i) \cap BlocksOf(fs, j) = {}
      /\ \A i \in Live(fs) : BlocksOf(fs, i) \cap Live(fs) = {}
      /\ fs.free = Free \ (Live(fs) \cup U) /\ U \subseteq Free /\ U \cap Live(fs) = {}
  BY <1>1, <1>2, BlocksFit
<1>4. TypeOK
  <2>1. fs \in Disks /\ fs.ents[0] = EmptyBlk
    BY <1>1 DEF Sound
  <2>2. fh = NoHandle \/ fh.ino \in Inums
    BY <1>1 DEF HandleIs
  <2> QED
    BY <1>1, <2>1, <2>2 DEF TypeOK
<1>5. HolesAreLast
  <2> SUFFICES ASSUME NEW d \in Dirs(fs), NEW n \in 0..fs.inode[d].size-1, fs.inode[d].blk[n] = 0
               PROVE  n = fs.inode[d].size - 1
    BY DEF HolesAreLast
  <2>1. fs.inode[d].size \in 0..MaxBlocks /\ MaxBlocks \in Nat
    BY <1>1, InodeIs, Sizes DEF Sound, Dirs
  <2>2. \A m \in 0..MaxBlocks-1 : m + 1 < fs.inode[d].size => fs.inode[d].blk[m] # 0
    BY <1>1 DEF Sound, Shapes
  <2>3. n \in 0..MaxBlocks-1
    BY <2>1
  <2>4. ~(n + 1 < fs.inode[d].size)
    BY <2>2, <2>3
  <2> QED
    BY <2>1, <2>4
<1>6. fs_statfs(fs) = Cardinality(fs.free)
  <2>1. {b \in 0..Root \cup Free : b \in fs.free} = fs.free
    BY <1>3
  <2>2. {b \in 0..Root \cup Free : block_is_free(fs, b)} = {b \in 0..Root \cup Free : b \in fs.free}
    BY Zenon DEF block_is_free
  <2> QED
    BY <2>1, <2>2, Zenon DEF fs_statfs
<1>7. fs_statfs(fs) + Cardinality(Live(fs) \ {Root}) + Cardinality(U) = Cardinality(Free)
  <2>1. Live(fs) \ {Root} \subseteq Free
    BY Basics DEF Live
  <2>2. PICK A, B : A = fs.free /\ B = Live(fs) \ {Root}
    OBVIOUS
  <2>3. Root \notin Free
    BY Basics
  <2>4. Free = A \cup B \cup U /\ A \cap B = {} /\ (A \cup B) \cap U = {}
    BY <1>3, <2>1, <2>2, <2>3
  <2>5. Cardinality(A) + Cardinality(B) + Cardinality(U) = Cardinality(Free)
    BY <2>4, FreeIs, ThreeParts
  <2> QED
    BY <1>6, <2>2, <2>5
<1> QED
  BY <1>2, <1>3, <1>4, <1>5, <1>7, Zenon DEF BlocksAccounted

\* However the calls go, and when they run out of blocks half way: no block is
\* lost, none is in use twice, and the driver's own count of them is right.
THEOREM NoBlockLost == Spec => []BlocksAccounted
<1>1. IInv => BlocksAccounted
  BY Accounted
<1> QED
  BY <1>1, FileSystemInvariant, PTL

\* An inode never has more names than it counts, so no call frees one that has
\* a name; and it has fewer only after a rename replaced a directory with entries.
THEOREM NamesAreCounted == Spec => []LinksCounted
<1>1. IInv => LinksCounted
  BY DEF IInv, Sound, Links, Exact, LinksCounted
<1> QED
  BY <1>1, FileSystemInvariant, PTL

-----------------------------------------------------------------------------
(* The name space *)

\* The entries of the name space are the steps from a directory by a name.
LEMMA EntriesAre ==
  ASSUME NEW f, Sound(f)
  PROVE  /\ \A d, n, i : <<d, n, i>> \in Entries(f) <=> d \in Dirs(f) /\ Step(f, d, n, i)
         /\ \A z \in Entries(f) : \E d \in Dirs(f) : \E n \in AllNames : \E i \in Live(f) \ {Root} :
              z = <<d, n, i>> /\ Step(f, d, n, i)
<1>1. ASSUME NEW d \in Dirs(f), NEW e PROVE e \in fs_readdir(f, d) <=> e # NoEnt /\ \E t \in Places(f, d) : Ent(f, t) = e
  BY ReaddirIs
<1>2. ASSUME NEW d, NEW n, NEW i, d \in Dirs(f), Step(f, d, n, i) PROVE <<d, n, i>> \in Entries(f)
  <2>1. PICK t \in Places(f, d) : Holds(f, t, n, i)
    BY <1>2 DEF Step
  <2>2. PICK e : e = [name |-> n, inum |-> i]
    OBVIOUS
  <2>3. n \in AllNames
    BY <1>2 DEF Step
  <2>4. Ent(f, t) = e /\ e # NoEnt
    BY <2>1, <2>2, <2>3, HoldsName, Zenon DEF Holds
  <2>5. e \in fs_readdir(f, d)
    BY <1>1, <1>2, <2>4
  <2>6. <<d, n, i>> = <<d, e.name, e.inum>>
    BY <2>2
  <2>7. <<d, e.name, e.inum>> \in {<<d, x.name, x.inum>> : x \in fs_readdir(f, d)}
    BY <2>5, Zenon
  <2>8. <<d, e.name, e.inum>> \in Entries(f)
    BY <1>2, <2>7, Zenon DEF Entries
  <2> QED
    BY <2>6, <2>8
<1>3. ASSUME NEW z \in Entries(f)
      PROVE  \E d \in Dirs(f) : \E n \in AllNames : \E i \in Live(f) \ {Root} : z = <<d, n, i>> /\ Step(f, d, n, i)
  <2>1. PICK d \in Dirs(f) : z \in {<<d, x.name, x.inum>> : x \in fs_readdir(f, d)}
    BY <1>3, Zenon DEF Entries
  <2>2. PICK e \in fs_readdir(f, d) : z = <<d, e.name, e.inum>>
    BY <2>1, Zenon
  <2>3. PICK t \in Places(f, d) : Ent(f, t) = e /\ e # NoEnt
    BY <1>1, <2>2
  <2>4. PICK n, i : n = e.name /\ i = e.inum
    OBVIOUS
  <2>5. i \in Live(f) \ {Root} /\ n \in AllNames /\ e = [name |-> n, inum |-> i]
    <3>1. Ent(f, t) # NoEnt
      BY <2>3
    <3>2. /\ Ent(f, t).inum \in Live(f) \ {Root} /\ Ent(f, t).name \in AllNames
          /\ Ent(f, t) = [name |-> Ent(f, t).name, inum |-> Ent(f, t).inum]
      BY <3>1, EntLeads
    <3> QED
      BY <2>3, <2>4, <3>2, Zenon
  <2>6. Step(f, d, n, i)
    BY <2>3, <2>5 DEF Step, Holds
  <2>7. z = <<d, n, i>>
    BY <2>2, <2>4
  <2> QED
    BY <2>5, <2>6, <2>7
<1>4. ASSUME NEW d, NEW n, NEW i, <<d, n, i>> \in Entries(f) PROVE d \in Dirs(f) /\ Step(f, d, n, i)
  <2>1. PICK c \in Dirs(f), m \in AllNames, j \in Live(f) \ {Root} : <<d, n, i>> = <<c, m, j>> /\ Step(f, c, m, j)
    BY <1>3, <1>4
  <2>2. d = c /\ n = m /\ i = j
    BY <2>1
  <2> QED
    BY <2>1, <2>2
<1> QED
  BY <1>2, <1>3, <1>4

\* Disks with the same steps have the same name space.
LEMMA EntriesSame ==
  ASSUME NEW f, NEW g, Sound(f), Sound(g), Dirs(g) = Dirs(f),
         \A d \in Dirs(f) : \A n, i : Step(g, d, n, i) <=> Step(f, d, n, i)
  PROVE  Entries(g) = Entries(f)
<1>1. ASSUME NEW z \in Entries(f) PROVE z \in Entries(g)
  <2>1. PICK d \in Dirs(f), n \in AllNames, i \in Live(f) \ {Root} : z = <<d, n, i>> /\ Step(f, d, n, i)
    BY EntriesAre
  <2> QED
    BY <2>1, EntriesAre
<1>2. ASSUME NEW z \in Entries(g) PROVE z \in Entries(f)
  <2>1. PICK d \in Dirs(g), n \in AllNames, i \in Live(g) \ {Root} : z = <<d, n, i>> /\ Step(g, d, n, i)
    BY EntriesAre
  <2> QED
    BY <2>1, EntriesAre
<1> QED
  BY <1>1, <1>2

LEMMA SameSteps ==
  ASSUME NEW f, NEW g, SameNames(f, g), NEW d \in Inums, NEW n, NEW i
  PROVE  Step(g, d, n, i) <=> Step(f, d, n, i)
<1>1. /\ Places(f, d) \subseteq Places(g, d) /\ \A s \in Places(f, d) : Ent(g, s) = Ent(f, s)
      /\ \A s \in Places(g, d) \ Places(f, d) : Ent(g, s) = NoEnt
  BY DEF SameNames
<1>2. ASSUME Step(f, d, n, i) PROVE Step(g, d, n, i)
  BY <1>1, <1>2 DEF Step, Holds
<1>3. ASSUME Step(g, d, n, i) PROVE Step(f, d, n, i)
  <2>1. PICK t \in Places(g, d) : Holds(g, t, n, i) /\ n \in AllNames
    BY <1>3 DEF Step
  <2>2. Ent(g, t) # NoEnt
    BY <2>1, HoldsName
  <2>3. t \in Places(f, d) /\ Ent(g, t) = Ent(f, t)
    BY <1>1, <2>2
  <2> QED
    BY <2>1, <2>3 DEF Step, Holds
<1> QED
  BY <1>2, <1>3

LEMMA SameEntries ==
  ASSUME NEW f, NEW g, Sound(f), Sound(g), SameNames(f, g)
  PROVE  Entries(g) = Entries(f) /\ Dirs(g) = Dirs(f)
<1>1. Dirs(g) = Dirs(f) /\ \A d \in Dirs(f) : d \in Inums
  BY SameDirs DEF Dirs
<1>2. \A d \in Dirs(f) : \A n, i : Step(g, d, n, i) <=> Step(f, d, n, i)
  BY <1>1, SameSteps
<1> QED
  BY <1>1, <1>2, EntriesSame

\* A step more.
LEMMA NamedSteps ==
  ASSUME NEW h, NEW g, NEW d, NEW s, NEW i, NEW name, Sound(h), Named(h, g, d, s, i, name),
         NEW c \in Inums, NEW n, NEW k
  PROVE  Step(g, c, n, k) <=> Step(h, c, n, k) \/ (c = d /\ n = name /\ k = i)
<1>1. /\ d \in Dirs(h) /\ d \in Inums /\ s \in Places(h, d) /\ Ent(h, s) = NoEnt /\ name \in AllNames
      /\ Places(g, c) = Places(h, c) /\ \A t \in Places(h, c) : t # s => Ent(g, t) = Ent(h, t)
      /\ Holds(g, s, name, i) /\ Places(g, d) = Places(h, d)
  BY DEF Named, Dirs
<1>2. ASSUME Step(h, c, n, k) PROVE Step(g, c, n, k)
  <2>1. PICK t \in Places(h, c) : Holds(h, t, n, k) /\ n \in AllNames
    BY <1>2 DEF Step
  <2>2. Ent(h, t) # NoEnt
    BY <2>1, HoldsName
  <2> QED
    BY <1>1, <2>1, <2>2 DEF Step, Holds
<1>3. ASSUME c = d /\ n = name /\ k = i PROVE Step(g, c, n, k)
  BY <1>1, <1>3 DEF Step
<1>4. ASSUME Step(g, c, n, k) PROVE Step(h, c, n, k) \/ (c = d /\ n = name /\ k = i)
  <2>1. PICK t \in Places(g, c) : Holds(g, t, n, k) /\ n \in AllNames
    BY <1>4 DEF Step
  <2>2. CASE t = s
    <3>1. c = d
      BY <1>1, <2>1, <2>2, OneDir
    <3>2. n = name /\ k = i
      BY <1>1, <2>1, <2>2, HoldsName
    <3> QED
      BY <3>1, <3>2
  <2>3. CASE t # s
    BY <1>1, <2>1, <2>3 DEF Step, Holds
  <2> QED
    BY <2>2, <2>3
<1> QED
  BY <1>2, <1>3, <1>4

\* What is named is an entry more, and was none before.
LEMMA NamedEntries ==
  ASSUME NEW h, NEW g, NEW d, NEW s, NEW i, NEW name, Sound(h), Named(h, g, d, s, i, name),
         i \in Dirs(g) \ Dirs(h) => Places(h, i) = {}
  PROVE  /\ Entries(g) = Entries(h) \cup {<<d, name, i>>}
         /\ d \in Dirs(h) /\ \A k : <<d, name, k>> \notin Entries(h)
<1>1. Sound(g) /\ d \in Dirs(h) /\ Lacks(h, d, name) /\ Dirs(h) \subseteq Dirs(g) /\ Dirs(g) \subseteq Dirs(h) \cup {i}
  BY DEF Named
<1>2. \A c \in Inums : \A n, k : Step(g, c, n, k) <=> Step(h, c, n, k) \/ (c = d /\ n = name /\ k = i)
  BY NamedSteps
<1>3. \A c \in Dirs(g) : c \in Inums
  BY DEF Dirs
<1>4. ASSUME NEW z \in Entries(g) PROVE z \in Entries(h) \cup {<<d, name, i>>}
  <2>1. PICK c \in Dirs(g), n \in AllNames, k \in Live(g) \ {Root} : z = <<c, n, k>> /\ Step(g, c, n, k)
    BY <1>1, EntriesAre
  <2>2. CASE c = d /\ n = name /\ k = i
    BY <2>1, <2>2
  <2>3. CASE Step(h, c, n, k)
    <3>1. c \in Dirs(h)
      BY <1>1, <2>3 DEF Step
    <3> QED
      BY <2>1, <2>3, <3>1, EntriesAre
  <2> QED
    BY <1>2, <1>3, <2>1, <2>2, <2>3
<1>5. ASSUME NEW z \in Entries(h) PROVE z \in Entries(g)
  <2>1. PICK c \in Dirs(h), n \in AllNames, k \in Live(h) \ {Root} : z = <<c, n, k>> /\ Step(h, c, n, k)
    BY EntriesAre
  <2>2. c \in Dirs(g) /\ c \in Inums
    BY <1>1, <1>3
  <2> QED
    BY <1>1, <1>2, <2>1, <2>2, EntriesAre
<1>6. <<d, name, i>> \in Entries(g)
  BY <1>1, <1>2, <1>3, EntriesAre
<1>7. ASSUME NEW k, <<d, name, k>> \in Entries(h) PROVE FALSE
  <2>1. Step(h, d, name, k)
    BY <1>7, EntriesAre
  <2>2. PICK t \in Places(h, d) : Holds(h, t, name, k) /\ name \in AllNames
    BY <2>1 DEF Step
  <2> QED
    BY <1>1, <2>2, HoldsName DEF Lacks
<1> QED
  BY <1>1, <1>4, <1>5, <1>6, <1>7

\* What is removed is an entry less, and with a directory those in it.
LEMMA TakenSteps ==
  ASSUME NEW f, Sound(f), NEW d \in Dirs(f), NEW s \in Places(f, d), NEW i, NEW name \in AllNames,
         Holds(f, s, name, i), NEW g, Surely(f, g, s, i),
         NEW c \in Inums, c \notin Gone(f, i), NEW n, NEW k
  PROVE  Step(g, c, n, k) <=> Step(f, c, n, k) /\ ~(c = d /\ n = name)
<1>1. d \in Inums /\ Places(g, c) = Places(f, c)
      /\ \A t \in Places(f, c) : Ent(g, t) = IF t = s THEN NoEnt ELSE Ent(f, t)
  BY DEF Surely, Dirs
<1>2. ASSUME Step(f, c, n, k), ~(c = d /\ n = name) PROVE Step(g, c, n, k)
  <2>1. PICK t \in Places(f, c) : Holds(f, t, n, k) /\ n \in AllNames
    BY <1>2 DEF Step
  <2>2. t # s
    <3>1. SUFFICES ASSUME t = s PROVE FALSE
      OBVIOUS
    <3>2. c = d
      BY <1>1, <2>1, <3>1, OneDir
    <3>3. n = name
      <4>1. Ent(f, t).name = n /\ Ent(f, s).name = name
        BY <2>1, HoldsName
      <4> QED
        BY <3>1, <4>1
    <3> QED
      BY <1>2, <3>2, <3>3
  <2>3. Ent(g, t) = Ent(f, t)
    BY <1>1, <2>2
  <2> QED
    BY <1>1, <2>1, <2>3 DEF Step, Holds
<1>3. ASSUME Step(g, c, n, k) PROVE Step(f, c, n, k) /\ ~(c = d /\ n = name)
  <2>1. PICK t \in Places(f, c) : Holds(g, t, n, k) /\ n \in AllNames
    BY <1>1, <1>3 DEF Step
  <2>2. Ent(g, t) # NoEnt
    BY <2>1, HoldsName
  <2>3. t # s /\ Ent(g, t) = Ent(f, t)
    BY <1>1, <2>2
  <2>4. Holds(f, t, n, k)
    BY <2>1, <2>3 DEF Holds
  <2>5. ~(c = d /\ n = name)
    BY <2>1, <2>3, <2>4, SlotIsOne
  <2> QED
    BY <2>1, <2>4, <2>5 DEF Step
<1> QED
  BY <1>2, <1>3

LEMMA TakenEntries ==
  ASSUME NEW f, Sound(f), NEW d \in Dirs(f), NEW s \in Places(f, d), NEW i, NEW name \in AllNames,
         Holds(f, s, name, i), NEW g, Surely(f, g, s, i)
  PROVE  /\ <<d, name, i>> \in Entries(f)
         /\ \A c, n, k : <<c, n, k>> \in Entries(g) <=>
              <<c, n, k>> \in Entries(f) /\ c \notin Gone(f, i) /\ <<c, n, k>> # <<d, name, i>>
         /\ Entries(g) \subseteq Entries(f) /\ Dirs(g) = Dirs(f) \ Gone(f, i)
<1>1. Sound(g) /\ Dirs(g) = Dirs(f) \ Gone(f, i) /\ \A c \in Dirs(f) : c \in Inums
  BY DEF Surely, Dirs
<1>2. Step(f, d, name, i)
  BY DEF Step
<1>3. <<d, name, i>> \in Entries(f)
  BY <1>2, EntriesAre
<1>4. ASSUME NEW c, NEW n, NEW k
      PROVE  <<c, n, k>> \in Entries(g) <=>
               <<c, n, k>> \in Entries(f) /\ c \notin Gone(f, i) /\ <<c, n, k>> # <<d, name, i>>
  <2>1. <<c, n, k>> \in Entries(g) <=> c \in Dirs(g) /\ Step(g, c, n, k)
    BY <1>1, EntriesAre
  <2>2. <<c, n, k>> \in Entries(f) <=> c \in Dirs(f) /\ Step(f, c, n, k)
    BY EntriesAre
  <2>3. CASE c \in Dirs(g)
    <3>1. c \in Dirs(f) /\ c \in Inums /\ c \notin Gone(f, i)
      BY <1>1, <2>3
    <3>2. Step(g, c, n, k) <=> Step(f, c, n, k) /\ ~(c = d /\ n = name)
      BY <3>1, TakenSteps
    <3>3. Step(f, c, n, k) /\ c = d /\ n = name => k = i
      BY <1>2, StepIsOne
    <3> QED
      BY <2>1, <2>2, <2>3, <3>1, <3>2, <3>3
  <2>4. CASE c \notin Dirs(g)
    BY <1>1, <2>1, <2>2, <2>4
  <2> QED
    BY <2>3, <2>4
<1>5. ASSUME NEW z \in Entries(g) PROVE z \in Entries(f)
  <2>1. PICK c \in Dirs(g), n \in AllNames, k \in Live(g) \ {Root} : z = <<c, n, k>> /\ Step(g, c, n, k)
    BY <1>1, EntriesAre
  <2> QED
    BY <1>4, <1>5, <2>1
<1> QED
  BY <1>1, <1>3, <1>4, <1>5

\* A block for what is no directory changes no name.
LEMMA GetEntries ==
  ASSUME NEW f, Sound(f), NEW i \in Live(f), i \notin Dirs(f), NEW g, g = inode_get_block(f, i, 0)
  PROVE  /\ Sound(g.fs) /\ Entries(g.fs) = Entries(f) /\ Dirs(g.fs) = Dirs(f)
         /\ g.r # "ok" => g.fs = f
<1>1. f \in Disks /\ i \in Inums /\ 0 \in 0..MaxBlocks-1
  BY HasBlocks DEF Sound, Live
<1>2. \/ g.fs = f
      \/ g.r = "ok" /\ f.inode[i].blk[0] = 0 /\ g.b \in f.free /\ g.fs = WithBlock(f, i, 0, g.b)
  BY <1>1, GetBlock
<1>3. CASE g.fs = f
  BY <1>3
<1>4. CASE g.r = "ok" /\ f.inode[i].blk[0] = 0 /\ g.b \in f.free /\ g.fs = WithBlock(f, i, 0, g.b)
  <2>1. PICK b, h : b = g.b /\ h = g.fs
    OBVIOUS
  <2>2. b \in f.free /\ h = WithBlock(f, i, 0, b)
    BY <1>4, <2>1
  <2>3. Sound(h) /\ Dirs(h) = Dirs(f)
    BY <1>1, <1>4, <2>2, BlockAdded
  <2>4. /\ \A d \in Inums : \A s : s \in Places(h, d) <=>
              s \in Places(f, d) \/ (d = i /\ s \in Cells /\ s[1] = b)
        /\ \A d \in Inums : \A s \in Places(f, d) : s[1] # b /\ Ent(h, s) = Ent(f, s)
    BY <1>1, <1>4, <2>2, AddedPlaces
  <2>5. ASSUME NEW d \in Dirs(f), NEW n, NEW k PROVE Step(h, d, n, k) <=> Step(f, d, n, k)
    <3>1. d \in Inums /\ d # i
      BY DEF Dirs
    <3>2. Places(h, d) = Places(f, d)
      BY <2>4, <3>1
    <3> QED
      BY <2>4, <3>1, <3>2 DEF Step, Holds
  <2>6. Entries(h) = Entries(f)
    BY <2>3, <2>5, EntriesSame
  <2> QED
    BY <1>4, <2>1, <2>3, <2>6
<1> QED
  BY <1>2, <1>3, <1>4

-----------------------------------------------------------------------------
(* One path to a directory *)

LEMMA DirSlotIsOne ==
  ASSUME NEW f, Sound(f), OneName(f), NEW d \in Dirs(f), d # Root, NEW s \in SlotsOf(f, d), NEW t \in SlotsOf(f, d)
  PROVE  s = t
<1>1. SUFFICES ASSUME s # t PROVE FALSE
  OBVIOUS
<1>2. PICK S : S = SlotsOf(f, d)
  OBVIOUS
<1>3. f \in Disks /\ d \in Inums /\ d \in Live(f) \ {Root} /\ f.inode[d].nlink = 1
  BY DEF Sound, OneName, Dirs, Live
<1>4. Cardinality(S) <= 1
  BY <1>2, <1>3 DEF Sound, Links
<1>5. IsFiniteSet(S) /\ Cardinality(S) \in Nat
  BY <1>2, <1>3, FiniteSlots
<1>6. {s, t} \subseteq S
  BY <1>2
<1>7. Cardinality({s, t}) <= Cardinality(S)
  BY <1>5, <1>6, FS_Subset
<1>8. {s, t} = {s} \cup {t} /\ t \notin {s}
  BY <1>1
<1>9. IsFiniteSet({s}) /\ Cardinality({s}) = 1
  BY FS_Singleton
<1>10. Cardinality({s} \cup {t}) = Cardinality({s}) + 1
  BY <1>8, <1>9, FS_AddElement
<1> QED
  BY <1>4, <1>5, <1>7, <1>8, <1>9, <1>10

\* Where it is, and by what name.
LEMMA DirStepIsOne ==
  ASSUME NEW f, Sound(f), OneName(f), NEW d \in Dirs(f), NEW a \in Dirs(f), NEW b \in Dirs(f), NEW m, NEW n,
         Step(f, a, m, d), Step(f, b, n, d)
  PROVE  a = b /\ m = n /\ d # Root
<1>1. PICK s \in Places(f, a) : Holds(f, s, m, d) /\ m \in AllNames
  BY DEF Step
<1>2. PICK t \in Places(f, b) : Holds(f, t, n, d) /\ n \in AllNames
  BY DEF Step
<1>3. Ent(f, s) # NoEnt /\ Ent(f, s).name = m /\ Ent(f, s).inum = d
  BY <1>1, HoldsName
<1>4. Ent(f, t) # NoEnt /\ Ent(f, t).name = n /\ Ent(f, t).inum = d
  BY <1>2, HoldsName
<1>5. s \in SlotsOf(f, d) /\ d # Root
  BY <1>1, <1>3, EntLeads
<1>6. t \in SlotsOf(f, d)
  BY <1>2, <1>4, EntLeads
<1>7. s = t
  BY <1>5, <1>6, DirSlotIsOne
<1>8. a \in Inums /\ b \in Inums
  BY DEF Dirs
<1>9. a = b
  BY <1>1, <1>2, <1>7, <1>8, OneDir
<1> QED
  BY <1>3, <1>4, <1>5, <1>7, <1>9

\* The beginning of a chain.
LEMMA ChainPart ==
  ASSUME NEW f, NEW p, NEW k \in Nat, NEW c, Chain(f, p, k, c), NEW j \in 0..k
  PROVE  \E e : Chain(f, p, j, e) /\ \A m \in 0..j : e[m] = c[m]
<1>1. PICK e : e = [m \in 0..j |-> c[m]]
  OBVIOUS
<1>2. c \in [0..k -> Inums] /\ c[0] = Root
  BY DEF Chain
<1>3. e \in [0..j -> Inums] /\ \A m \in 0..j : e[m] = c[m]
  BY <1>1, <1>2
<1>4. e[0] = Root
  BY <1>2, <1>3
<1>5. ASSUME NEW m \in 1..j PROVE e[m-1] \in Dirs(f) /\ Step(f, e[m-1], p[m], e[m])
  <2>1. m \in 1..k /\ m - 1 \in 0..j /\ m \in 0..j
    OBVIOUS
  <2>2. c[m-1] \in Dirs(f) /\ Step(f, c[m-1], p[m], c[m])
    BY <2>1, Zenon DEF Chain
  <2> QED
    BY <1>3, <2>1, <2>2
<1> QED
  BY <1>3, <1>4, <1>5 DEF Chain

\* Two paths that lead to a directory are the same.
LEMMA DirPathIsOne ==
  ASSUME NEW f, Sound(f), OneName(f), NEW p, NEW k \in Nat, NEW c, Chain(f, p, k, c),
         NEW q, NEW m \in Nat, NEW d, Chain(f, q, m, d), c[k] = d[m], c[k] \in Dirs(f)
  PROVE  k = m /\ \A j \in 1..k : p[j] = q[j]
<1> DEFINE Same(a, b) == a = b /\ \A j \in 1..a : p[j] = q[j]
           P == {a \in Nat : \A x : \A b \in Nat : \A y :
                   Chain(f, p, a, x) /\ Chain(f, q, b, y) /\ x[a] = y[b] /\ x[a] \in Dirs(f) => Same(a, b)}
<1>1. 0 \in P
  <2>1. SUFFICES ASSUME NEW x, NEW b \in Nat, NEW y, Chain(f, p, 0, x), Chain(f, q, b, y), x[0] = y[b], x[0] \in Dirs(f)
                 PROVE  Same(0, b)
    OBVIOUS
  <2>2. x[0] = Root
    BY <2>1 DEF Chain
  <2>3. CASE b = 0
    BY <2>3
  <2>4. CASE b # 0
    <3>1. PICK a \in Nat : b = a + 1
      BY <2>4
    <3>2. y[a] \in Dirs(f) /\ Step(f, y[a], q[a + 1], y[a + 1])
      BY <2>1, <3>1, ChainBack
    <3>3. Step(f, y[a], q[a + 1], Root) /\ Root \in Dirs(f)
      BY <2>1, <2>2, <3>1, <3>2
    <3> QED
      BY <3>2, <3>3, DirStepIsOne
  <2> QED
    BY <2>3, <2>4
<1>2. ASSUME NEW a \in Nat, a \in P PROVE a + 1 \in P
  <2>1. SUFFICES ASSUME NEW x, NEW b \in Nat, NEW y, Chain(f, p, a + 1, x), Chain(f, q, b, y),
                        x[a + 1] = y[b], x[a + 1] \in Dirs(f)
                 PROVE  Same(a + 1, b)
    OBVIOUS
  <2>2. x[a] \in Dirs(f) /\ Step(f, x[a], p[a + 1], x[a + 1])
    BY <2>1, ChainBack
  <2>3. b # 0
    <3>1. SUFFICES ASSUME b = 0 PROVE FALSE
      OBVIOUS
    <3>2. x[a + 1] = Root
      BY <2>1, <3>1 DEF Chain
    <3> QED
      BY <2>1, <2>2, <3>2, DirStepIsOne
  <2>4. PICK z \in Nat : b = z + 1
    BY <2>3
  <2>5. y[z] \in Dirs(f) /\ Step(f, y[z], q[z + 1], x[a + 1])
    BY <2>1, <2>4, ChainBack
  <2>6. x[a] = y[z] /\ p[a + 1] = q[z + 1]
    BY <2>1, <2>2, <2>5, DirStepIsOne
  <2>7. PICK v : Chain(f, p, a, v) /\ v[a] = x[a]
    <3>1. Chain(f, p, a + 1, x)
      BY <2>1
    <3>2. x[a] \in Dirs(f) /\ Step(f, x[a], p[a + 1], x[a + 1]) /\ \E v : Chain(f, p, a, v) /\ v[a] = x[a]
      BY <3>1, ChainBack
    <3> QED
      BY <3>2
  <2>8. PICK w : Chain(f, q, z, w) /\ w[z] = y[z]
    <3>1. Chain(f, q, z + 1, y)
      BY <2>1, <2>4
    <3>2. y[z] \in Dirs(f) /\ Step(f, y[z], q[z + 1], y[z + 1]) /\ \E w : Chain(f, q, z, w) /\ w[z] = y[z]
      BY <3>1, ChainBack
    <3> QED
      BY <3>2
  <2>9. Same(a, z)
    BY <1>2, <2>2, <2>6, <2>7, <2>8
  <2>10. ASSUME NEW j \in 1..a+1 PROVE p[j] = q[j]
    <3>1. j \in 1..a \/ j = a + 1
      OBVIOUS
    <3> QED
      BY <2>6, <2>9, <3>1
  <2> QED
    BY <2>4, <2>9, <2>10
<1> HIDE DEF P
<1>3. k \in P
  BY <1>1, <1>2, SetInduction
<1> QED
  BY <1>3 DEF P

\* The first k names of q begin with the path p.
StartsWith(q, k, p) == Len(p) <= k /\ \A j \in 1..Len(p) : q[j] = p[j]

LEMMA StartsIs ==
  ASSUME NEW p, IsPath(p), NEW q, IsPath(q), StartsWith(q, Len(q), p)
  PROVE  IsPrefix(p, q)
<1>1. Len(p) \in Nat /\ Len(q) \in Nat /\ Len(p) <= Len(q) /\ \A j \in 1..Len(p) : q[j] = p[j]
  BY PathIs DEF StartsWith
<1>2. p \in Seq(AllNames) /\ q \in Seq(AllNames)
  BY DEF IsPath
<1>3. SubSeq(p, 1, Len(p)) = SubSeq(q, 1, Len(p))
  BY <1>1, <1>2
<1> QED
  BY <1>1, <1>3 DEF IsPrefix

LEMMA ChainLast ==
  ASSUME NEW f, NEW p, NEW k \in Nat, NEW c, Chain(f, p, k + 1, c)
  PROVE  c[k] \in Dirs(f) /\ Step(f, c[k], p[k + 1], c[k + 1])
BY ChainBack

\* What is left when the entry of a path has been removed: all paths that do
\* not begin with it.
LEMMA ChainStays ==
  ASSUME NEW f, Sound(f), OneName(f), NEW p, IsPath(p), NEW s, NEW i, Leads(f, p, s, i),
         NEW g, Surely(f, g, s, i), NEW q, NEW k \in Nat, NEW c, Chain(f, q, k, c), ~StartsWith(q, k, p)
  PROVE  Chain(g, q, k, c) /\ (c[k] \in Dirs(f) => c[k] \in Dirs(g))
<1>1. PICK n \in Nat : n + 1 = Len(p) /\ Last(p) = p[n + 1] /\ Last(p) \in AllNames
  BY LastIs DEF Leads
<1>2. PICK e : /\ Chain(f, p, n + 1, e) /\ e[n + 1] = i
               /\ e[n] \in Dirs(f) /\ s \in Places(f, e[n]) /\ Holds(f, s, Last(p), i)
  <2>1. n = Len(p) - 1
    BY <1>1
  <2>2. \E x : /\ Chain(f, p, Len(p), x) /\ x[Len(p)] = i
               /\ x[Len(p)-1] \in Dirs(f) /\ s \in Places(f, x[Len(p)-1]) /\ Holds(f, s, Last(p), i)
    BY DEF Leads
  <2> QED
    BY <1>1, <2>1, <2>2
<1>3. c \in [0..k -> Inums] /\ Dirs(g) = Dirs(f) \ Gone(f, i) /\ \A x \in Dirs(f) : x \in Inums
  BY DEF Chain, Surely, Dirs
<1>4. ASSUME NEW m \in 0..k, c[m] \in Dirs(f) PROVE c[m] \notin Gone(f, i)
  <2>1. SUFFICES ASSUME c[m] = i PROVE FALSE
    BY DEF Gone
  <2>2. PICK b : Chain(f, q, m, b) /\ \A x \in 0..m : b[x] = c[x]
    BY ChainPart
  <2>3. b[m] = e[n + 1] /\ b[m] \in Dirs(f) /\ m \in Nat /\ n + 1 \in Nat
    BY <1>2, <1>4, <2>1, <2>2
  <2>4. m = n + 1 /\ \A j \in 1..m : q[j] = p[j]
    BY <1>2, <2>2, <2>3, DirPathIsOne
  <2> QED
    BY <1>1, <2>4 DEF StartsWith
<1>5. ASSUME NEW m \in 1..k PROVE c[m-1] \in Dirs(g) /\ Step(g, c[m-1], q[m], c[m])
  <2>1. c[m-1] \in Dirs(f) /\ Step(f, c[m-1], q[m], c[m])
    BY Zenon DEF Chain
  <2>2. m - 1 \in 0..k /\ m - 1 \in Nat
    OBVIOUS
  <2>3. c[m-1] \notin Gone(f, i) /\ c[m-1] \in Inums
    BY <1>3, <1>4, <2>1, <2>2
  <2>4. ASSUME c[m-1] = e[n], q[m] = Last(p) PROVE FALSE
    <3>0. PICK z \in 0..k : z = m - 1
      BY <2>2
    <3>1. PICK b : Chain(f, q, m - 1, b) /\ \A x \in 0..m-1 : b[x] = c[x]
      <4>1. \E b : Chain(f, q, z, b) /\ \A x \in 0..z : b[x] = c[x]
        BY ChainPart
      <4> QED
        BY <3>0, <4>1
    <3>2. PICK a : Chain(f, p, n, a) /\ \A x \in 0..n : a[x] = e[x]
      <4>1. n \in 0..n+1 /\ n + 1 \in Nat /\ Chain(f, p, n + 1, e)
        BY <1>2
      <4> QED
        BY <4>1, ChainPart
    <3>3. b[m-1] = a[n] /\ b[m-1] \in Dirs(f)
      BY <2>1, <2>2, <2>4, <3>1, <3>2
    <3>4. m - 1 = n /\ \A j \in 1..m-1 : q[j] = p[j]
      BY <2>2, <3>1, <3>2, <3>3, DirPathIsOne
    <3>5. \A j \in 1..n+1 : q[j] = p[j]
      BY <1>1, <2>4, <3>4
    <3> QED
      BY <1>1, <3>4, <3>5 DEF StartsWith
  <2>5. Step(g, c[m-1], q[m], c[m])
    BY <1>1, <1>2, <2>1, <2>3, <2>4, TakenSteps
  <2> QED
    BY <1>3, <2>1, <2>3, <2>5
<1>6. c[0] = Root
  BY DEF Chain
<1>7. c[k] \in Dirs(f) => c[k] \in Dirs(g)
  BY <1>3, <1>4
<1> QED
  BY <1>3, <1>5, <1>6, <1>7 DEF Chain

\* No path is new.
LEMMA ChainWas ==
  ASSUME NEW f, Sound(f), NEW p, NEW s, NEW i, Leads(f, p, s, i),
         NEW g, Surely(f, g, s, i), NEW q, NEW k \in Nat, NEW c, Chain(g, q, k, c)
  PROVE  Chain(f, q, k, c)
<1>1. PICK d \in Dirs(f) : s \in Places(f, d) /\ Holds(f, s, Last(p), i)
  BY LeadsIs
<1>2. Last(p) \in AllNames /\ Dirs(g) = Dirs(f) \ Gone(f, i) /\ \A x \in Dirs(f) : x \in Inums
  BY DEF Leads, Surely, Dirs
<1>3. ASSUME NEW m \in 1..k PROVE c[m-1] \in Dirs(f) /\ Step(f, c[m-1], q[m], c[m])
  <2>1. c[m-1] \in Dirs(g) /\ Step(g, c[m-1], q[m], c[m])
    BY Zenon DEF Chain
  <2>2. c[m-1] \in Dirs(f) /\ c[m-1] \notin Gone(f, i) /\ c[m-1] \in Inums
    BY <1>2, <2>1
  <2> QED
    BY <1>1, <1>2, <2>1, <2>2, TakenSteps
<1> QED
  BY <1>3 DEF Chain

\* The place that was freed is there for a new entry.
LEMMA PlaceFreed ==
  ASSUME NEW f, Sound(f), OneName(f), NEW p, IsPath(p), NEW s, NEW i, Leads(f, p, s, i), NEW g, Surely(f, g, s, i)
  PROVE  /\ ~Blocked(g, p) /\ \A c : ~Chain(g, p, Len(p), c)
         /\ \E d \in Dirs(f) : /\ s \in Places(f, d) /\ Holds(f, s, Last(p), i)
                               /\ \E c : Chain(f, p, Len(p) - 1, c) /\ c[Len(p)-1] = d
<1>1. PICK n \in Nat : n + 1 = Len(p) /\ n = Len(p) - 1 /\ Last(p) = p[n + 1] /\ Last(p) \in AllNames
  BY LastIs DEF Leads
<1>2. PICK e : /\ Chain(f, p, n + 1, e) /\ e[n + 1] = i
               /\ e[n] \in Dirs(f) /\ s \in Places(f, e[n]) /\ Holds(f, s, Last(p), i)
  <2>1. \E x : /\ Chain(f, p, Len(p), x) /\ x[Len(p)] = i
               /\ x[Len(p)-1] \in Dirs(f) /\ s \in Places(f, x[Len(p)-1]) /\ Holds(f, s, Last(p), i)
    BY DEF Leads
  <2> QED
    BY <1>1, <2>1
<1>3. PICK d : d = e[n]
  OBVIOUS
<1>4. PICK c : Chain(f, p, n, c) /\ c[n] = d
  <2>1. n \in 0..n+1 /\ n + 1 \in Nat /\ Chain(f, p, n + 1, e)
    BY <1>2
  <2>2. PICK b : Chain(f, p, n, b) /\ \A m \in 0..n : b[m] = e[m]
    BY <2>1, ChainPart
  <2> QED
    BY <1>3, <2>2
<1>5. Chain(g, p, n, c) /\ c[n] \in Dirs(g) /\ d \in Inums
  <2>1. ~StartsWith(p, n, p)
    BY <1>1 DEF StartsWith
  <2> QED
    BY <1>2, <1>3, <1>4, <2>1, ChainStays DEF Dirs
<1>6. d \notin Gone(f, i) /\ Places(g, d) = Places(f, d) /\ Ent(g, s) = NoEnt
  <2>1. d \notin Gone(f, i)
    BY <1>4, <1>5 DEF Surely
  <2> QED
    BY <1>2, <1>3, <1>5, <2>1 DEF Surely
<1>7. ~Blocked(g, p)
  <2>1. s \in Places(g, d) /\ ~Full(g, d)
    BY <1>2, <1>3, <1>6 DEF Full
  <2> QED
    BY <1>1, <1>4, <1>5, <2>1 DEF Blocked
<1>8. ASSUME NEW b, Chain(g, p, Len(p), b) PROVE FALSE
  <2>1. Chain(g, p, n + 1, b)
    BY <1>1, <1>8
  <2>2. Chain(f, p, n + 1, b)
    BY <2>1, ChainWas
  <2>3. \A m \in 0..n+1 : b[m] = e[m]
    BY <1>2, <2>2, ChainIsOne
  <2>4. b[n] = d /\ Step(g, b[n], p[n + 1], b[n + 1])
    <3>1. b[n] \in Dirs(g) /\ Step(g, b[n], p[n + 1], b[n + 1])
      BY <2>1, ChainLast
    <3> QED
      BY <1>3, <2>3, <3>1
  <2> QED
    BY <1>1, <1>2, <1>3, <1>5, <1>6, <2>4, TakenSteps
<1> QED
  BY <1>1, <1>2, <1>3, <1>4, <1>7, <1>8

\* A link that finds its name taken has found what it links.
LEMMA ClashLeads ==
  ASSUME NEW f, Sound(f), NEW src, IsPath(src), src # <<>>, NEW dst,
         NEW x, x = inode_link(f, src, dst), x.r = "EEXIST"
  PROVE  \E t, k : Leads(f, src, t, k)
<1>1. PICK o : o = walk_path(f, src)
  OBVIOUS
<1>2. /\ o.r \in {"ok", "ENOENT", "ENOSPC"}
      /\ o.r = "ok" => Leads(f, src, o.slot, o.ino)
  BY <1>1, WalkIs
<1>3. CASE o.r # "ok"
  <2>1. x = o
    BY <1>1, <1>3, Zenon DEF inode_link, inode_open
  <2> QED
    BY <1>2, <2>1
<1> QED
  BY <1>2, <1>3

\* Why an unlink leaves no block free, if none was.
LEMMA WithoutFree ==
  ASSUME NEW f, Sound(f), NEW p, NEW s, NEW i, Leads(f, p, s, i), NEW g, g = Without(f, s, i), g.free = {}
  PROVE  i \notin Gone(f, i) /\ f.free = {} /\ (Hole(g) => Hole(f))
<1>1. i \in Inums /\ i \in Live(f) \ {Root} /\ s \in SlotsOf(f, i) /\ \E d \in Dirs(f) : s \in Places(f, d)
  BY LeadsIs
<1>2. PICK nl, h : nl = LessOne(f, i) /\ h = Put(f, i, nl, s, NoEnt)
  OBVIOUS
<1>3. f \in Disks /\ s \in Cells /\ nl \in Nat
  <2>1. f \in Disks
    BY DEF Sound
  <2>2. s \in Cells
    BY <1>1, <2>1, FiniteSlots
  <2>3. PICK d \in Dirs(f) : s \in Places(f, d)
    BY <1>1
  <2>4. LessOne(f, i) \in Nat
    BY <1>1, <2>3, WithoutIs
  <2> QED
    BY <1>2, <2>1, <2>2, <2>4
<1>4. CASE nl = 0
  <2>1. g = inode_free(h, i)
    BY <1>2, <1>4, Zenon DEF Without
  <2>2. i \in g.free
    BY <2>1 DEF inode_free
  <2> QED
    BY <2>2
<1>5. CASE nl # 0
  <2>1. g = h
    BY <1>2, <1>5, Zenon DEF Without
  <2>2. /\ g.free = f.free
        /\ \A k \in Inums : /\ g.inode[k].mode = f.inode[k].mode /\ g.inode[k].size = f.inode[k].size
                            /\ g.inode[k].blk = f.inode[k].blk
    <3>1. PICK e \in Entry : e = NoEnt
      BY Types
    <3>2. g = Put(f, i, nl, s, e)
      BY <1>2, <2>1, <3>1
    <3> QED
      BY <1>1, <1>3, <3>2, PutIs
  <2>3. Dirs(g) = Dirs(f)
    BY <2>2 DEF Dirs
  <2>4. ASSUME Hole(g) PROVE Hole(f)
    <3>1. PICK d \in Dirs(f) : g.inode[d].size > 0 /\ g.inode[d].blk[g.inode[d].size-1] = 0
      BY <2>3, <2>4 DEF Hole
    <3>2. d \in Inums
      BY DEF Dirs
    <3>3. f.inode[d].size > 0 /\ f.inode[d].blk[f.inode[d].size-1] = 0
      BY <2>2, <3>1, <3>2
    <3> QED
      BY <3>3 DEF Hole
  <2> QED
    BY <1>2, <1>5, <2>2, <2>4 DEF Gone
<1> QED
  BY <1>4, <1>5

\* Once the entry of a path has been removed, another inode gets its name,
\* unless there is no block to look for the path.
LEMMA MoveFails ==
  ASSUME NEW f, Sound(f), OneName(f), NEW src, IsPath(src), src # <<>>, NEW dst, IsPath(dst), dst # <<>>,
         ~IsPrefix(dst, src), NEW t, NEW k, Leads(f, src, t, k), NEW s, NEW i, Leads(f, dst, s, i),
         NEW g, g = Without(f, s, i), Surely(f, g, s, i), OneName(g),
         NEW x, x = Moves(g, src, dst), x.r # "ok"
  PROVE  /\ i \notin Dirs(f) /\ f.free = {} /\ Hole(f)
         /\ Sound(x.fs) /\ SameNames(g, x.fs)
<1>1. Sound(g)
  BY DEF Surely
<1>2. Sound(x.fs) /\ SameNames(g, x.fs) /\ x = inode_link(g, src, dst)
  BY <1>1, MoveIs
<1>3. x.r # "EEXIST"
  <2>1. SUFFICES ASSUME x.r = "EEXIST" PROVE FALSE
    OBVIOUS
  <2>2. PICK w : w = walk_path(g, dst)
    OBVIOUS
  <2>3. Leads(g, dst, w.slot, w.ino)
    BY <1>1, <1>2, <2>1, <2>2, LinkClash
  <2> QED
    BY <2>3, PlaceFreed DEF Leads
<1>4. \E c : Chain(g, src, Len(src), c)
  <2>1. PICK c : Chain(f, src, Len(src), c)
    BY DEF Leads
  <2>2. ~StartsWith(src, Len(src), dst) /\ Len(src) \in Nat
    BY StartsIs, PathIs
  <2> QED
    BY <2>1, <2>2, ChainStays
<1>5. g.free = {} /\ Hole(g)
  BY <1>1, <1>2, <1>3, <1>4, LinkFails, PlaceFreed
<1>6. i \notin Gone(f, i) /\ f.free = {} /\ Hole(f)
  BY <1>5, WithoutFree
<1>7. i \notin Dirs(f)
  <2>1. SUFFICES ASSUME i \in Dirs(f) PROVE FALSE
    OBVIOUS
  <2>2. i # Root
    BY LeadsIs
  <2>3. f.inode[i].nlink = 1
    BY <2>1, <2>2 DEF OneName
  <2> QED
    BY <1>6, <2>3 DEF Gone, LessOne
<1> QED
  BY <1>2, <1>6, <1>7

-----------------------------------------------------------------------------
(* What a call does to the name space *)

Kept(f, g) == Entries(g) = Entries(f) /\ Dirs(g) = Dirs(f)

Unnamed(f, d, n) == \A k : <<d, n, k>> \notin Entries(f)

Created(f, g, d, n, i) ==
  /\ d \in Dirs(f) /\ Unnamed(f, d, n)
  /\ i \notin Dirs(f) /\ \A a, b : <<a, b, i>> \notin Entries(f)
  /\ Entries(g) = Entries(f) \cup {<<d, n, i>>}
  /\ Dirs(g) = Dirs(f) \/ Dirs(g) = Dirs(f) \cup {i}

Linked(f, g, d, n, i) ==
  /\ d \in Dirs(f) /\ Unnamed(f, d, n)
  /\ i \notin Dirs(f) /\ \E a, b : <<a, b, i>> \in Entries(f)
  /\ Entries(g) = Entries(f) \cup {<<d, n, i>>} /\ Dirs(g) = Dirs(f)

Removed(f, g, d, n, i) ==
  /\ <<d, n, i>> \in Entries(f) /\ \A b, k : <<i, b, k>> \notin Entries(f)
  /\ Entries(g) = Entries(f) \ {<<d, n, i>>} /\ Dirs(g) = Dirs(f) \ {i}

\* The directories a name is of.
Replaced(f, d, n) == {k \in Dirs(f) : <<d, n, k>> \in Entries(f)}

\* What is left when a name, and what the directories R hold, is gone, and the
\* entry <<c, m, i>> has become <<d, n, i>>.
AfterMove(E, R, c, m, d, n, i, z) ==
  \/ z = <<d, n, i>>
  \/ z \in E /\ z # <<c, m, i>> /\ ~(z[1] = d /\ z[2] = n) /\ z[1] \notin R

\* The directory d hangs from the root by a path that does not go through i.
Clear(f, d, i) ==
  \A S \in SUBSET Inums :
    Root \in S /\ (\A z \in Entries(f) : z[1] \in S /\ z[3] # i => z[3] \in S) => d \in S

Renamed(f, g, c, m, d, n, i) ==
  /\ <<c, m, i>> \in Entries(f) /\ <<d, n, i>> \notin Entries(f)
  /\ d \in Dirs(f) \ Replaced(f, d, n)
  /\ \A z : z \in Entries(g) <=> AfterMove(Entries(f), Replaced(f, d, n), c, m, d, n, i, z)
  /\ Dirs(g) = Dirs(f) \ Replaced(f, d, n)
  /\ Clear(f, d, i)

Promised(f, g) ==
  \/ Kept(f, g)
  \/ \E d, n, i : \/ Created(f, g, d, n, i) \/ Linked(f, g, d, n, i) \/ Removed(f, g, d, n, i)
                  \/ \E c, m : Renamed(f, g, c, m, d, n, i)

\* A call keeps the promise, and changes nothing if it fails.
Does(f, x) == Promised(f, x.fs) /\ (x.r # "ok" => Kept(f, x.fs))

LEMMA KeptDoes ==
  ASSUME NEW f, NEW x, Kept(f, x.fs)
  PROVE  Does(f, x)
BY Zenon DEF Does, Promised

LEMMA EntriesInDirs ==
  ASSUME NEW f, Sound(f), NEW d, NEW n, NEW i, <<d, n, i>> \in Entries(f)
  PROVE  d \in Dirs(f) /\ n \in AllNames /\ i \in Live(f) \ {Root} /\ Step(f, d, n, i)
<1>1. PICK c \in Dirs(f), m \in AllNames, j \in Live(f) \ {Root} : <<d, n, i>> = <<c, m, j>> /\ Step(f, c, m, j)
  BY EntriesAre
<1>2. d = c /\ n = m /\ i = j
  BY <1>1
<1> QED
  BY <1>1, <1>2

\* The path to which a name is moved does not go through what is moved, unless
\* the old path is at its beginning.
LEMMA ChainClear ==
  ASSUME NEW f, Sound(f), OneName(f), NEW p, IsPath(p), NEW t, NEW i, Leads(f, p, t, i),
         NEW q, NEW k \in Nat, NEW c, Chain(f, q, k, c), ~StartsWith(q, k, p), c[k] \in Dirs(f)
  PROVE  Clear(f, c[k], i)
<1>1. ASSUME NEW j \in 0..k, c[j] = i PROVE FALSE
  <2>1. i \in Dirs(f)
    <3>1. j = k \/ j + 1 \in 1..k
      OBVIOUS
    <3>2. j + 1 \in 1..k => c[j] \in Dirs(f)
      <4> SUFFICES ASSUME j + 1 \in 1..k PROVE c[j] \in Dirs(f)
        OBVIOUS
      <4>1. (j + 1) - 1 = j
        OBVIOUS
      <4>2. c[(j + 1) - 1] \in Dirs(f)
        BY Zenon DEF Chain
      <4> QED
        BY <4>1, <4>2
    <3> QED
      BY <1>1, <3>1, <3>2
  <2>2. PICK e : Chain(f, q, j, e) /\ \A m \in 0..j : e[m] = c[m]
    <3>1. k \in Nat /\ Chain(f, q, k, c) /\ j \in 0..k
      OBVIOUS
    <3> QED
      BY <3>1, ChainPart
  <2>3. PICK n \in Nat : n = Len(p)
    BY PathIs
  <2>4. PICK a : Chain(f, p, n, a) /\ a[n] = i
    BY <2>3 DEF Leads
  <2>5. j \in Nat /\ e[j] = a[n] /\ a[n] \in Dirs(f)
    BY <1>1, <2>1, <2>2, <2>4
  <2>7. n = j /\ \A m \in 1..n : p[m] = q[m]
    <3>1. Chain(f, p, n, a) /\ Chain(f, q, j, e) /\ a[n] = e[j] /\ a[n] \in Dirs(f) /\ n \in Nat /\ j \in Nat
      BY <2>2, <2>4, <2>5
    <3> QED
      BY <3>1, DirPathIsOne
  <2>6. StartsWith(q, k, p)
    BY <2>3, <2>7 DEF StartsWith
  <2> QED
    BY <2>6
<1> SUFFICES ASSUME NEW S \in SUBSET Inums, Root \in S,
                    \A z \in Entries(f) : z[1] \in S /\ z[3] # i => z[3] \in S
             PROVE  c[k] \in S
  BY DEF Clear
<1> DEFINE P == {j \in Nat : j <= k => c[j] \in S}
<1>2. 0 \in P
  BY DEF Chain
<1>3. ASSUME NEW j \in Nat, j \in P PROVE j + 1 \in P
  <2> SUFFICES ASSUME j + 1 <= k PROVE c[j + 1] \in S
    OBVIOUS
  <2>1. c[j] \in S /\ j + 1 \in 1..k /\ (j + 1) - 1 = j /\ j + 1 \in 0..k
    BY <1>3
  <2>2. c[(j + 1) - 1] \in Dirs(f) /\ Step(f, c[(j + 1) - 1], q[j + 1], c[j + 1])
    BY <2>1, Zenon DEF Chain
  <2>3. PICK z : z = <<c[j], q[j + 1], c[j + 1]>>
    OBVIOUS
  <2>4. z \in Entries(f) /\ z[1] = c[j] /\ z[3] = c[j + 1]
    BY <2>1, <2>2, <2>3, EntriesAre
  <2>5. c[j + 1] # i
    BY <1>1, <2>1
  <2> QED
    BY <2>1, <2>4, <2>5
<1> HIDE DEF P
<1>4. k \in P
  BY <1>2, <1>3, SetInduction
<1> QED
  BY <1>4 DEF P
LEMMA EntriesAreTriples ==
  ASSUME NEW f, Sound(f), NEW z \in Entries(f)
  PROVE  \E d, n, i : z = <<d, n, i>>
BY EntriesAre

\* What makes an inode makes one name for it.
LEMMA CreateNames ==
  ASSUME NEW f, Sound(f), NEW p, IsPath(p), NEW mode, NEW size,
         FreshInode(Made(mode, size)), Made(mode, size).nlink = 1,
         NEW x, x = inode_create(f, p, mode, size)
  PROVE  /\ x.r # "ok" => Kept(f, x.fs)
         /\ x.r = "ok" => \E d : /\ Created(f, x.fs, d, Last(p), x.ino)
                                 /\ mode # "dir" => Dirs(x.fs) = Dirs(f)
<1>1. CASE x.r # "ok" /\ Sound(x.fs) /\ SameNames(f, x.fs)
  <2>1. Kept(f, x.fs)
    BY <1>1, SameEntries DEF Kept
  <2> QED
    BY <1>1, <2>1
<1>2. CASE /\ \E h, d, s, g : /\ Sound(h) /\ SameNames(f, h) /\ Misses(f, p, d, g)
                              /\ Named(h, x.fs, d, s, x.ino, Last(p)) /\ x.ino \notin Live(h)
                              /\ SlotsOf(h, x.ino) = {} /\ Places(h, x.ino) = {}
           /\ x.fs.inode[x.ino] = Made(mode, size) /\ x.r = "ok"
  <2>1. PICK y, i, n : y = x.fs /\ i = x.ino /\ n = Last(p)
    OBVIOUS
  <2>2. PICK h, d, s : /\ Sound(h) /\ SameNames(f, h)
                       /\ Named(h, y, d, s, i, n) /\ i \notin Live(h) /\ Places(h, i) = {}
    BY <1>2, <2>1
  <2>3. Entries(h) = Entries(f) /\ Dirs(h) = Dirs(f) /\ Live(h) = Live(f)
    BY <2>2, SameEntries, SameDirs
  <2>4. Entries(y) = Entries(h) \cup {<<d, n, i>>} /\ d \in Dirs(h) /\ \A k : <<d, n, k>> \notin Entries(h)
    BY <2>2, NamedEntries
  <2>5. i \notin Dirs(f) /\ Dirs(f) \subseteq Dirs(y) /\ Dirs(y) \subseteq Dirs(f) \cup {i} /\ i \in Inums
    <3>1. i \notin Dirs(h)
      BY <2>2 DEF Dirs, Live
    <3> QED
      BY <2>2, <2>3, <3>1 DEF Named
  <2>6. Dirs(y) = Dirs(f) \/ Dirs(y) = Dirs(f) \cup {i}
    BY <2>5
  <2>7. \A a, b : <<a, b, i>> \notin Entries(f)
    BY <2>2, <2>3, EntriesInDirs
  <2>8. Unnamed(f, d, n)
    BY <2>3, <2>4 DEF Unnamed
  <2>9. Created(f, y, d, n, i)
    BY <2>3, <2>4, <2>5, <2>6, <2>7, <2>8, Zenon DEF Created
  <2>10. ASSUME mode # "dir" PROVE Dirs(y) = Dirs(f)
    <3>1. y.inode[i].mode = mode
      <4>1. y.inode[i] = Made(mode, size)
        BY <1>2, <2>1
      <4> QED
        BY <4>1, MadeFields
    <3>2. i \notin Dirs(y)
      BY <2>10, <3>1 DEF Dirs
    <3> QED
      BY <2>6, <3>2
  <2> QED
    BY <1>2, <2>1, <2>9, <2>10
<1> QED
  BY <1>1, <1>2, CreateIs

LEMMA CreatedDoes ==
  ASSUME NEW f, NEW x, x.r # "ok" => Kept(f, x.fs),
         x.r = "ok" => \E d, n, i : Created(f, x.fs, d, n, i)
  PROVE  Does(f, x)
<1>1. CASE x.r # "ok"
  BY <1>1, KeptDoes
<1>2. CASE x.r = "ok"
  <2>1. Promised(f, x.fs)
    BY <1>2, Zenon DEF Promised
  <2> QED
    BY <1>2, <2>1, Zenon DEF Does
<1> QED
  BY <1>1, <1>2

LEMMA MakeDoes ==
  ASSUME NEW f, Sound(f), NEW p, IsPath(p)
  PROVE  Does(f, fs_mknod(f, p)) /\ Does(f, fs_mkdir(f, p))
<1>1. FreshInode(Made("file", 0)) /\ Made("file", 0).nlink = 1
  BY MadeFresh
<1>2. FreshInode(Made("dir", 0)) /\ Made("dir", 0).nlink = 1
  BY MadeFresh
<1>3. PICK x, y : x = inode_create(f, p, "file", 0) /\ y = inode_create(f, p, "dir", 0)
  OBVIOUS
<1>4. Does(f, x)
  <2>1. (x.r # "ok" => Kept(f, x.fs)) /\ (x.r = "ok" => \E d : Created(f, x.fs, d, Last(p), x.ino))
    BY <1>1, <1>3, CreateNames
  <2> QED
    BY <2>1, CreatedDoes
<1>5. Does(f, y)
  <2>1. (y.r # "ok" => Kept(f, y.fs)) /\ (y.r = "ok" => \E d : Created(f, y.fs, d, Last(p), y.ino))
    BY <1>2, <1>3, CreateNames
  <2> QED
    BY <2>1, CreatedDoes
<1> QED
  BY <1>3, <1>4, <1>5, Zenon DEF fs_mknod, fs_mkdir

\* The entry <<d, n, j>> is gone, and what is in j if that is a directory.
Taken(f, g, d, n, j) ==
  /\ <<d, n, j>> \in Entries(f) /\ d \in Dirs(f) /\ Dirs(g) = Dirs(f) \ {j}
  /\ \A z : z \in Entries(g) <=> z \in Entries(f) /\ z[1] # j /\ z # <<d, n, j>>

\* Removing a name takes its entry.
LEMMA WithoutTakes ==
  ASSUME NEW f, Sound(f), OneName(f), NEW p, IsPath(p), p # <<>>, NEW s, NEW j, Leads(f, p, s, j),
         NEW v, v = Without(f, s, j)
  PROVE  /\ Surely(f, v, s, j) /\ Sound(v) /\ OneName(v)
         /\ \E d : s \in Places(f, d) /\ Taken(f, v, d, Last(p), j)
<1>1. j \in Inums /\ j \in Live(f) \ {Root} /\ s \in SlotsOf(f, j) /\ Last(p) \in AllNames
  BY LeadsIs, LastIs
<1>2. PICK d \in Dirs(f) : s \in Places(f, d) /\ Holds(f, s, Last(p), j)
  BY LeadsIs
<1>3. Surely(f, v, s, j)
  BY <1>1, <1>2, WithoutIs
<1>4. PICK n, G : n = Last(p) /\ G = Gone(f, j)
  OBVIOUS
<1>5. /\ <<d, n, j>> \in Entries(f)
      /\ \A c, m, k : <<c, m, k>> \in Entries(v) <=>
           <<c, m, k>> \in Entries(f) /\ c \notin G /\ <<c, m, k>> # <<d, n, j>>
      /\ Entries(v) \subseteq Entries(f) /\ Dirs(v) = Dirs(f) \ G
  <2>1. n \in AllNames /\ Holds(f, s, n, j)
    BY <1>1, <1>2, <1>4
  <2> QED
    BY <1>2, <1>3, <1>4, <2>1, TakenEntries
<1>6. G \subseteq {j} /\ (j \in Dirs(f) => j \in G)
  <2>1. ASSUME j \in Dirs(f) PROVE LessOne(f, j) = 0
    <3>1. f.inode[j].nlink = 1
      BY <1>1, <2>1 DEF OneName
    <3> QED
      BY <3>1 DEF LessOne
  <2> QED
    BY <1>4, <2>1 DEF Gone
<1>7. Dirs(v) = Dirs(f) \ {j}
  BY <1>5, <1>6
<1>8. ASSUME NEW z PROVE z \in Entries(v) <=> z \in Entries(f) /\ z[1] # j /\ z # <<d, n, j>>
  <2>1. CASE z \notin Entries(f)
    BY <1>5, <2>1
  <2>2. CASE z \in Entries(f)
    <3>1. PICK c, m, k : z = <<c, m, k>>
      BY <2>2, EntriesAreTriples
    <3>2. c \in Dirs(f) /\ z[1] = c
      <4>1. <<c, m, k>> \in Entries(f)
        BY <2>2, <3>1
      <4> QED
        BY <3>1, <4>1, EntriesInDirs
    <3>3. c \in G <=> c = j
      BY <1>6, <3>2
    <3>4. <<c, m, k>> \in Entries(v) <=> <<c, m, k>> \in Entries(f) /\ c \notin G /\ <<c, m, k>> # <<d, n, j>>
      BY <1>5
    <3> QED
      BY <3>1, <3>2, <3>3, <3>4
  <2> QED
    BY <2>1, <2>2
<1>9. Taken(f, v, d, n, j)
  BY <1>2, <1>5, <1>7, <1>8, Zenon DEF Taken
<1>10. Sound(v) /\ OneName(v)
  <2>1. PICK u : u = inode_unlink(f, p)
    OBVIOUS
  <2>2. v = u.fs
    <3>1. \E c : Chain(f, p, Len(p), c)
      BY DEF Leads
    <3>2. \E t, k : Leads(f, p, t, k) /\ u.fs = Without(f, t, k)
      BY <2>1, <3>1, UnlinkIs
    <3>3. PICK t, k : Leads(f, p, t, k) /\ u.fs = Without(f, t, k)
      BY <3>2
    <3>4. t = s /\ k = j
      BY <3>3, LeadsOne
    <3> QED
      BY <3>3, <3>4
  <2> QED
    BY <2>1, <2>2, UnlinkRight
<1> QED
  BY <1>2, <1>3, <1>4, <1>9, <1>10

\* What is no directory, or an empty one, takes nothing with it.
LEMMA TakenRemoves ==
  ASSUME NEW f, Sound(f), NEW g, NEW d, NEW n, NEW j, Taken(f, g, d, n, j), Barren(f, j)
  PROVE  Removed(f, g, d, n, j)
<1>1. ASSUME NEW b, NEW k, <<j, b, k>> \in Entries(f) PROVE FALSE
  <2>1. j \in Dirs(f) /\ Step(f, j, b, k)
    BY <1>1, EntriesInDirs
  <2>2. PICK t \in Places(f, j) : Holds(f, t, b, k) /\ b \in AllNames
    BY <2>1 DEF Step
  <2>3. Ent(f, t) # NoEnt
    BY <2>2, HoldsName
  <2> QED
    BY <2>1, <2>2, <2>3 DEF Barren
<1>2. ASSUME NEW z, z \in Entries(f) PROVE z[1] # j
  <2>1. PICK c, m, k : z = <<c, m, k>>
    BY <1>2, EntriesAreTriples
  <2>2. z[1] = c /\ <<c, m, k>> \in Entries(f)
    BY <1>2, <2>1
  <2> QED
    BY <1>1, <2>2
<1>3. Entries(g) = Entries(f) \ {<<d, n, j>>}
  BY <1>2 DEF Taken
<1> QED
  BY <1>1, <1>3 DEF Taken, Removed

\* An unlink of such an inode.
LEMMA UnlinkDoes ==
  ASSUME NEW f, Sound(f), OneName(f), NEW p, IsPath(p), p # <<>>, NEW u, u = inode_unlink(f, p),
         \A s, i : Leads(f, p, s, i) => Barren(f, i)
  PROVE  Does(f, u)
<1>1. CASE u.r \in {"ENOENT", "ENOSPC"} /\ Sound(u.fs) /\ SameNames(f, u.fs)
  <2>1. Kept(f, u.fs)
    BY <1>1, SameEntries DEF Kept
  <2> QED
    BY <2>1, KeptDoes
<1>2. CASE u.r = "ok" /\ \E s, i : Leads(f, p, s, i) /\ u.fs = Without(f, s, i)
  <2>1. PICK s, i, v : Leads(f, p, s, i) /\ v = Without(f, s, i) /\ u.fs = v
    BY <1>2
  <2>2. PICK d : Taken(f, v, d, Last(p), i)
    BY <2>1, WithoutTakes
  <2>3. Removed(f, v, d, Last(p), i)
    BY <2>1, <2>2, TakenRemoves
  <2>4. Promised(f, u.fs)
    BY <2>1, <2>3, Zenon DEF Promised
  <2> QED
    BY <1>2, <2>4, Zenon DEF Does
<1> QED
  BY <1>1, <1>2, UnlinkIs

\* Removing what was just made leaves the name space as it was.
LEMMA UndoneKeeps ==
  ASSUME NEW f, Sound(f), NEW y, Sound(y), OneName(y), NEW p, IsPath(p), NEW d, NEW i, i \notin Dirs(y),
         Created(f, y, d, Last(p), i), Dirs(y) = Dirs(f), NEW s, Leads(y, p, s, i),
         NEW u, u = inode_unlink(y, p)
  PROVE  Kept(f, u.fs)
<1>1. p # <<>> /\ \E c : Chain(y, p, Len(p), c)
  BY DEF Leads
<1>2. PICK t, k : Leads(y, p, t, k) /\ u.fs = Without(y, t, k)
  <2>1. \E t, k : Leads(y, p, t, k) /\ u.fs = Without(y, t, k)
    BY <1>1, UnlinkIs
  <2> QED
    BY <2>1
<1>3. t = s /\ k = i
  BY <1>2, LeadsOne
<1>4. PICK v, n : v = u.fs /\ n = Last(p)
  OBVIOUS
<1>5. PICK c : Taken(y, v, c, n, i)
  <2>1. v = Without(y, s, i)
    BY <1>2, <1>3, <1>4
  <2> QED
    BY <1>1, <1>4, <2>1, WithoutTakes
<1>6. /\ <<c, n, i>> \in Entries(y) /\ Dirs(v) = Dirs(y) \ {i}
      /\ \A z : z \in Entries(v) <=> z \in Entries(y) /\ z[1] # i /\ z # <<c, n, i>>
  BY <1>5, Zenon DEF Taken
<1>7. (\A a, b : <<a, b, i>> \notin Entries(f)) /\ Entries(y) = Entries(f) \cup {<<d, n, i>>}
  BY <1>4, Zenon DEF Created
<1>8. <<c, n, i>> = <<d, n, i>> /\ <<d, n, i>> \notin Entries(f)
  BY <1>6, <1>7
<1>9. ASSUME NEW z, z \in Entries(f) PROVE z[1] # i
  <2>1. PICK a, m, k1 : z = <<a, m, k1>>
    BY <1>9, EntriesAreTriples
  <2>2. z[1] = a /\ <<a, m, k1>> \in Entries(f)
    BY <1>9, <2>1
  <2>3. a \in Dirs(f)
    BY <2>2, EntriesInDirs
  <2> QED
    BY <2>2, <2>3
<1>10. Entries(v) = Entries(f)
  BY <1>6, <1>7, <1>8, <1>9
<1>11. Dirs(v) = Dirs(f)
  BY <1>6
<1> QED
  BY <1>4, <1>10, <1>11 DEF Kept

LEMMA SymlinkDoes ==
  ASSUME NEW f, Sound(f), OneName(f), NEW p, IsPath(p), NEW x, x = fs_symlink(f, p)
  PROVE  Does(f, x)
<1>1. PICK c : c = inode_create(f, p, "symlink", 1)
  OBVIOUS
<1>2. FreshInode(Made("symlink", 1)) /\ Made("symlink", 1).nlink = 1
  BY MadeFresh
<1>3. /\ Right(f, c.fs)
      /\ c.r = "ok" => /\ \E s : Leads(c.fs, p, s, c.ino)
                       /\ c.fs.inode[c.ino] = Made("symlink", 1) /\ c.ino \in Live(c.fs)
  BY <1>1, <1>2, CreateRight
<1>4. /\ c.r # "ok" => Kept(f, c.fs)
      /\ c.r = "ok" => \E d : Created(f, c.fs, d, Last(p), c.ino) /\ Dirs(c.fs) = Dirs(f)
  BY <1>1, <1>2, CreateNames
<1>5. CASE c.r # "ok"
  <2>1. x = c
    BY <1>1, <1>5, Zenon DEF fs_symlink
  <2> QED
    BY <1>4, <1>5, <2>1, KeptDoes
<1>6. CASE c.r = "ok"
  <2>1. PICK y, i : y = c.fs /\ i = c.ino
    OBVIOUS
  <2>2. /\ Right(f, y) /\ i \in Live(y) /\ y.inode[i] = Made("symlink", 1) /\ \E s : Leads(y, p, s, i)
        /\ \E d : Created(f, y, d, Last(p), i) /\ Dirs(y) = Dirs(f)
    BY <1>3, <1>4, <1>6, <2>1
  <2>3. PICK s, d : Leads(y, p, s, i) /\ Created(f, y, d, Last(p), i) /\ Dirs(y) = Dirs(f)
    BY <2>2
  <2>4. Sound(y) /\ OneName(y)
    BY <2>2 DEF Right
  <2>5. i \notin Dirs(y)
    <3>1. Made("symlink", 1).mode = "symlink"
      BY MadeFields
    <3> QED
      BY <2>2, <3>1 DEF Dirs
  <2>6. PICK g : g = inode_get_block(y, i, 0)
    OBVIOUS
  <2>7. /\ Sound(g.fs) /\ Entries(g.fs) = Entries(y) /\ Dirs(g.fs) = Dirs(y)
        /\ g.r # "ok" => g.fs = y
    BY <2>2, <2>4, <2>5, <2>6, GetEntries
  <2>8. x = IF g.r = "ok" THEN g ELSE [g EXCEPT !.fs = inode_unlink(g.fs, p).fs]
    BY <1>1, <1>6, <2>1, <2>6, Zenon DEF fs_symlink
  <2>9. CASE g.r = "ok"
    <3>1. x = g
      BY <2>8, <2>9
    <3>2. Created(f, x.fs, d, Last(p), i)
      BY <2>3, <2>7, <3>1 DEF Created
    <3>3. Promised(f, x.fs)
      BY <3>2, Zenon DEF Promised
    <3> QED
      BY <2>9, <3>1, <3>3, Zenon DEF Does
  <2>10. CASE g.r # "ok"
    <3>1. y \in Disks /\ i \in Inums
      BY <2>2, <2>4 DEF Sound, Live
    <3>2. g.fs = y /\ g = [r |-> "ENOSPC", fs |-> y, b |-> g.b]
      <4>1. 0 \in 0..MaxBlocks-1
        BY HasBlocks
      <4>2. g.r = "ENOSPC" /\ g.fs = y /\ y.inode[i].blk[0] = 0 /\ y.free = {}
        BY <2>6, <2>10, <3>1, <4>1, GetBlock
      <4>3. PICK a : a = alloc_block(y)
        OBVIOUS
      <4>4. a = [r |-> "ENOSPC", fs |-> y, b |-> 0]
        BY <4>2, <4>3, Zenon DEF alloc_block
      <4>5. g = a
        <5>1. ~(0 >= MaxBlocks) /\ a.r # "ok"
          BY <4>4, HasBlocks, Sizes
        <5> QED
          BY <2>6, <4>2, <4>3, <5>1, Zenon DEF inode_get_block
      <4> QED
        BY <4>4, <4>5
    <3>3. PICK u : u = inode_unlink(y, p)
      OBVIOUS
    <3>4. x.fs = u.fs
      <4>1. x = [g EXCEPT !.fs = u.fs]
        BY <2>8, <2>10, <3>2, <3>3
      <4> QED
        BY <3>2, <4>1
    <3>5. Kept(f, u.fs)
      BY <2>3, <2>4, <2>5, <3>3, UndoneKeeps
    <3> QED
      BY <3>4, <3>5, KeptDoes
  <2> QED
    BY <2>9, <2>10
<1> QED
  BY <1>5, <1>6

LEMMA ReadlinkKeeps ==
  ASSUME NEW f, Sound(f), NEW p, IsPath(p), Mode(f, p) = "symlink", NEW x, x = fs_readlink(f, p)
  PROVE  Kept(f, x.fs)
<1>1. PICK w : w = walk_path(f, p)
  OBVIOUS
<1>2. w.r = "ok" => w.fs = f /\ IF p = <<>> THEN w.ino = Root ELSE Leads(f, p, w.slot, w.ino)
  BY <1>1, WalkIs
<1>3. w.r = "ok" /\ w.fs.inode[w.ino].mode = "symlink"
  <2>1. Mode(f, p) = IF w.r = "ok" THEN w.fs.inode[w.ino].mode ELSE "none"
    BY <1>1, Zenon DEF Mode
  <2> QED
    BY <2>1
<1>4. PICK i : i = w.ino
  OBVIOUS
<1>5. w.fs = f
  BY <1>2, <1>3
<1>6. i \in Live(f) /\ i \notin Dirs(f)
  <2>1. f.inode[i].mode = "symlink"
    BY <1>3, <1>4, <1>5
  <2>2. i \in Inums
    BY <1>2, <1>3, <1>4, RootIs DEF Leads, Live
  <2> QED
    BY <2>1, <2>2 DEF Live, Dirs
<1>7. x = inode_get_block(f, i, 0)
  BY <1>1, <1>3, <1>4, <1>5, Zenon DEF fs_readlink, inode_open
<1> QED
  BY <1>6, <1>7, GetEntries DEF Kept

LEMMA LookKeeps ==
  ASSUME NEW f, Sound(f), NEW p, IsPath(p)
  PROVE  Kept(f, walk_path(f, p).fs) /\ Kept(f, fs_getattr(f, p).fs) /\ Kept(f, fs_chmod(f, p).fs)
<1>1. PICK w : w = walk_path(f, p)
  OBVIOUS
<1>2. /\ w = [r |-> w.r, fs |-> w.fs, dir |-> w.dir, ino |-> w.ino, slot |-> w.slot]
      /\ Sound(w.fs) /\ SameNames(f, w.fs)
  BY <1>1, WalkIs
<1>3. Kept(f, w.fs)
  BY <1>2, SameEntries DEF Kept
<1>4. PICK x : x = fs_chmod(f, p)
  OBVIOUS
<1>5. x = IF w.r = "ok" /\ w.ino = Root THEN [w EXCEPT !.r = "EPERM"] ELSE w
  BY <1>1, <1>4, Zenon DEF fs_chmod, inode_open
<1>6. x.fs = w.fs
  BY <1>2, <1>5
<1>7. fs_getattr(f, p) = w
  BY <1>1, Zenon DEF fs_getattr, inode_open
<1> QED
  BY <1>1, <1>3, <1>4, <1>6, <1>7

LEMMA UnlinkFile ==
  ASSUME NEW f, Sound(f), OneName(f), NEW p, IsPath(p), NEW x, x = fs_unlink(f, p)
  PROVE  Does(f, x)
<1>1. PICK w : w = walk_path(f, p)
  OBVIOUS
<1>2. /\ w = [r |-> w.r, fs |-> w.fs, dir |-> w.dir, ino |-> w.ino, slot |-> w.slot]
      /\ Sound(w.fs) /\ SameNames(f, w.fs)
      /\ w.r = "ok" => w.fs = f /\ IF p = <<>> THEN w.ino = Root ELSE Leads(f, p, w.slot, w.ino)
  BY <1>1, WalkIs
<1>3. Kept(f, w.fs)
  BY <1>1, LookKeeps
<1>4. CASE w.r # "ok"
  <2>1. x = w
    BY <1>1, <1>4, Zenon DEF fs_unlink, inode_open
  <2> QED
    BY <1>3, <2>1, KeptDoes
<1>5. CASE w.r = "ok" /\ w.fs.inode[w.ino].mode = "dir"
  <2>1. x = [w EXCEPT !.r = "EISDIR"]
    BY <1>1, <1>5, Zenon DEF fs_unlink, inode_open
  <2>2. x.fs = w.fs
    BY <1>2, <2>1
  <2> QED
    BY <1>3, <2>2, KeptDoes
<1>6. CASE w.r = "ok" /\ w.fs.inode[w.ino].mode # "dir"
  <2>1. PICK i, s : i = w.ino /\ s = w.slot
    OBVIOUS
  <2>2. x = inode_unlink(f, p)
    BY <1>1, <1>2, <1>6, Zenon DEF fs_unlink, inode_open
  <2>3. f.inode[i].mode # "dir"
    BY <1>2, <1>6, <2>1
  <2>4. p # <<>> /\ Leads(f, p, s, i)
    BY <1>2, <1>6, <2>1, <2>3, RootIs
  <2>5. ASSUME NEW t, NEW j, Leads(f, p, t, j) PROVE Barren(f, j)
    <3>1. i = j
      BY <2>4, <2>5, LeadsOne
    <3> QED
      BY <2>3, <3>1 DEF Barren, Dirs
  <2> QED
    BY <2>2, <2>4, <2>5, UnlinkDoes
<1> QED
  BY <1>4, <1>5, <1>6

\* After looking, a call does what it does to the names there were.
LEMMA DoesAfter ==
  ASSUME NEW f, NEW h, Kept(f, h), NEW x, Does(h, x)
  PROVE  Does(f, x)
<1>1. Entries(h) = Entries(f) /\ Dirs(h) = Dirs(f)
  BY DEF Kept
<1>2. PICK g : g = x.fs
  OBVIOUS
<1>3. Kept(h, g) => Kept(f, g)
  BY <1>1 DEF Kept
<1>4. ASSUME NEW d, NEW n, NEW i
      PROVE  /\ Created(h, g, d, n, i) => Created(f, g, d, n, i)
             /\ Linked(h, g, d, n, i) => Linked(f, g, d, n, i)
             /\ Removed(h, g, d, n, i) => Removed(f, g, d, n, i)
             /\ \A c, m : Renamed(h, g, c, m, d, n, i) => Renamed(f, g, c, m, d, n, i)
  <2>1. Replaced(h, d, n) = Replaced(f, d, n)
    BY <1>1 DEF Replaced
  <2>2. ASSUME NEW c, NEW m, Renamed(h, g, c, m, d, n, i) PROVE Renamed(f, g, c, m, d, n, i)
    <3>1. Clear(f, d, i)
      BY <1>1, <2>2 DEF Renamed, Clear
    <3> QED
      BY <1>1, <2>1, <2>2, <3>1 DEF Renamed
  <2>3. /\ Created(h, g, d, n, i) => Created(f, g, d, n, i)
        /\ Linked(h, g, d, n, i) => Linked(f, g, d, n, i)
        /\ Removed(h, g, d, n, i) => Removed(f, g, d, n, i)
    BY <1>1 DEF Created, Linked, Removed, Unnamed
  <2> QED
    BY <2>2, <2>3
<1>5. Promised(h, g) => Promised(f, g)
  <2>1. CASE Kept(h, g)
    BY <1>3, <2>1, Zenon DEF Promised
  <2>2. CASE \E d, n, i : \/ Created(h, g, d, n, i) \/ Linked(h, g, d, n, i) \/ Removed(h, g, d, n, i)
                          \/ \E c, m : Renamed(h, g, c, m, d, n, i)
    <3>1. PICK d, n, i : \/ Created(h, g, d, n, i) \/ Linked(h, g, d, n, i) \/ Removed(h, g, d, n, i)
                         \/ \E c, m : Renamed(h, g, c, m, d, n, i)
      BY <2>2
    <3>2. \/ Created(f, g, d, n, i) \/ Linked(f, g, d, n, i) \/ Removed(f, g, d, n, i)
          \/ \E c, m : Renamed(f, g, c, m, d, n, i)
      BY <1>4, <3>1
    <3> QED
      BY <3>2, Zenon DEF Promised
  <2> QED
    BY <2>1, <2>2, Zenon DEF Promised
<1>6. (Does(h, x) => Promised(h, g) /\ (x.r # "ok" => Kept(h, g))) /\ (Promised(f, g) /\ (x.r # "ok" => Kept(f, g)) => Does(f, x))
  BY <1>2, Zenon DEF Does
<1> QED
  BY <1>3, <1>5, <1>6

LEMMA RmdirDoes ==
  ASSUME NEW f, Sound(f), OneName(f), NEW p, IsPath(p), NEW x, x = fs_rmdir(f, p)
  PROVE  Does(f, x)
<1>1. PICK w : w = walk_path(f, p)
  OBVIOUS
<1>2. /\ w = [r |-> w.r, fs |-> w.fs, dir |-> w.dir, ino |-> w.ino, slot |-> w.slot]
      /\ Sound(w.fs) /\ SameNames(f, w.fs)
      /\ w.r = "ok" => w.fs = f /\ IF p = <<>> THEN w.ino = Root ELSE Leads(f, p, w.slot, w.ino)
  BY <1>1, WalkIs
<1>3. Kept(f, w.fs)
  BY <1>1, LookKeeps
<1>4. CASE w.r # "ok"
  <2>1. x = w
    BY <1>1, <1>4, Zenon DEF fs_rmdir, inode_open
  <2> QED
    BY <1>3, <2>1, KeptDoes
<1>5. CASE w.r = "ok" /\ w.ino = Root
  <2>1. x = [w EXCEPT !.r = "EPERM"]
    BY <1>1, <1>5, Zenon DEF fs_rmdir, inode_open
  <2>2. x.fs = w.fs
    BY <1>2, <2>1
  <2> QED
    BY <1>3, <2>2, KeptDoes
<1>6. CASE w.r = "ok" /\ w.ino # Root /\ w.fs.inode[w.ino].mode # "dir"
  <2>1. x = [w EXCEPT !.r = "ENOTDIR"]
    BY <1>1, <1>6, Zenon DEF fs_rmdir, inode_open
  <2>2. x.fs = w.fs
    BY <1>2, <2>1
  <2> QED
    BY <1>3, <2>2, KeptDoes
<1>7. CASE w.r = "ok" /\ w.ino # Root /\ w.fs.inode[w.ino].mode = "dir"
  <2>1. PICK i, slot : i = w.ino /\ slot = w.slot
    OBVIOUS
  <2>2. f.inode[i].mode = "dir" /\ w.fs = f /\ Leads(f, p, slot, i) /\ p # <<>>
    BY <1>2, <1>7, <2>1
  <2>3. i \in Dirs(f)
    BY <2>2 DEF Dirs, Leads, Live
  <2>4. PICK s, wanted : wanted = AllNames /\ s = ScanDir(f, i, wanted)
    OBVIOUS
  <2>5. s = InUse(f, i)
    BY <2>4, Zenon DEF InUse, AllNames
  <2>6. x = IF s.r = "ok" THEN [s EXCEPT !.r = "ENOTEMPTY"]
            ELSE IF s.r # "ENOENT" THEN s
            ELSE inode_unlink(s.fs, p)
    BY <1>1, <1>7, <2>1, <2>2, <2>5, Zenon DEF fs_rmdir, inode_open
  <2>7. PICK g : g = s.fs
    OBVIOUS
  <2>8. /\ s = [r |-> s.r, fs |-> g, slot |-> s.slot] /\ Sound(g) /\ Fills(f, g)
        /\ s.r # "ok" => \A t \in Places(g, i) : Ent(g, t).name \notin wanted
    BY <2>3, <2>4, <2>7, ScanIs
  <2>9. SameNames(f, g) /\ Right(f, g)
    BY <2>8, FillsSame, SameRight
  <2>10. Kept(f, g)
    BY <2>8, <2>9, SameEntries DEF Kept
  <2>11. CASE s.r # "ENOENT"
    <3>1. x.fs = g
      BY <2>6, <2>8, <2>11
    <3> QED
      BY <2>10, <3>1, KeptDoes
  <2>12. CASE s.r = "ENOENT"
    <3>1. x = inode_unlink(g, p)
      BY <2>6, <2>7, <2>12, Zenon
    <3>2. Leads(g, p, slot, i) /\ i \in Dirs(g)
      <4>1. Keeps(f, g)
        BY <2>9, SameKeeps
      <4> QED
        BY <2>2, <2>3, <4>1, KeptLeads DEF Keeps
    <3>3. Barren(g, i)
      BY <2>4, <2>8, <2>12, <3>2, NoneFound
    <3>4. ASSUME NEW t, NEW j, Leads(g, p, t, j) PROVE Barren(g, j)
      <4>1. i = j
        BY <2>8, <3>2, <3>4, LeadsOne
      <4> QED
        BY <3>3, <4>1
    <3>5. Sound(g) /\ OneName(g)
      BY <2>9 DEF Right
    <3>6. Does(g, x)
      BY <2>2, <3>1, <3>4, <3>5, UnlinkDoes
    <3> QED
      BY <2>10, <3>6, DoesAfter
  <2> QED
    BY <2>11, <2>12
<1> QED
  BY <1>4, <1>5, <1>6, <1>7

LEMMA LinkDoes ==
  ASSUME NEW f, Sound(f), OneName(f), NEW src, IsPath(src), NEW dst, IsPath(dst), NEW x, x = fs_link(f, src, dst)
  PROVE  Does(f, x)
<1>1. PICK w : w = walk_path(f, src)
  OBVIOUS
<1>2. /\ w = [r |-> w.r, fs |-> w.fs, dir |-> w.dir, ino |-> w.ino, slot |-> w.slot]
      /\ Sound(w.fs) /\ SameNames(f, w.fs)
      /\ w.r = "ok" => w.fs = f /\ IF src = <<>> THEN w.ino = Root ELSE Leads(f, src, w.slot, w.ino)
  BY <1>1, WalkIs
<1>3. Kept(f, w.fs)
  BY <1>1, LookKeeps
<1>4. CASE w.r # "ok"
  <2>1. x = w
    BY <1>1, <1>4, Zenon DEF fs_link, inode_open
  <2> QED
    BY <1>3, <2>1, KeptDoes
<1>5. CASE w.r = "ok" /\ w.fs.inode[w.ino].mode = "dir"
  <2>1. x = [w EXCEPT !.r = "EPERM"]
    BY <1>1, <1>5, Zenon DEF fs_link, inode_open
  <2>2. x.fs = w.fs
    BY <1>2, <2>1
  <2> QED
    BY <1>3, <2>2, KeptDoes
<1>6. CASE w.r = "ok" /\ w.fs.inode[w.ino].mode # "dir"
  <2>1. PICK j, s : j = w.ino /\ s = w.slot
    OBVIOUS
  <2>2. x = inode_link(f, src, dst)
    BY <1>1, <1>2, <1>6, Zenon DEF fs_link, inode_open
  <2>3. f.inode[j].mode # "dir"
    BY <1>2, <1>6, <2>1
  <2>4. src # <<>> /\ Leads(f, src, s, j)
    BY <1>2, <1>6, <2>1, <2>3, RootIs
  <2>5. CASE Sound(x.fs) /\ SameNames(f, x.fs)
    <3>1. Kept(f, x.fs)
      BY <2>5, SameEntries DEF Kept
    <3> QED
      BY <3>1, KeptDoes
  <2>6. CASE /\ x.r = "ok"
             /\ \E h, d, e, g, t, i : /\ Sound(h) /\ SameNames(f, h) /\ Misses(f, dst, d, g) /\ Leads(f, src, t, i)
                                      /\ Named(h, x.fs, d, e, i, Last(dst)) /\ i \in Live(h)
                                      /\ x.fs.inode[i].nlink = MoreOne(f, i)
                                      /\ x.fs.inode[i].mode = f.inode[i].mode
    <3>1. PICK y, n : y = x.fs /\ n = Last(dst)
      OBVIOUS
    <3>2. PICK h, d, e, t, i : /\ Sound(h) /\ SameNames(f, h) /\ Leads(f, src, t, i)
                               /\ Named(h, y, d, e, i, n)
                               /\ y.inode[i].mode = f.inode[i].mode
      BY <2>6, <3>1
    <3>3. i = j
      BY <2>4, <3>2, LeadsOne
    <3>4. i \notin Dirs(f) /\ i \notin Dirs(y)
      BY <2>3, <3>2, <3>3 DEF Dirs
    <3>5. Entries(h) = Entries(f) /\ Dirs(h) = Dirs(f)
      BY <3>2, SameEntries
    <3>6. Entries(y) = Entries(h) \cup {<<d, n, i>>} /\ d \in Dirs(h) /\ \A k : <<d, n, k>> \notin Entries(h)
      BY <3>2, <3>4, NamedEntries
    <3>7. Dirs(y) = Dirs(f)
      <4>1. Dirs(h) \subseteq Dirs(y) /\ Dirs(y) \subseteq Dirs(h) \cup {i}
        BY <3>2, Zenon DEF Named
      <4> QED
        BY <3>4, <3>5, <4>1
    <3>8. \E a, b : <<a, b, i>> \in Entries(f)
      <4>1. PICK c \in Dirs(f) : t \in Places(f, c) /\ Holds(f, t, Last(src), i)
        BY <3>2, LeadsIs
      <4>2. Last(src) \in AllNames
        BY <2>4, LastIs
      <4>3. Step(f, c, Last(src), i)
        BY <4>1, <4>2 DEF Step
      <4> QED
        BY <4>1, <4>3, EntriesAre
    <3>9. Linked(f, y, d, n, i)
      BY <3>4, <3>5, <3>6, <3>7, <3>8, Zenon DEF Linked, Unnamed
    <3>10. Promised(f, x.fs)
      BY <3>1, <3>9, Zenon DEF Promised
    <3> QED
      BY <2>6, <3>10, Zenon DEF Does
  <2> QED
    BY <2>2, <2>4, <2>5, <2>6, LinkIs
<1> QED
  BY <1>4, <1>5, <1>6

\* The entry <<c, m, i>> has become <<d, n, i>>, and nothing had that name.
Shifted(f, g, c, m, d, n, i) ==
  /\ <<c, m, i>> \in Entries(f) /\ d \in Dirs(f) /\ Unnamed(f, d, n)
  /\ \A z : z \in Entries(g) <=> z = <<d, n, i>> \/ (z \in Entries(f) /\ z # <<c, m, i>>)
  /\ Dirs(g) = Dirs(f)

LEMMA MovesShifts ==
  ASSUME NEW f, Sound(f), NEW src, IsPath(src), src # <<>>, NEW dst, IsPath(dst),
         NEW g, NEW h, NEW y, NEW d, NEW s, NEW t, NEW i, MovesName(f, src, dst, g, h, y, d, s, t, i)
  PROVE  \E c : Shifted(f, g, c, Last(src), d, Last(dst), i)
<1>1. /\ Sound(h) /\ SameNames(f, h) /\ Leads(f, src, t, i)
      /\ Named(h, y, d, s, i, Last(dst)) /\ i \in Live(h)
      /\ Leads(y, src, t, i) /\ Surely(y, g, t, i) /\ i \notin Gone(y, i)
  BY Zenon DEF MovesName
<1>2. y.inode[i].mode = f.inode[i].mode
  BY Zenon DEF MovesName
<1>3. PICK m, n : m = Last(src) /\ n = Last(dst)
  OBVIOUS
<1>4. m \in AllNames /\ Sound(y) /\ i \in Inums
  BY <1>1, <1>3, LastIs, LeadsIs DEF Named
<1>5. Entries(h) = Entries(f) /\ Dirs(h) = Dirs(f)
  BY <1>1, SameEntries
<1>6. Dirs(y) = Dirs(f)
  <2>1. Dirs(h) \subseteq Dirs(y) /\ Dirs(y) \subseteq Dirs(h) \cup {i}
    BY <1>1, Zenon DEF Named
  <2>2. i \in Dirs(y) => i \in Dirs(f)
    BY <1>2 DEF Dirs
  <2> QED
    BY <1>5, <2>1, <2>2
<1>7. Entries(y) = Entries(f) \cup {<<d, n, i>>} /\ d \in Dirs(f) /\ \A k : <<d, n, k>> \notin Entries(f)
  <2>1. Named(h, y, d, s, i, n) /\ (i \in Dirs(y) \ Dirs(h) => Places(h, i) = {})
    BY <1>1, <1>3, <1>5, <1>6
  <2> QED
    BY <1>1, <1>5, <2>1, NamedEntries
<1>8. PICK c \in Dirs(f) : t \in Places(f, c) /\ Holds(f, t, m, i)
  BY <1>1, <1>3, LeadsIs
<1>9. <<c, m, i>> \in Entries(f)
  <2>1. Step(f, c, m, i)
    BY <1>4, <1>8 DEF Step
  <2> QED
    BY <1>8, <2>1, EntriesAre
<1>10. c \in Dirs(y) /\ t \in Places(y, c) /\ Holds(y, t, m, i)
  <2>1. c \in Inums
    BY <1>8 DEF Dirs
  <2>2. Places(f, c) \subseteq Places(h, c)
    BY <1>1, <2>1, Zenon DEF SameNames
  <2>3. Places(y, c) = Places(h, c)
    BY <1>1, <2>1, Zenon DEF Named
  <2>4. Holds(y, t, m, i)
    BY <1>1, <1>3, <1>4, LeadsIs
  <2> QED
    BY <1>6, <1>8, <2>2, <2>3, <2>4
<1>11. PICK G : G = Gone(y, i)
  OBVIOUS
<1>12. /\ \A a, b, k : <<a, b, k>> \in Entries(g) <=>
            <<a, b, k>> \in Entries(y) /\ a \notin G /\ <<a, b, k>> # <<c, m, i>>
       /\ Entries(g) \subseteq Entries(y) /\ Dirs(g) = Dirs(y) \ G
  <2>1. /\ Sound(y) /\ c \in Dirs(y) /\ t \in Places(y, c) /\ m \in AllNames /\ Holds(y, t, m, i)
        /\ Surely(y, g, t, i)
    BY <1>1, <1>4, <1>10
  <2>2. /\ <<c, m, i>> \in Entries(y)
        /\ \A a, b, k : <<a, b, k>> \in Entries(g) <=>
             <<a, b, k>> \in Entries(y) /\ a \notin Gone(y, i) /\ <<a, b, k>> # <<c, m, i>>
        /\ Entries(g) \subseteq Entries(y) /\ Dirs(g) = Dirs(y) \ Gone(y, i)
    BY <2>1, TakenEntries
  <2> QED
    BY <1>11, <2>2, Zenon
<1>13. G = {}
  BY <1>1, <1>11 DEF Gone
<1>14. ASSUME NEW z PROVE z \in Entries(g) <=> z = <<d, n, i>> \/ (z \in Entries(f) /\ z # <<c, m, i>>)
  <2>1. <<d, n, i>> # <<c, m, i>>
    BY <1>7, <1>9
  <2>2. CASE z \in Entries(y)
    <3>1. PICK a, b, k : z = <<a, b, k>>
      BY <1>4, <2>2, EntriesAreTriples
    <3>2. z \in Entries(g) <=> z # <<c, m, i>>
      BY <1>12, <1>13, <2>2, <3>1
    <3> QED
      BY <1>7, <2>1, <2>2, <3>2
  <2>3. CASE z \notin Entries(y)
    BY <1>7, <1>12, <2>3
  <2> QED
    BY <2>2, <2>3
<1>15. Dirs(g) = Dirs(f)
  BY <1>6, <1>12, <1>13
<1>16. Shifted(f, g, c, m, d, n, i)
  BY <1>7, <1>9, <1>14, <1>15, Zenon DEF Shifted, Unnamed
<1> QED
  BY <1>3, <1>16

LEMMA ShiftedRenames ==
  ASSUME NEW f, Sound(f), NEW g, NEW c, NEW m, NEW d, NEW n, NEW i, Shifted(f, g, c, m, d, n, i), Clear(f, d, i)
  PROVE  Renamed(f, g, c, m, d, n, i)
<1>1. /\ <<c, m, i>> \in Entries(f) /\ d \in Dirs(f) /\ (\A k : <<d, n, k>> \notin Entries(f))
      /\ \A z : z \in Entries(g) <=> z = <<d, n, i>> \/ (z \in Entries(f) /\ z # <<c, m, i>>)
      /\ Dirs(g) = Dirs(f)
  BY Zenon DEF Shifted, Unnamed
<1>2. PICK R : R = Replaced(f, d, n)
  OBVIOUS
<1>3. R = {}
  BY <1>1, <1>2 DEF Replaced
<1>4. ASSUME NEW z, z \in Entries(f) PROVE ~(z[1] = d /\ z[2] = n)
  <2>1. PICK a, b, k : z = <<a, b, k>>
    BY <1>4, EntriesAreTriples
  <2> QED
    BY <1>1, <1>4, <2>1
<1>5. \A z : z \in Entries(g) <=> AfterMove(Entries(f), R, c, m, d, n, i, z)
  BY <1>1, <1>3, <1>4 DEF AfterMove
<1>6. d \in Dirs(f) \ R /\ Dirs(g) = Dirs(f) \ R
  BY <1>1, <1>3
<1> QED
  BY <1>1, <1>2, <1>5, <1>6, Zenon DEF Renamed

\* What a rename replaces is gone before the new name is there; if both names
\* are of one file, all that happens is that the old name goes.
LEMMA TakenThenShifted ==
  ASSUME NEW f, Sound(f), OneName(f), NEW v, Sound(v), NEW d, NEW n, NEW j, Taken(f, v, d, n, j),
         NEW g, NEW c, NEW m, NEW i, Shifted(v, g, c, m, d, n, i), Clear(f, d, i)
  PROVE  Removed(f, g, c, m, i) \/ Renamed(f, g, c, m, d, n, i)
<1>1. /\ <<d, n, j>> \in Entries(f) /\ d \in Dirs(f) /\ Dirs(v) = Dirs(f) \ {j}
      /\ \A z : z \in Entries(v) <=> z \in Entries(f) /\ z[1] # j /\ z # <<d, n, j>>
  BY Zenon DEF Taken
<1>2. /\ <<c, m, i>> \in Entries(v) /\ d \in Dirs(v)
      /\ \A z : z \in Entries(g) <=> z = <<d, n, i>> \/ (z \in Entries(v) /\ z # <<c, m, i>>)
      /\ Dirs(g) = Dirs(v)
  BY Zenon DEF Shifted
<1>3. Step(f, d, n, j) /\ <<c, m, i>> \in Entries(f) /\ <<c, m, i>> # <<d, n, j>>
  BY <1>1, <1>2, EntriesInDirs
<1>4. c \in Dirs(f) /\ Step(f, c, m, i)
  BY <1>3, EntriesInDirs
<1>5. \A k : <<d, n, k>> \in Entries(f) => k = j
  BY <1>1, <1>3, EntriesInDirs, StepIsOne
<1>6. CASE i = j
  <2>1. i \notin Dirs(f)
    <3>1. SUFFICES ASSUME i \in Dirs(f) PROVE FALSE
      OBVIOUS
    <3>2. c = d /\ m = n
      BY <1>1, <1>3, <1>4, <1>6, <3>1, DirStepIsOne
    <3> QED
      BY <1>3, <1>6, <3>2
  <2>2. ASSUME NEW b, NEW k, <<i, b, k>> \in Entries(f) PROVE FALSE
    BY <2>1, <2>2, EntriesInDirs
  <2>3. ASSUME NEW z, z \in Entries(f) PROVE z[1] # j
    <3>1. PICK a, b, k : z = <<a, b, k>>
      BY <2>3, EntriesAreTriples
    <3>2. z[1] = a /\ <<a, b, k>> \in Entries(f)
      BY <2>3, <3>1
    <3> QED
      BY <1>6, <2>2, <3>2
  <2>4. Entries(g) = Entries(f) \ {<<c, m, i>>}
    BY <1>1, <1>2, <1>3, <1>6, <2>3
  <2>5. Dirs(g) = Dirs(f) \ {i}
    BY <1>1, <1>2, <1>6
  <2>6. Removed(f, g, c, m, i)
    BY <1>3, <2>2, <2>4, <2>5, Zenon DEF Removed
  <2> QED
    BY <2>6
<1>7. CASE i # j
  <2>1. PICK R : R = Replaced(f, d, n)
    OBVIOUS
  <2>2. R = {j} \cap Dirs(f)
    BY <1>1, <1>5, <2>1 DEF Replaced
  <2>3. d \in Dirs(f) \ R /\ Dirs(g) = Dirs(f) \ R /\ <<d, n, i>> \notin Entries(f)
    BY <1>1, <1>2, <1>5, <1>7, <2>2
  <2>4. ASSUME NEW z, z \in Entries(f)
        PROVE  /\ z[1] \in Dirs(f)
               /\ z = <<d, n, j>> <=> z[1] = d /\ z[2] = n
    <3>1. PICK a, b, k : z = <<a, b, k>>
      BY <2>4, EntriesAreTriples
    <3>2. <<a, b, k>> \in Entries(f) /\ z[1] = a /\ z[2] = b
      BY <2>4, <3>1
    <3>3. a \in Dirs(f)
      BY <3>2, EntriesInDirs
    <3>4. a = d /\ b = n => k = j
      BY <1>5, <3>2
    <3> QED
      BY <3>1, <3>2, <3>3, <3>4
  <2>5. ASSUME NEW z PROVE z \in Entries(g) <=> AfterMove(Entries(f), R, c, m, d, n, i, z)
    <3>1. z \in Entries(f) => (z[1] # j <=> z[1] \notin R)
      BY <2>2, <2>4
    <3> QED
      BY <1>1, <1>2, <2>4, <3>1 DEF AfterMove
  <2>6. Renamed(f, g, c, m, d, n, i)
    BY <1>3, <2>1, <2>3, <2>5, Zenon DEF Renamed
  <2> QED
    BY <2>6
<1> QED
  BY <1>6, <1>7

\* The entry that was taken and the new one are of one directory.
LEMMA SamePlace ==
  ASSUME NEW f, Sound(f), OneName(f), NEW p, IsPath(p), p # <<>>, NEW s, NEW j, Leads(f, p, s, j),
         NEW v, Surely(f, v, s, j), NEW a \in Dirs(f), s \in Places(f, a), NEW d, NEW g, Misses(v, p, d, g)
  PROVE  d = a
<1>1. PICK n \in Nat : n = Len(p) - 1
  BY LastIs
<1>2. PICK c : Chain(v, p, n, c) /\ c[n] = d
  BY <1>1, Zenon DEF Misses
<1>3. Chain(f, p, n, c)
  BY <1>2, ChainWas
<1>4. PICK b \in Dirs(f) : /\ s \in Places(f, b) /\ Holds(f, s, Last(p), j)
                           /\ \E e : Chain(f, p, Len(p) - 1, e) /\ e[Len(p)-1] = b
  BY PlaceFreed
<1>5. PICK e : Chain(f, p, n, e) /\ e[n] = b
  BY <1>1, <1>4
<1>6. c[n] = e[n]
  <2>1. \A m \in 0..n : c[m] = e[m]
    BY <1>1, <1>3, <1>5, ChainIsOne
  <2> QED
    BY <1>1, <2>1
<1>7. a = b
  BY <1>4, OneDir DEF Dirs
<1> QED
  BY <1>2, <1>5, <1>6, <1>7

\* The source does not move below itself.
LEMMA MoveClear ==
  ASSUME NEW f, Sound(f), OneName(f), NEW src, IsPath(src), NEW t, NEW i, Leads(f, src, t, i),
         NEW dst, NEW n \in Nat, ~StartsWith(dst, n, src),
         NEW d \in Dirs(f), NEW c, Chain(f, dst, n, c), c[n] = d
  PROVE  Clear(f, d, i)
<1>1. c[n] \in Dirs(f)
  OBVIOUS
<1>2. Clear(f, c[n], i)
  BY <1>1, ChainClear
<1> QED
  BY <1>2

\* What a path leads to once another entry has been removed, it led to before.
LEMMA LedBefore ==
  ASSUME NEW f, Sound(f), NEW p, NEW s, NEW j, Leads(f, p, s, j), NEW v, Surely(f, v, s, j),
         NEW src, IsPath(src), NEW t, NEW k, Leads(f, src, t, k), NEW b, NEW i, Leads(v, src, b, i)
  PROVE  i = k
<1>1. PICK n \in Nat : n = Len(src)
  BY PathIs
<1>2. PICK c : Chain(f, src, n, c) /\ c[n] = k
  BY <1>1 DEF Leads
<1>3. PICK e : Chain(v, src, n, e) /\ e[n] = i
  BY <1>1 DEF Leads
<1>4. Chain(f, src, n, e)
  BY <1>3, ChainWas
<1>5. \A m \in 0..n : c[m] = e[m]
  BY <1>2, <1>4, ChainIsOne
<1> QED
  BY <1>2, <1>3, <1>5

\* A rename whose destination was in the way and has been unlinked.
LEMMA SecondTryDoes ==
  ASSUME NEW f, Sound(f), OneName(f), NEW src, IsPath(src), src # <<>>, NEW dst, IsPath(dst), dst # <<>>,
         ~IsPrefix(dst, src), ~StartsWith(dst, Len(dst) - 1, src),
         NEW t, NEW k, Leads(f, src, t, k), NEW s, NEW j, Leads(f, dst, s, j),
         NEW v, v = Without(f, s, j), NEW x, x = Moves(v, src, dst)
  PROVE  Promised(f, x.fs) /\ (x.r # "ok" => f.free = {} /\ Hole(f))
<1>1. Surely(f, v, s, j) /\ Sound(v) /\ OneName(v) /\ \E d : s \in Places(f, d) /\ Taken(f, v, d, Last(dst), j)
  BY WithoutTakes
<1>2. PICK n, m, g : n = Last(dst) /\ m = Last(src) /\ g = x.fs
  OBVIOUS
<1>3. PICK a : s \in Places(f, a) /\ Taken(f, v, a, n, j)
  BY <1>1, <1>2
<1>4. CASE x.r # "ok"
  <2>1. j \notin Dirs(f) /\ f.free = {} /\ Hole(f) /\ Sound(x.fs) /\ SameNames(v, x.fs)
    BY <1>1, <1>4, MoveFails
  <2>2. Entries(g) = Entries(v) /\ Dirs(g) = Dirs(v)
    BY <1>1, <1>2, <2>1, SameEntries
  <2>3. Barren(f, j)
    BY <2>1 DEF Barren
  <2>4. Removed(f, v, a, n, j)
    BY <1>3, <2>3, TakenRemoves
  <2>5. Removed(f, g, a, n, j)
    BY <2>2, <2>4, Zenon DEF Removed
  <2>6. Promised(f, g)
    BY <2>5, Zenon DEF Promised
  <2> QED
    BY <1>2, <2>1, <2>6
<1>5. CASE x.r = "ok"
  <2>1. \E h, y, d, e, b, i : MovesName(v, src, dst, x.fs, h, y, d, e, b, i)
    BY <1>1, <1>5, MoveIs
  <2>2. PICK h, y, d, e, b, i : MovesName(v, src, dst, g, h, y, d, e, b, i)
    BY <1>2, <2>1
  <2>3. PICK c : Shifted(v, g, c, m, d, n, i)
    BY <1>1, <1>2, <2>2, MovesShifts
  <2>4. PICK z : Misses(v, dst, d, z)
    BY <2>2, Zenon DEF MovesName
  <2>5. a \in Dirs(f)
    BY <1>3, Zenon DEF Taken
  <2>6. d = a
    BY <1>1, <1>3, <2>4, <2>5, SamePlace
  <2>7. Leads(v, src, b, i) /\ IsPath(src)
    BY <2>2, Zenon DEF MovesName
  <2>8. i = k
    BY <1>1, <2>7, LedBefore
  <2>9. PICK l \in Nat : l = Len(dst) - 1
    BY LastIs
  <2>10. PICK q : Chain(v, dst, l, q) /\ q[l] = d
    BY <2>4, <2>9, Zenon DEF Misses
  <2>11. Chain(f, dst, l, q) /\ ~StartsWith(dst, l, src) /\ d \in Dirs(f)
    BY <1>1, <2>5, <2>6, <2>9, <2>10, ChainWas
  <2>12. Clear(f, d, i)
    BY <2>8, <2>10, <2>11, MoveClear
  <2>13. Removed(f, g, c, m, i) \/ Renamed(f, g, c, m, d, n, i)
    BY <1>1, <1>3, <2>3, <2>6, <2>12, TakenThenShifted
  <2>14. Promised(f, g)
    BY <2>13, Zenon DEF Promised
  <2> QED
    BY <1>2, <1>5, <2>14
<1> QED
  BY <1>4, <1>5

LEMMA FirstTryDoes ==
  ASSUME NEW f, Sound(f), OneName(f), NEW src, IsPath(src), src # <<>>, NEW dst, IsPath(dst),
         dst # <<>>, ~StartsWith(dst, Len(dst) - 1, src), NEW x, x = Moves(f, src, dst)
  PROVE  Does(f, x)
<1>1. \/ x.r # "ok" /\ Sound(x.fs) /\ SameNames(f, x.fs)
      \/ x.r = "ok" /\ \E h, y, d, s, t, i : MovesName(f, src, dst, x.fs, h, y, d, s, t, i)
  BY MoveIs
<1>2. CASE x.r # "ok" /\ Sound(x.fs) /\ SameNames(f, x.fs)
  <2>1. Kept(f, x.fs)
    BY <1>2, SameEntries DEF Kept
  <2> QED
    BY <2>1, KeptDoes
<1>3. CASE x.r = "ok" /\ \E h, y, d, s, t, i : MovesName(f, src, dst, x.fs, h, y, d, s, t, i)
  <2>1. PICK g : g = x.fs
    OBVIOUS
  <2>2. PICK h, y, d, s, t, i : MovesName(f, src, dst, g, h, y, d, s, t, i)
    BY <1>3, <2>1
  <2>3. PICK c : Shifted(f, g, c, Last(src), d, Last(dst), i)
    BY <2>2, MovesShifts
  <2>4. Leads(f, src, t, i) /\ \E z : Misses(f, dst, d, z)
    BY <2>2, Zenon DEF MovesName
  <2>5. PICK l \in Nat : l = Len(dst) - 1
    BY LastIs
  <2>6. PICK q : Chain(f, dst, l, q) /\ q[l] = d /\ d \in Dirs(f)
    BY <2>4, <2>5, Zenon DEF Misses
  <2>7. ~StartsWith(dst, l, src)
    BY <2>5
  <2>8. Clear(f, d, i)
    BY <2>4, <2>6, <2>7, MoveClear
  <2>9. Renamed(f, g, c, Last(src), d, Last(dst), i)
    BY <2>3, <2>8, ShiftedRenames
  <2>10. Promised(f, g)
    BY <2>9, Zenon DEF Promised
  <2> QED
    BY <1>3, <2>1, <2>10, Zenon DEF Does
<1> QED
  BY <1>1, <1>2, <1>3

\* A directory of a path does not begin with a path that the whole does not
\* begin with.
LEMMA PartStarts ==
  ASSUME NEW p, IsPath(p), NEW q, IsPath(q), p = q \/ ~IsPrefix(p, q)
  PROVE  ~StartsWith(q, Len(q) - 1, p)
<1> SUFFICES ASSUME StartsWith(q, Len(q) - 1, p) PROVE FALSE
  OBVIOUS
<1>1. Len(p) \in Nat /\ Len(q) \in Nat /\ Len(p) <= Len(q) - 1 /\ \A j \in 1..Len(p) : q[j] = p[j]
  BY PathIs DEF StartsWith
<1>2. StartsWith(q, Len(q), p)
  BY <1>1 DEF StartsWith
<1> QED
  BY <1>1, <1>2, StartsIs

LEMMA PartIs ==
  ASSUME NEW p, IsPath(p), NEW n \in Nat, n <= Len(p)
  PROVE  SubSeq(p, 1, n) \in Seq(AllNames) /\ Len(SubSeq(p, 1, n)) = n
BY DEF IsPath

LEMMA HiddenStarts ==
  ASSUME NEW p, IsPath(p), p # <<>>, NEW q, q = HiddenPath(p)
  PROVE  ~StartsWith(q, Len(q) - 1, p)
<1>1. PICK r : r = Front(p)
  OBVIOUS
<1>2. PICK n \in Nat : n = Len(p) - 1 /\ n + 1 = Len(p)
  BY LastIs
<1>3. r = SubSeq(p, 1, n)
  BY <1>1, <1>2, Zenon DEF Front
<1>4. r \in Seq(AllNames) /\ Len(r) = n
  BY <1>2, <1>3, PartIs
<1>5. q = Append(r, Hidden)
  BY <1>1, Zenon DEF HiddenPath
<1>6. Hidden \in AllNames
  BY DEF AllNames
<1>7. Len(q) = Len(p)
  BY <1>2, <1>4, <1>5, <1>6
<1> QED
  BY <1>2, <1>7 DEF StartsWith

\* A rename that fails has changed nothing, or found no block.
LEMMA RenameDoes ==
  ASSUME NEW f, Sound(f), OneName(f), NEW src, IsPath(src), src # <<>>, NEW dst, IsPath(dst), dst # <<>>,
         src = dst \/ ~(IsPrefix(src, dst) \/ IsPrefix(dst, src)), NEW x, x = fs_rename(f, src, dst)
  PROVE  Promised(f, x.fs) /\ (x.r # "ok" => Kept(f, x.fs) \/ (f.free = {} /\ Hole(f)))
<1>1. PICK l, u : l = inode_link(f, src, dst) /\ u = inode_unlink(f, dst)
  OBVIOUS
<1>2. \/ l.r # "EEXIST" /\ x = Moves(f, src, dst)
      \/ l.r = "EEXIST" /\ src = dst /\ x.r = "ok" /\ x.fs = f
      \/ l.r = "EEXIST" /\ src # dst /\ u.r # "ok" /\ x = u
      \/ l.r = "EEXIST" /\ src # dst /\ u.r = "ok" /\ x = Moves(u.fs, src, dst)
  BY <1>1, RenameIs
<1>3. ASSUME Does(f, x) PROVE Promised(f, x.fs) /\ (x.r # "ok" => Kept(f, x.fs))
  BY <1>3, Zenon DEF Does
<1>4. ASSUME Kept(f, x.fs) PROVE Does(f, x)
  BY <1>4, KeptDoes
<1>9. ~StartsWith(dst, Len(dst) - 1, src)
  BY PartStarts
<1>5. CASE x = Moves(f, src, dst)
  BY <1>3, <1>5, <1>9, FirstTryDoes
<1>6. CASE x.fs = f
  BY <1>3, <1>4, <1>6 DEF Kept
<1>7. CASE u.r # "ok" /\ x = u
  <2>1. Sound(u.fs) /\ SameNames(f, u.fs)
    BY <1>1, <1>7, UnlinkIs
  <2> QED
    BY <1>3, <1>4, <1>7, <2>1, SameEntries DEF Kept
<1>8. CASE l.r = "EEXIST" /\ src # dst /\ u.r = "ok" /\ x = Moves(u.fs, src, dst)
  <2>1. PICK t, k : Leads(f, src, t, k)
    <3>1. \E t, k : Leads(f, src, t, k)
      BY <1>1, <1>8, ClashLeads
    <3> QED
      BY <3>1
  <2>2. PICK s, j, v : Leads(f, dst, s, j) /\ v = Without(f, s, j) /\ u.fs = v
    <3>1. u.r # "ok" \/ \E s, j : Leads(f, dst, s, j) /\ u.fs = Without(f, s, j)
      <4>1. u.r \in {"ENOENT", "ENOSPC"} => u.r # "ok"
        OBVIOUS
      <4> QED
        BY <1>1, <4>1, UnlinkIs
    <3> QED
      BY <1>8, <3>1
  <2>3. x = Moves(v, src, dst) /\ ~IsPrefix(dst, src)
    BY <1>8, <2>2
  <2>4. Promised(f, x.fs) /\ (x.r # "ok" => f.free = {} /\ Hole(f))
    BY <1>9, <2>1, <2>2, <2>3, SecondTryDoes
  <2> QED
    BY <2>4
<1> QED
  BY <1>2, <1>5, <1>6, <1>7, <1>8

-----------------------------------------------------------------------------
(* The promise *)

\* A fresh image has no name.
LEMMA InitPromise == Init => Promise!Init
<1> SUFFICES ASSUME Init PROVE Promise!Init
  OBVIOUS
<1>1. Sound(fs)
  BY InitIs
<1>2. PICK f : f = fs
  OBVIOUS
<1>3. \A i \in Inums : f.inode[i] = IF i = Root THEN [NoInode EXCEPT !.mode = "dir", !.nlink = 1] ELSE NoInode
  <2>1. PICK I : I = [i \in Inums |-> IF i = Root THEN [NoInode EXCEPT !.mode = "dir", !.nlink = 1] ELSE NoInode]
    OBVIOUS
  <2>2. f.inode = I
    BY <1>2, <2>1 DEF Init
  <2> QED
    BY <2>1, <2>2
<1>4. PICK x : x = [NoInode EXCEPT !.mode = "dir", !.nlink = 1]
  OBVIOUS
<1>5. x.blk = NoInode.blk /\ NoInode.mode = "none" /\ \A n \in 0..MaxBlocks-1 : NoInode.blk[n] = 0
  BY <1>4 DEF NoInode
<1>6. Dirs(f) = {Root}
  <2>1. \A i \in Inums \ {Root} : f.inode[i].mode = "none"
    BY <1>3, <1>5
  <2>2. Root \in Dirs(f)
    BY <1>1, <1>2, RootIs
  <2> QED
    BY <2>1, <2>2 DEF Dirs
<1>7. Places(f, Root) = {}
  <2>1. Root \in Inums
    BY <1>1, RootIs
  <2>2. \A n \in 0..MaxBlocks-1 : f.inode[Root].blk[n] = 0
    BY <1>3, <1>4, <1>5, <2>1
  <2> QED
    BY <2>2 DEF Places, BlocksOf
<1>8. ASSUME NEW z \in Entries(f) PROVE FALSE
  <2>1. PICK d \in Dirs(f), n \in AllNames, i \in Live(f) \ {Root} : z = <<d, n, i>> /\ Step(f, d, n, i)
    BY <1>1, <1>2, EntriesAre
  <2>2. Step(f, Root, n, i)
    BY <1>6, <2>1
  <2> QED
    BY <1>7, <2>2 DEF Step
<1>9. Entries(fs) = {} /\ Dirs(fs) = {Root}
  BY <1>2, <1>6, <1>8
<1> QED
  BY <1>9 DEF Promise!Init

\* What a call does to the names is a step of NameSpace.
LEMMA PromiseStep ==
  ASSUME Sound(fs), Promised(fs, fs')
  PROVE  [Promise!Next]_<<Entries(fs), Dirs(fs)>>
<1>1. PICK E, D, F, C : E = Entries(fs) /\ D = Dirs(fs) /\ F = Entries(fs') /\ C = Dirs(fs')
  OBVIOUS
<1>2. Entries(fs)' = F /\ Dirs(fs)' = C
  BY <1>1 DEF Entries, Dirs, fs_readdir
<1>3. ASSUME Kept(fs, fs') PROVE UNCHANGED <<Entries(fs), Dirs(fs)>>
  BY <1>1, <1>2, <1>3 DEF Kept
<1>4. /\ \A z \in E : z[1] \in D /\ z = <<z[1], z[2], z[3]>>
      /\ \A d, n, i : <<d, n, i>>[1] = d /\ <<d, n, i>>[2] = n /\ <<d, n, i>>[3] = i
  <2>1. ASSUME NEW z \in E PROVE z[1] \in D /\ z = <<z[1], z[2], z[3]>>
    <3>1. PICK d, n, i : z = <<d, n, i>>
      BY <1>1, EntriesAreTriples
    <3>2. <<d, n, i>> \in Entries(fs)
      BY <1>1, <3>1
    <3> QED
      BY <1>1, <3>1, <3>2, EntriesInDirs
  <2> QED
    BY <2>1
<1>5. ASSUME NEW d, NEW n, NEW i, Created(fs, fs', d, n, i) PROVE Promise!Next
  <2>1. PICK x : x = <<d, n, i>>
    OBVIOUS
  <2>2. /\ d \in D /\ (\A k : <<d, n, k>> \notin E) /\ i \notin D /\ (\A a, b : <<a, b, i>> \notin E)
        /\ F = E \cup {x} /\ (C = D \/ C = D \cup {i})
    BY <1>1, <1>5, <2>1 DEF Created, Unnamed
  <2>3. x[1] = d /\ x[2] = n /\ x[3] = i
    BY <2>1
  <2>4. {e \in E : e[1] = x[1] /\ e[2] = x[2]} = {} /\ {e \in E : e[1] = x[3]} = {} /\ \A e \in E : e[3] # x[3]
    BY <1>4, <2>2, <2>3
  <2>5. Promise!Create(x)
    BY <1>1, <1>2, <2>2, <2>3, <2>4 DEF Promise!Create, Promise!Named, Promise!IsNew, Promise!Inside
  <2>6. x \in F \ E
    BY <2>1, <2>2
  <2> QED
    BY <1>1, <1>2, <2>5, <2>6 DEF Promise!Next
<1>6. ASSUME NEW d, NEW n, NEW i, Linked(fs, fs', d, n, i) PROVE Promise!Next
  <2>1. PICK x : x = <<d, n, i>>
    OBVIOUS
  <2>2. /\ d \in D /\ (\A k : <<d, n, k>> \notin E) /\ i \notin D /\ (\E a, b : <<a, b, i>> \in E)
        /\ F = E \cup {x} /\ C = D
    BY <1>1, <1>6, <2>1 DEF Linked, Unnamed
  <2>3. x[1] = d /\ x[2] = n /\ x[3] = i
    BY <2>1
  <2>4. {e \in E : e[1] = x[1] /\ e[2] = x[2]} = {}
    BY <1>4, <2>2, <2>3
  <2>5. \E e \in E : e[3] = x[3]
    BY <1>4, <2>2, <2>3
  <2>6. Promise!Link(x)
    BY <1>1, <1>2, <2>2, <2>3, <2>4, <2>5 DEF Promise!Link, Promise!Named, Promise!IsNew
  <2>7. x \in F \ E
    BY <2>1, <2>2
  <2> QED
    BY <1>1, <1>2, <2>6, <2>7 DEF Promise!Next
<1>7. ASSUME NEW d, NEW n, NEW i, Removed(fs, fs', d, n, i) PROVE Promise!Next
  <2>1. PICK e : e = <<d, n, i>>
    OBVIOUS
  <2>2. e \in E /\ (\A b, k : <<i, b, k>> \notin E) /\ F = E \ {e} /\ C = D \ {i}
    BY <1>1, <1>7, <2>1 DEF Removed
  <2>3. e[3] = i
    BY <2>1
  <2>4. {y \in E : y[1] = e[3]} = {}
    BY <1>4, <2>2, <2>3
  <2>5. Promise!Unlink(e)
    BY <1>1, <1>2, <2>2, <2>3, <2>4 DEF Promise!Unlink, Promise!Inside
  <2> QED
    BY <1>1, <1>2, <2>2, <2>5 DEF Promise!Next
<1>8. ASSUME NEW c, NEW m, NEW d, NEW n, NEW i, Renamed(fs, fs', c, m, d, n, i) PROVE Promise!Next
  <2>1. PICK e, x, R : e = <<c, m, i>> /\ x = <<d, n, i>> /\ R = Replaced(fs, d, n)
    OBVIOUS
  <2>2. /\ e \in E /\ x \notin E /\ d \in D \ R /\ C = D \ R
        /\ \A z : z \in F <=> z = x \/ (z \in E /\ z # e /\ ~(z[1] = d /\ z[2] = n) /\ z[1] \notin R)
    BY <1>1, <1>8, <2>1 DEF Renamed, AfterMove
  <2>3. x[1] = d /\ x[2] = n /\ x[3] = i /\ e[3] = i
    BY <2>1
  <2>4. PICK N : N = {y \in E : y[1] = x[1] /\ y[2] = x[2]}
    OBVIOUS
  <2>5. R = {y[3] : y \in N} \cap D
    <3>1. ASSUME NEW k \in R PROVE k \in {y[3] : y \in N} \cap D
      <4>1. k \in D /\ <<d, n, k>> \in E
        BY <1>1, <2>1 DEF Replaced
      <4>2. <<d, n, k>> \in N /\ <<d, n, k>>[3] = k
        BY <1>4, <2>3, <2>4, <4>1
      <4> QED
        BY <4>1, <4>2
    <3>2. ASSUME NEW k \in {y[3] : y \in N} \cap D PROVE k \in R
      <4>1. PICK y \in N : k = y[3]
        BY <3>2
      <4>2. y \in E /\ y = <<d, n, k>>
        BY <1>4, <2>3, <2>4, <4>1
      <4> QED
        BY <1>1, <2>1, <3>2, <4>2 DEF Replaced
    <3> QED
      BY <3>1, <3>2
  <2>6. F = ((E \ {e}) \ (N \cup UNION {{y \in E : y[1] = o} : o \in R})) \cup {x}
    BY <2>2, <2>3, <2>4
  <2>7. Promise!Rename(e, x)
    <3>1. /\ Promise!Named(x) = N /\ \A o : Promise!Inside(o) = {y \in E : y[1] = o}
      BY <1>1, <2>4 DEF Promise!Named, Promise!Inside
    <3>2. UNION {Promise!Inside(o) : o \in R} = UNION {{y \in E : y[1] = o} : o \in R}
      BY <3>1
    <3> QED
      BY <1>1, <1>2, <2>2, <2>3, <2>5, <2>6, <3>1, <3>2 DEF Promise!Rename
  <2>8. x \in F \ E /\ e \in E \ F
    BY <2>2
  <2> QED
    BY <1>1, <1>2, <2>7, <2>8 DEF Promise!Next
<1>9. CASE Kept(fs, fs')
  BY <1>3, <1>9
<1>10. CASE \E d, n, i : \/ Created(fs, fs', d, n, i) \/ Linked(fs, fs', d, n, i) \/ Removed(fs, fs', d, n, i)
                         \/ \E c, m : Renamed(fs, fs', c, m, d, n, i)
  BY <1>5, <1>6, <1>7, <1>8, <1>10
<1> QED
  BY <1>9, <1>10, Zenon DEF Promised

\* The hidden name is free, or the call has not been made.
LEMMA HideDoes ==
  ASSUME NEW f, Sound(f), OneName(f), NEW p, IsPath(p), p # <<>>, NEW q, q = HiddenPath(p), IsPath(q), q # <<>>,
         NEW x, x = Hide(f, p)
  PROVE  Promised(f, x.fs)
<1>1. CASE Mode(f, q) = "none"
  <2>1. PICK l, u, w : l = inode_link(f, p, q) /\ u = inode_unlink(f, q) /\ w = walk_path(f, q)
    OBVIOUS
  <2>2. w.r # "ok"
    BY <1>1, <2>1, ModeIs
  <2>3. l.r # "EEXIST"
    BY <2>1, <2>2, LinkClash
  <2>4. x = fs_rename(f, p, q)
    BY <1>1, Zenon DEF Hide
  <2>5. x = Moves(f, p, q)
    BY <2>1, <2>3, <2>4, RenameIs
  <2>6. Does(f, x)
    BY <2>5, FirstTryDoes, HiddenStarts
  <2> QED
    BY <2>6, Zenon DEF Does
<1>2. CASE Mode(f, q) # "none"
  <2>1. x = [r |-> "EBUSY", fs |-> f]
    BY <1>2, Zenon DEF Hide
  <2>2. x.fs = f
    BY <2>1
  <2>3. Does(f, x)
    BY <2>2, KeptDoes DEF Kept
  <2> QED
    BY <2>3, Zenon DEF Does
<1> QED
  BY <1>1, <1>2

\* A callback that does what it should.
LEMMA DoneDoes ==
  ASSUME NEW x, Done(x), Does(fs, x)
  PROVE  Promised(fs, fs')
<1>1. fs' = x.fs /\ Promised(fs, x.fs)
  BY Zenon DEF Done, Does
<1> QED
  BY <1>1

LEMMA DoneKeeps ==
  ASSUME NEW x, Done(x), Kept(fs, x.fs)
  PROVE  Promised(fs, fs')
<1>1. Does(fs, x)
  BY KeptDoes
<1> QED
  BY <1>1, DoneDoes

LEMMA SamePromised ==
  ASSUME fs' = fs
  PROVE  Promised(fs, fs')
<1>1. Kept(fs, fs')
  BY DEF Kept
<1> QED
  BY <1>1, Zenon DEF Promised

\* Each step of the driver keeps the promise.
LEMMA StepPromised ==
  ASSUME IInv, [Next]_vars
  PROVE  Promised(fs, fs')
<1>1. Sound(fs) /\ OneName(fs) /\ HandleIs
  BY DEF IInv
<1>2. ASSUME NEW p \in Paths PROVE IsPath(p)
  BY <1>2, PathsAre
<1>3. ASSUME NEW p \in Paths, Mknod(p) PROVE Promised(fs, fs')
  BY <1>1, <1>2, <1>3, MakeDoes, DoneDoes DEF Mknod
<1>4. ASSUME NEW p \in Paths, Mkdir(p) PROVE Promised(fs, fs')
  BY <1>1, <1>2, <1>4, MakeDoes, DoneDoes DEF Mkdir
<1>5. ASSUME NEW p \in Paths, Symlink(p) PROVE Promised(fs, fs')
  BY <1>1, <1>2, <1>5, SymlinkDoes, DoneDoes DEF Symlink
<1>6. ASSUME NEW p \in Paths, Getattr(p) PROVE Promised(fs, fs')
  BY <1>1, <1>2, <1>6, LookKeeps, DoneKeeps DEF Getattr
<1>7. ASSUME NEW p \in Paths, Chmod(p) PROVE Promised(fs, fs')
  BY <1>1, <1>2, <1>7, LookKeeps, DoneKeeps DEF Chmod
<1>8. ASSUME NEW p \in Paths, Readlink(p) PROVE Promised(fs, fs')
  BY <1>1, <1>2, <1>8, ReadlinkKeeps, DoneKeeps DEF Readlink
<1>9. ASSUME NEW p \in Paths, Unlink(p) PROVE Promised(fs, fs')
  BY <1>1, <1>2, <1>9, UnlinkFile, DoneDoes DEF Unlink
<1>10. ASSUME NEW p \in Paths, Rmdir(p) PROVE Promised(fs, fs')
  BY <1>1, <1>2, <1>10, RmdirDoes, DoneDoes DEF Rmdir
<1>11. ASSUME NEW p \in Paths, NEW q \in Paths, Link(p, q) PROVE Promised(fs, fs')
  BY <1>1, <1>2, <1>11, LinkDoes, DoneDoes DEF Link
<1>12. ASSUME NEW p \in Paths, UnlinkOpen(p) PROVE Promised(fs, fs')
  <2>1. PICK x, q : x = Hide(fs, p) /\ q = HiddenPath(p)
    OBVIOUS
  <2>2. fs' = x.fs /\ fh # NoHandle /\ fh.path = p
    BY <1>12, <2>1, Zenon DEF UnlinkOpen, IsOpen, Done
  <2>3. p = Nowhere \/ (IsPath(p) /\ p # <<>>)
    BY <1>1, <2>2, Zenon DEF HandleIs
  <2>4. IsPath(p) /\ p # <<>> /\ IsPath(q) /\ q # <<>>
    BY <1>2, <2>1, <2>3, PathsAre
  <2> QED
    BY <1>1, <2>1, <2>2, <2>4, HideDoes
<1>13. ASSUME NEW p \in Paths, NEW q \in Paths, Rename(p, q) PROVE Promised(fs, fs')
  <2>1. PICK x : x = fs_rename(fs, p, q)
    OBVIOUS
  <2>2. fs' = x.fs /\ p # <<>> /\ q # <<>> /\ (p = q \/ ~(IsPrefix(p, q) \/ IsPrefix(q, p)))
    BY <1>13, <2>1, Zenon DEF Rename, Renameable, Done
  <2> QED
    BY <1>1, <1>2, <2>1, <2>2, RenameDoes
<1>14. ASSUME NEW p \in OpenPaths, Open(p) PROVE Promised(fs, fs')
  <2>1. PICK w : w = walk_path(fs, p)
    OBVIOUS
  <2>2. Done(w)
    BY <1>14, <2>1, Zenon DEF Open, inode_open
  <2>3. IsPath(p)
    BY PathsAre, OpenPathsAssumption
  <2> QED
    BY <1>1, <2>1, <2>2, <2>3, LookKeeps, DoneKeeps
<1>15. ASSUME Release PROVE Promised(fs, fs')
  <2>1. PICK p, x : p = fh.path /\ x = fs_unlink(fs, p)
    OBVIOUS
  <2>2. CASE Last(p) = Hidden
    <3>1. Done(x) /\ fh # NoHandle
      BY <1>15, <2>1, <2>2, Zenon DEF Release
    <3>2. p = Nowhere \/ IsPath(p)
      BY <1>1, <2>1, <3>1 DEF HandleIs
    <3>3. IsPath(p)
      BY <2>2, <3>2, PathsAre
    <3> QED
      BY <1>1, <2>1, <3>1, <3>3, UnlinkFile, DoneDoes
  <2>3. CASE Last(p) # Hidden
    <3>1. fs' = fs
      BY <1>15, <2>1, <2>3, Zenon DEF Release
    <3> QED
      BY <3>1, SamePromised
  <2> QED
    BY <2>2, <2>3
<1>16. ASSUME Remount PROVE Promised(fs, fs')
  BY <1>1, <1>16, RemountSame, SamePromised
<1>17. ASSUME UNCHANGED vars PROVE Promised(fs, fs')
  BY <1>17, SamePromised DEF vars
<1> QED
  BY <1>3, <1>4, <1>5, <1>6, <1>7, <1>8, <1>9, <1>10, <1>11, <1>12, <1>13, <1>14, <1>15, <1>16, <1>17 DEF Next

\* The driver is an implementation of NameSpace: whatever the blocks, slots and
\* counts do, a call makes, links, removes or moves one name, or none.
THEOREM NamesAsPromised == Spec => KeepsPromise
<1>1. IInv /\ [Next]_vars => [Promise!Next]_<<Entries(fs), Dirs(fs)>>
  <2> SUFFICES ASSUME IInv, [Next]_vars PROVE [Promise!Next]_<<Entries(fs), Dirs(fs)>>
    OBVIOUS
  <2>1. Sound(fs) /\ Promised(fs, fs')
    BY StepPromised DEF IInv
  <2> QED
    BY <2>1, PromiseStep
<1> QED
  BY <1>1, InitPromise, FileSystemInvariant, PTL DEF Spec, KeepsPromise, Promise!Spec

\* A call that fails has changed no name, unless it is a rename that found no
\* block left for the hole it met (FailedCallsKeepNames).
THEOREM FailuresKeepNames == Spec => []FailedCallsKeepNames
<1>1. IInv => FailedCallsKeepNames
  <2> SUFFICES ASSUME IInv PROVE FailedCallsKeepNames
    OBVIOUS
  <2>1. Sound(fs) /\ OneName(fs)
    BY DEF IInv
  <2>2. ASSUME NEW x, Does(fs, x) PROVE KeepsNames(x)
    BY <2>2, Zenon DEF Does, Kept, KeepsNames
  <2>3. ASSUME NEW p \in Paths
        PROVE  /\ KeepsNames(fs_mknod(fs, p)) /\ KeepsNames(fs_mkdir(fs, p)) /\ KeepsNames(fs_symlink(fs, p))
               /\ KeepsNames(fs_unlink(fs, p)) /\ KeepsNames(fs_rmdir(fs, p))
    <3>1. IsPath(p)
      BY PathsAre
    <3>2. Does(fs, fs_mknod(fs, p)) /\ Does(fs, fs_mkdir(fs, p))
      BY <2>1, <3>1, MakeDoes
    <3>3. Does(fs, fs_symlink(fs, p))
      BY <2>1, <3>1, SymlinkDoes
    <3>4. Does(fs, fs_unlink(fs, p))
      BY <2>1, <3>1, UnlinkFile
    <3>5. Does(fs, fs_rmdir(fs, p))
      BY <2>1, <3>1, RmdirDoes
    <3> QED
      BY <2>2, <3>2, <3>3, <3>4, <3>5
  <2>4. ASSUME NEW p \in Paths, NEW q \in Paths
        PROVE  /\ KeepsNames(fs_link(fs, p, q))
               /\ Renameable(p, q) => KeepsNames(fs_rename(fs, p, q)) \/ (fs.free = {} /\ Hole(fs))
    <3>1. IsPath(p) /\ IsPath(q)
      BY PathsAre
    <3>2. Does(fs, fs_link(fs, p, q))
      BY <2>1, <3>1, LinkDoes
    <3>3. ASSUME Renameable(p, q) PROVE KeepsNames(fs_rename(fs, p, q)) \/ (fs.free = {} /\ Hole(fs))
      <4>1. p # <<>> /\ q # <<>> /\ (p = q \/ ~(IsPrefix(p, q) \/ IsPrefix(q, p)))
        BY <3>3, Zenon DEF Renameable
      <4>2. PICK x : x = fs_rename(fs, p, q)
        OBVIOUS
      <4>3. x.r # "ok" => Kept(fs, x.fs) \/ (fs.free = {} /\ Hole(fs))
        BY <2>1, <3>1, <4>1, <4>2, RenameDoes
      <4> QED
        BY <4>2, <4>3, Zenon DEF Kept, KeepsNames
    <3> QED
      BY <2>2, <3>2, <3>3
  <2> QED
    BY <2>3, <2>4, Zenon DEF FailedCallsKeepNames
<1> QED
  BY <1>1, FileSystemInvariant, PTL

-----------------------------------------------------------------------------
(* The tree *)

\* From the directories of S entries lead into S.
Closed(E, S) == Root \in S /\ \A z \in E : z[1] \in S => z[3] \in S

\* Every entry is in a directory that hangs from the root.
Rooted(f) == \A S \in SUBSET Inums : Closed(Entries(f), S) => \A z \in Entries(f) : z[1] \in S

\* Every inode in use but the root has a name.
HasNames(f) == \A i \in Live(f) \ {Root} : \E a, b : <<a, b, i>> \in Entries(f)

\* An inode that is counted has an entry.
LEMMA CountedHasNames ==
  ASSUME NEW f, Sound(f), OneName(f), Exact(f)
  PROVE  HasNames(f)
<1> SUFFICES ASSUME NEW i \in Live(f) \ {Root} PROVE \E a, b : <<a, b, i>> \in Entries(f)
  BY DEF HasNames
<1>1. f \in Disks /\ i \in Inums
  BY DEF Sound, Live
<1>2. Cardinality(SlotsOf(f, i)) # 0
  BY DEF Exact, OneName
<1>3. SlotsOf(f, i) # {}
  BY <1>2, FS_EmptySet
<1>4. PICK s \in SlotsOf(f, i) : TRUE
  BY <1>3
<1>5. PICK d \in Dirs(f) : s \in Places(f, d) /\ Ent(f, s).inum = i
  BY <1>1, <1>4, SlotIs
<1>6. Ent(f, s) # NoEnt
  <2>1. NoEnt.inum = 0 /\ 0 \notin Inums
    BY Basics DEF NoEnt
  <2> QED
    BY <1>1, <1>5, <2>1
<1>7. PICK n : n = Ent(f, s).name
  OBVIOUS
<1>8. Ent(f, s) = [name |-> n, inum |-> i] /\ n \in AllNames
  BY <1>5, <1>6, <1>7, EntLeads
<1>9. Step(f, d, n, i)
  BY <1>5, <1>8 DEF Step, Holds
<1> QED
  BY <1>5, <1>9, EntriesAre

\* A directory has one entry.
LEMMA DirEntryIsOne ==
  ASSUME NEW f, Sound(f), OneName(f), NEW d \in Dirs(f), NEW a, NEW m, NEW b, NEW n,
         <<a, m, d>> \in Entries(f), <<b, n, d>> \in Entries(f)
  PROVE  a = b /\ m = n
<1>1. a \in Dirs(f) /\ Step(f, a, m, d) /\ b \in Dirs(f) /\ Step(f, b, n, d)
  BY EntriesInDirs
<1> QED
  BY <1>1, DirStepIsOne

LEMMA EntryInodes ==
  ASSUME NEW f, Sound(f), NEW z \in Entries(f)
  PROVE  /\ z[1] \in Dirs(f) /\ z[1] \in Inums /\ z[3] \in Inums /\ z[3] # Root
         /\ z = <<z[1], z[2], z[3]>>
<1>1. PICK d, n, i : z = <<d, n, i>>
  BY EntriesAreTriples
<1>2. z[1] = d /\ z[2] = n /\ z[3] = i
  BY <1>1
<1>3. d \in Dirs(f) /\ i \in Live(f) \ {Root}
  BY <1>1, EntriesInDirs
<1> QED
  BY <1>1, <1>2, <1>3 DEF Dirs, Live

\* A directory is the root or hangs from one that is.
LEMMA DirHangs ==
  ASSUME NEW f, Sound(f), HasNames(f), Rooted(f), NEW S \in SUBSET Inums, Closed(Entries(f), S), NEW d \in Dirs(f)
  PROVE  d \in S
<1>1. CASE d = Root
  BY <1>1 DEF Closed
<1>2. CASE d # Root
  <2>1. d \in Live(f) \ {Root}
    BY <1>2 DEF Live, Dirs
  <2>2. PICK a, b : <<a, b, d>> \in Entries(f)
    BY <2>1 DEF HasNames
  <2>3. PICK z : z = <<a, b, d>>
    OBVIOUS
  <2>4. z \in Entries(f) /\ z[3] = d
    BY <2>2, <2>3
  <2>5. z[1] \in S
    BY <2>4 DEF Rooted
  <2> QED
    BY <2>4, <2>5 DEF Closed
<1> QED
  BY <1>1, <1>2

\* A new entry hangs from a directory that was there.
LEMMA AddedRooted ==
  ASSUME NEW f, Sound(f), HasNames(f), Rooted(f), NEW g, NEW d \in Dirs(f), NEW n, NEW i,
         Entries(g) = Entries(f) \cup {<<d, n, i>>}
  PROVE  Rooted(g)
<1> SUFFICES ASSUME NEW S \in SUBSET Inums, Closed(Entries(g), S), NEW z \in Entries(g) PROVE z[1] \in S
  BY DEF Rooted
<1>1. Closed(Entries(f), S)
  BY DEF Closed
<1>2. CASE z \in Entries(f)
  BY <1>1, <1>2 DEF Rooted
<1>3. CASE z = <<d, n, i>>
  <2>1. z[1] = d
    BY <1>3
  <2> QED
    BY <1>1, <2>1, DirHangs
<1> QED
  BY <1>2, <1>3

\* What is removed holds nothing.
LEMMA RemovedRooted ==
  ASSUME NEW f, Sound(f), Rooted(f), NEW g, NEW d, NEW n, NEW i, Removed(f, g, d, n, i)
  PROVE  Rooted(g)
<1>1. /\ <<d, n, i>> \in Entries(f) /\ (\A b, k : <<i, b, k>> \notin Entries(f))
      /\ Entries(g) = Entries(f) \ {<<d, n, i>>}
  BY DEF Removed
<1>2. i \in Inums
  BY <1>1, EntriesInDirs DEF Live
<1>3. \A z \in Entries(f) : z[1] # i
  <2> SUFFICES ASSUME NEW z \in Entries(f), z[1] = i PROVE FALSE
    OBVIOUS
  <2>1. z = <<i, z[2], z[3]>>
    BY EntryInodes
  <2> QED
    BY <1>1, <2>1
<1> SUFFICES ASSUME NEW S \in SUBSET Inums, Closed(Entries(g), S), NEW z \in Entries(g) PROVE z[1] \in S
  BY DEF Rooted
<1>4. PICK T : T = S \cup {i}
  OBVIOUS
<1>5. ASSUME NEW y \in Entries(f), y[1] \in T PROVE y[3] \in T
  <2>1. y[1] \in S
    BY <1>3, <1>4, <1>5
  <2>2. CASE y = <<d, n, i>>
    BY <1>4, <2>2
  <2>3. CASE y # <<d, n, i>>
    BY <1>1, <1>4, <2>1, <2>3 DEF Closed
  <2> QED
    BY <2>2, <2>3
<1>6. T \in SUBSET Inums /\ Closed(Entries(f), T)
  BY <1>2, <1>4, <1>5 DEF Closed
<1>7. z \in Entries(f)
  BY <1>1
<1>8. z[1] \in T
  BY <1>6, <1>7 DEF Rooted
<1> QED
  BY <1>3, <1>4, <1>7, <1>8

\* A directory that is moved stays in the tree if its new place does not hang
\* from it.  What hung from a directory that is replaced has lost its name.
LEMMA RenamedRooted ==
  ASSUME NEW f, Sound(f), OneName(f), HasNames(f), Rooted(f), NEW g, HasNames(g),
         NEW c, NEW m, NEW d, NEW n, NEW i, Renamed(f, g, c, m, d, n, i), Clear(f, d, i)
  PROVE  Rooted(g)
<1>1. PICK R : R = Replaced(f, d, n)
  OBVIOUS
<1>2. PICK e, x : e = <<c, m, i>> /\ x = <<d, n, i>>
  OBVIOUS
<1>3. /\ e \in Entries(f) /\ x \notin Entries(f) /\ d \in Dirs(f) \ R /\ Dirs(g) = Dirs(f) \ R
      /\ \A z : z \in Entries(g) <=> AfterMove(Entries(f), R, c, m, d, n, i, z)
  BY <1>1, <1>2, Zenon DEF Renamed
<1>4. \A z : z \in Entries(g) <=>
        z = x \/ (z \in Entries(f) /\ z # e /\ ~(z[1] = d /\ z[2] = n) /\ z[1] \notin R)
  BY <1>2, <1>3, Zenon DEF AfterMove
<1>5. x[1] = d /\ x[2] = n /\ x[3] = i /\ e[1] = c /\ e[2] = m /\ e[3] = i
  BY <1>2
<1>6. \A k : k \in R <=> k \in Dirs(f) /\ <<d, n, k>> \in Entries(f)
  BY <1>1 DEF Replaced
<1>7. ASSUME NEW z \in Entries(f), z[1] \in R, z[3] \in Dirs(f) PROVE z[3] = i
  <2>1. SUFFICES ASSUME z[3] # i PROVE FALSE
    OBVIOUS
  <2>2. PICK j, b, k : j = z[1] /\ b = z[2] /\ k = z[3]
    OBVIOUS
  <2>3. <<j, b, k>> \in Entries(f) /\ k \in Dirs(f) /\ k # Root /\ j \in R /\ k # i
    BY <1>7, <2>1, <2>2, EntryInodes
  <2>4. k \notin R
    <3>1. SUFFICES ASSUME <<d, n, k>> \in Entries(f) PROVE FALSE
      BY <1>6
    <3>2. d = j
      BY <2>3, <3>1, DirEntryIsOne
    <3> QED
      BY <1>3, <2>3, <3>2
  <2>5. k \in Live(g) \ {Root}
    BY <1>3, <2>3, <2>4 DEF Dirs, Live
  <2>6. PICK a, l : <<a, l, k>> \in Entries(g)
    BY <2>5 DEF HasNames
  <2>7. PICK y : y = <<a, l, k>>
    OBVIOUS
  <2>8. y[1] = a /\ y[3] = k /\ y \in Entries(g)
    BY <2>6, <2>7
  <2>9. y # x
    BY <1>5, <2>3, <2>8
  <2>10. y \in Entries(f) /\ a \notin R
    BY <1>4, <2>8, <2>9
  <2>11. a = j
    BY <2>3, <2>7, <2>10, DirEntryIsOne
  <2> QED
    BY <2>3, <2>10, <2>11
<1> SUFFICES ASSUME NEW S \in SUBSET Inums, Closed(Entries(g), S), NEW z \in Entries(g) PROVE z[1] \in S
  BY DEF Rooted
<1>8. PICK T : T = S \cup R \cup (Inums \ Dirs(f))
  OBVIOUS
<1>9. T \in SUBSET Inums /\ Root \in T /\ S \subseteq T
  BY <1>6, <1>8 DEF Dirs, Closed
<1>10. ASSUME NEW y \in Entries(f), y[1] \in T, y[3] # i PROVE y[3] \in T
  <2>1. y[1] \in Dirs(f) /\ y[3] \in Inums /\ y = <<y[1], y[2], y[3]>>
    BY EntryInodes
  <2>2. CASE y[3] \notin Dirs(f)
    BY <1>8, <2>1, <2>2
  <2>3. CASE y[3] \in Dirs(f) /\ y[1] \in R
    BY <1>7, <1>10, <2>3
  <2>4. CASE y[3] \in Dirs(f) /\ y[1] \notin R
    <3>1. y[1] \in S
      BY <1>8, <1>10, <2>1, <2>4
    <3>2. CASE y[1] = d /\ y[2] = n
      BY <1>6, <1>8, <2>1, <2>4, <3>2
    <3>3. CASE ~(y[1] = d /\ y[2] = n)
      <4>1. y \in Entries(g)
        BY <1>4, <1>5, <1>10, <2>4, <3>3
      <4> QED
        BY <1>9, <3>1, <4>1 DEF Closed
    <3> QED
      BY <3>2, <3>3
  <2> QED
    BY <2>2, <2>3, <2>4
<1>11. d \in S /\ i \in S
  <2>1. d \in T
    BY <1>9, <1>10 DEF Clear
  <2>2. d \in S
    BY <1>3, <1>8, <2>1
  <2>3. x \in Entries(g)
    BY <1>4
  <2> QED
    BY <1>5, <2>2, <2>3 DEF Closed
<1>12. Closed(Entries(f), T)
  BY <1>9, <1>10, <1>11 DEF Closed
<1>13. CASE z = x
  BY <1>5, <1>11, <1>13
<1>14. CASE z # x
  <2>1. z \in Entries(f) /\ z[1] \notin R
    BY <1>4, <1>14
  <2>2. z[1] \in T /\ z[1] \in Dirs(f)
    BY <1>9, <1>12, <2>1, EntryInodes DEF Rooted
  <2> QED
    BY <1>8, <2>1, <2>2
<1> QED
  BY <1>13, <1>14

\* Whatever a call does to the names, they still hang from the root.
LEMMA PromisedRooted ==
  ASSUME NEW f, NEW g, Sound(f), OneName(f), HasNames(f), HasNames(g), Rooted(f), Promised(f, g)
  PROVE  Rooted(g)
<1>1. CASE Kept(f, g)
  BY <1>1 DEF Kept, Rooted
<1>2. ASSUME NEW d, NEW n, NEW i, Created(f, g, d, n, i) PROVE Rooted(g)
  <2>1. d \in Dirs(f) /\ Entries(g) = Entries(f) \cup {<<d, n, i>>}
    BY <1>2 DEF Created
  <2> QED
    BY <2>1, AddedRooted
<1>3. ASSUME NEW d, NEW n, NEW i, Linked(f, g, d, n, i) PROVE Rooted(g)
  <2>1. d \in Dirs(f) /\ Entries(g) = Entries(f) \cup {<<d, n, i>>}
    BY <1>3 DEF Linked
  <2> QED
    BY <2>1, AddedRooted
<1>4. ASSUME NEW d, NEW n, NEW i, Removed(f, g, d, n, i) PROVE Rooted(g)
  BY <1>4, RemovedRooted
<1>5. ASSUME NEW d, NEW n, NEW i, NEW c, NEW m, Renamed(f, g, c, m, d, n, i) PROVE Rooted(g)
  <2>1. Clear(f, d, i)
    BY <1>5 DEF Renamed
  <2> QED
    BY <1>5, <2>1, RenamedRooted
<1> QED
  BY <1>1, <1>2, <1>3, <1>4, <1>5, Zenon DEF Promised

LEMMA InitRooted == Init => Rooted(fs)
<1>1. Init => Entries(fs) = {}
  BY InitPromise DEF Promise!Init
<1> QED
  BY <1>1 DEF Rooted

\* What a rename has dropped stays dropped.
LEMMA DroppedStays ==
  ASSUME dropped \in BOOLEAN, [Next]_vars, ~dropped'
  PROVE  ~dropped
<1>1. ASSUME NEW p, Mknod(p) \/ Mkdir(p) \/ Symlink(p) \/ Getattr(p) \/ Chmod(p) \/ Readlink(p)
      PROVE  dropped' = dropped
  BY <1>1, Zenon DEF Mknod, Mkdir, Symlink, Getattr, Chmod, Readlink
<1>2. ASSUME NEW p, Unlink(p) \/ UnlinkOpen(p) \/ Rmdir(p)
      PROVE  dropped' = dropped
  BY <1>2, Zenon DEF Unlink, UnlinkOpen, Rmdir
<1>3. ASSUME NEW p, NEW q, Link(p, q) PROVE dropped' = dropped
  BY <1>3, Zenon DEF Link
<1>4. ASSUME NEW p, NEW q, Rename(p, q), dropped PROVE dropped'
  BY <1>4, Zenon DEF Rename
<1>5. ASSUME NEW p, Open(p) PROVE dropped' = dropped
  BY <1>5, Zenon DEF Open
<1>6. Release \/ Remount => dropped' = dropped
  BY Zenon DEF Release, Remount
<1>7. UNCHANGED vars => dropped' = dropped
  BY DEF vars
<1> QED
  BY <1>1, <1>2, <1>3, <1>4, <1>5, <1>6, <1>7, Zenon DEF Next

\* Unless a rename has replaced a directory with entries, all hangs from the root.
AllRooted == ~dropped => Rooted(fs)

THEOREM NothingAdrift == Spec => []AllRooted
<1>1. Init => AllRooted
  BY InitRooted DEF AllRooted
<1>2. IInv /\ IInv' /\ AllRooted /\ [Next]_vars => AllRooted'
  <2> SUFFICES ASSUME IInv, IInv', AllRooted, [Next]_vars, ~dropped' PROVE Rooted(fs')
    BY DEF AllRooted
  <2>1. ~dropped
    BY DroppedStays DEF IInv
  <2>2. PICK f, g : f = fs /\ g = fs'
    OBVIOUS
  <2>3. Sound(f) /\ OneName(f) /\ Exact(f) /\ Rooted(f)
    BY <2>1, <2>2 DEF IInv, AllRooted
  <2>4. Sound(fs') /\ OneName(fs') /\ Exact(fs')
    BY DEF IInv
  <2>5. Sound(g) /\ OneName(g) /\ Exact(g)
    BY <2>2, <2>4
  <2>6. Promised(f, g)
    BY <2>2, StepPromised
  <2>7. HasNames(f) /\ HasNames(g)
    BY <2>3, <2>5, CountedHasNames
  <2>8. Rooted(g)
    BY <2>3, <2>6, <2>7, PromisedRooted
  <2> QED
    BY <2>2, <2>8
<1> QED
  BY <1>1, <1>2, FileSystemInvariant, PTL DEF Spec

\* A map that takes no two elements to one counts as many.
LEMMA SameSize ==
  ASSUME NEW S, NEW T, IsFiniteSet(S), NEW m \in [S -> T], \A t \in T : \E s \in S : m[s] = t
  PROVE  /\ IsFiniteSet(T)
         /\ (\A s, u \in S : m[s] = m[u] => s = u) => Cardinality(T) = Cardinality(S)
<1>1. m \in Surjection(S, T)
  BY Zenon DEF Surjection
<1>2. (\A s, u \in S : m[s] = m[u] => s = u) => m \in Injection(S, T)
  BY Zenon DEF Injection, IsInjective
<1> QED
  BY <1>1, <1>2, FS_Surjection

\* There are no more entries than places in directories.
LEMMA FiniteEntries ==
  ASSUME NEW f, Sound(f)
  PROVE  IsFiniteSet(Entries(f)) /\ IsFiniteSet(Dirs(f))
<1>1. f \in Disks
  BY DEF Sound
<1>2. IsFiniteSet(Inums)
  BY FreeIs, FS_AddElement DEF Inums
<1>3. IsFiniteSet(Dirs(f))
  BY <1>2, FS_Subset DEF Dirs
<1>4. IsFiniteSet(Inums \X Cells)
  BY <1>1, <1>2, FiniteSlots, FS_Product
<1>5. PICK P : P = {y \in Inums \X Cells : <<y[1], Ent(f, y[2]).name, Ent(f, y[2]).inum>> \in Entries(f)}
  OBVIOUS
<1>6. P \subseteq Inums \X Cells
  BY <1>5
<1>7. IsFiniteSet(P)
  BY <1>4, <1>6, FS_Subset
<1>8. PICK m : m = [y \in P |-> <<y[1], Ent(f, y[2]).name, Ent(f, y[2]).inum>>]
  OBVIOUS
<1>9. m \in [P -> Entries(f)]
  BY <1>5, <1>8
<1>10. ASSUME NEW z \in Entries(f) PROVE \E y \in P : m[y] = z
  <2>1. PICK d \in Dirs(f), n \in AllNames, i \in Live(f) \ {Root} : z = <<d, n, i>> /\ Step(f, d, n, i)
    BY EntriesAre
  <2>2. PICK s \in Places(f, d) : Holds(f, s, n, i)
    BY <2>1 DEF Step
  <2>3. d \in Inums /\ s \in Cells
    BY <1>1, <2>2, PlaceIs DEF Dirs
  <2>4. Ent(f, s).name = n /\ Ent(f, s).inum = i
    BY <2>2 DEF Holds
  <2>5. PICK y : y = <<d, s>>
    OBVIOUS
  <2>6. y \in Inums \X Cells /\ y[1] = d /\ y[2] = s
    BY <2>3, <2>5
  <2>7. <<y[1], Ent(f, y[2]).name, Ent(f, y[2]).inum>> = z
    BY <2>1, <2>4, <2>6
  <2>8. y \in P
    BY <1>5, <2>6, <2>7
  <2>9. m[y] = z
    BY <1>8, <2>7, <2>8
  <2> QED
    BY <2>8, <2>9
<1>11. IsFiniteSet(Entries(f))
  BY <1>7, <1>9, <1>10, SameSize
<1> QED
  BY <1>3, <1>11

\* No name is in a directory twice.
LEMMA NamesDiffer ==
  ASSUME NEW f, Sound(f)
  PROVE  Cardinality({<<e[1], e[2]>> : e \in Entries(f)}) = Cardinality(Entries(f))
<1>1. PICK E, T : E = Entries(f) /\ T = {<<e[1], e[2]>> : e \in E}
  OBVIOUS
<1>2. PICK m : m = [e \in E |-> <<e[1], e[2]>>]
  OBVIOUS
<1>3. m \in [E -> T] /\ \A t \in T : \E s \in E : m[s] = t
  BY <1>1, <1>2
<1>4. ASSUME NEW s \in E, NEW u \in E, m[s] = m[u] PROVE s = u
  <2>1. PICK d \in Dirs(f), n \in AllNames, i \in Live(f) \ {Root} : s = <<d, n, i>> /\ Step(f, d, n, i)
    BY <1>1, EntriesAre
  <2>2. PICK c \in Dirs(f), k \in AllNames, j \in Live(f) \ {Root} : u = <<c, k, j>> /\ Step(f, c, k, j)
    BY <1>1, EntriesAre
  <2>3. m[s] = <<d, n>> /\ m[u] = <<c, k>>
    BY <1>2, <2>1, <2>2
  <2>4. <<d, n>> = <<c, k>>
    BY <1>4, <2>3, Zenon
  <2>5. d = c /\ n = k
    BY <2>4
  <2>6. i = j
    BY <2>1, <2>2, <2>5, StepIsOne
  <2> QED
    BY <2>1, <2>2, <2>5, <2>6
<1>5. IsFiniteSet(E)
  BY <1>1, FiniteEntries
<1>6. Cardinality(T) = Cardinality(E)
  BY <1>3, <1>4, <1>5, SameSize
<1> QED
  BY <1>1, <1>6

\* What the directories of S have entries for.
Below(E, S) == {e[3] : e \in {x \in E : x[1] \in S}}

ReachRule(E, m, g) == [k \in 0..m |-> IF k = 0 THEN {Root} ELSE g[k-1] \cup Below(E, g[k-1])]

LEMMA ReachTurns ==
  ASSUME NEW E, NEW m \in Nat
  PROVE  \E g : g = ReachRule(E, m, g)
<1> DEFINE P == {k \in Nat : \E g : g = ReachRule(E, k, g)}
<1>1. 0 \in P
  <2>1. PICK g : g = [n \in 0..0 |-> {Root}]
    OBVIOUS
  <2>2. g = ReachRule(E, 0, g)
    BY <2>1 DEF ReachRule
  <2> QED
    BY <2>2
<1>2. ASSUME NEW k \in Nat, k \in P PROVE k + 1 \in P
  <2>1. PICK g : g = ReachRule(E, k, g)
    BY <1>2
  <2>2. PICK h : h = [n \in 0..k+1 |-> IF n = k + 1 THEN g[k] \cup Below(E, g[k]) ELSE g[n]]
    OBVIOUS
  <2>3. \A n \in 0..k : h[n] = g[n]
    BY <2>2
  <2>4. ASSUME NEW n \in 0..k+1
        PROVE  h[n] = IF n = 0 THEN {Root} ELSE h[n-1] \cup Below(E, h[n-1])
    <3>1. CASE n = k + 1
      <4>1. h[n] = g[k] \cup Below(E, g[k])
        BY <2>2, <3>1
      <4>2. n # 0 /\ n - 1 = k /\ k \in 0..k
        BY <3>1
      <4>3. h[n - 1] = g[k]
        BY <2>3, <4>2
      <4> QED
        BY <4>1, <4>2, <4>3, Zenon
    <3>2. CASE n # k + 1
      <4>1. n \in 0..k
        BY <3>2
      <4>2. g[n] = IF n = 0 THEN {Root} ELSE g[n-1] \cup Below(E, g[n-1])
        BY <2>1, <4>1 DEF ReachRule
      <4>3. n # 0 => n - 1 \in 0..k
        BY <4>1
      <4>4. n # 0 => h[n - 1] = g[n - 1]
        BY <2>3, <4>3
      <4>5. h[n] = g[n]
        BY <2>3, <4>1
      <4> QED
        BY <4>2, <4>4, <4>5, Zenon
    <3> QED
      BY <3>1, <3>2
  <2>5. h = ReachRule(E, k + 1, h)
    BY <2>2, <2>4 DEF ReachRule
  <2> QED
    BY <2>5
<1> HIDE DEF P
<1>3. Nat \subseteq P
  BY <1>1, <1>2, SetInduction
<1> QED
  BY <1>3 DEF P

\* With each turn another directory is reached, or nothing is left to reach.
LEMMA ReachGrows ==
  ASSUME NEW f, Sound(f), NEW E, E = Entries(f), NEW m \in Nat, NEW g, g = ReachRule(E, m, g), NEW k \in 0..m
  PROVE  /\ Root \in g[k] /\ g[k] \subseteq Live(f)
         /\ Cardinality(g[k] \cap Dirs(f)) >= k + 1 \/ Closed(E, g[k])
<1> DEFINE Good(n) == /\ Root \in g[n] /\ g[n] \subseteq Live(f)
                      /\ Cardinality(g[n] \cap Dirs(f)) >= n + 1 \/ Closed(E, g[n])
           P == {n \in Nat : n \in 0..m => Good(n)}
<1>1. Root \in Dirs(f) /\ Dirs(f) \subseteq Live(f) /\ IsFiniteSet(Dirs(f))
  BY FiniteEntries, RootIs, DiskIs DEF Sound
<1>2. 0 \in P
  <2>1. 0 \in 0..m
    OBVIOUS
  <2>2. g[0] = {Root}
    BY <2>1, Zenon DEF ReachRule
  <2>3. g[0] \cap Dirs(f) = {Root}
    BY <1>1, <2>2
  <2>4. Cardinality({Root}) = 1
    BY FS_Singleton
  <2>5. Good(0)
    BY <1>1, <2>2, <2>3, <2>4
  <2> QED
    BY <2>5
<1>3. ASSUME NEW n \in Nat, n \in P PROVE n + 1 \in P
  <2> SUFFICES ASSUME n + 1 \in 0..m PROVE Good(n + 1)
    OBVIOUS
  <2>1. n \in 0..m /\ n + 1 # 0 /\ (n + 1) - 1 = n
    OBVIOUS
  <2>2. Good(n)
    BY <1>3, <2>1
  <2>3. PICK A, B : A = g[n] /\ B = g[n + 1]
    OBVIOUS
  <2>4. B = A \cup Below(E, A)
    <3>1. PICK l : l = n + 1
      OBVIOUS
    <3>2. l \in 0..m /\ l # 0 /\ l - 1 = n
      BY <2>1, <3>1
    <3>3. g[l] = IF l = 0 THEN {Root} ELSE g[l-1] \cup Below(E, g[l-1])
      BY <3>2 DEF ReachRule
    <3> QED
      BY <2>3, <3>1, <3>2, <3>3
  <2>5. \A y : y \in B <=> y \in A \/ \E z \in E : z[1] \in A /\ z[3] = y
    BY <2>4 DEF Below
  <2>6. \A z \in E : z[1] \in Dirs(f) /\ z[3] \in Live(f)
    <3> SUFFICES ASSUME NEW z \in E PROVE z[1] \in Dirs(f) /\ z[3] \in Live(f)
      OBVIOUS
    <3>1. PICK d \in Dirs(f), a \in AllNames, i \in Live(f) \ {Root} : z = <<d, a, i>> /\ Step(f, d, a, i)
      BY EntriesAre
    <3> QED
      BY <3>1
  <2>7. Root \in B /\ B \subseteq Live(f)
    BY <2>2, <2>3, <2>5, <2>6
  <2>8. CASE Closed(E, A)
    <3>1. B = A
      BY <2>5, <2>8 DEF Closed
    <3> QED
      BY <2>2, <2>3, <2>8, <3>1
  <2>9. CASE Cardinality(A \cap Dirs(f)) >= n + 1
    <3>1. PICK V, W : V = A \cap Dirs(f) /\ W = B \cap Dirs(f)
      OBVIOUS
    <3>2. V \subseteq W /\ V \subseteq Dirs(f) /\ W \subseteq Dirs(f)
      BY <2>5, <3>1
    <3>3. IsFiniteSet(V) /\ IsFiniteSet(W)
      BY <1>1, <3>2, FS_Subset
    <3>4. /\ Cardinality(V) \in Nat /\ Cardinality(W) \in Nat /\ Cardinality(V) <= Cardinality(W)
          /\ Cardinality(V) = Cardinality(W) => V = W
      BY <3>2, <3>3, FS_Subset, FS_CardinalityType
    <3>5. CASE V = W
      <4>1. ASSUME NEW z \in E, z[1] \in B PROVE z[3] \in B
        <5>1. z[1] \in A
          BY <2>6, <3>1, <3>5, <4>1
        <5> QED
          BY <2>5, <5>1
      <4>2. Closed(E, B)
        BY <2>7, <4>1 DEF Closed
      <4> QED
        BY <2>3, <2>7, <4>2
    <3>6. CASE V # W
      <4>1. Cardinality(V) >= n + 1
        BY <2>9, <3>1
      <4>2. Cardinality(W) >= (n + 1) + 1
        BY <3>4, <3>6, <4>1
      <4> QED
        BY <2>3, <2>7, <3>1, <4>2
    <3> QED
      BY <3>5, <3>6
  <2> QED
    BY <2>2, <2>3, <2>8, <2>9
<1> HIDE DEF P
<1>4. Nat \subseteq P
  BY <1>2, <1>3, SetInduction
<1> QED
  BY <1>4 DEF P

\* In as many turns as there are directories everything is reached.
LEMMA AllReached ==
  ASSUME NEW f, Sound(f), HasNames(f), Rooted(f), NEW E, E = Entries(f),
         NEW m, m = Cardinality(Dirs(f)), NEW g, g = ReachRule(E, m, g)
  PROVE  Live(f) = g[m]
<1>1. IsFiniteSet(Dirs(f)) /\ m \in Nat /\ m \in 0..m
  BY FiniteEntries, FS_CardinalityType
<1>2. PICK R : R = g[m]
  OBVIOUS
<1>3. /\ Root \in R /\ R \subseteq Live(f)
      /\ Cardinality(R \cap Dirs(f)) >= m + 1 \/ Closed(E, R)
  BY <1>1, <1>2, ReachGrows
<1>4. PICK V : V = R \cap Dirs(f)
  OBVIOUS
<1>5. V \subseteq Dirs(f)
  BY <1>4
<1>6. Cardinality(V) <= m /\ Cardinality(V) \in Nat
  BY <1>1, <1>5, FS_Subset, FS_CardinalityType
<1>7. Closed(E, R)
  BY <1>1, <1>3, <1>4, <1>6
<1>8. R \in SUBSET Inums
  BY <1>3 DEF Live
<1>9. ASSUME NEW i \in Live(f) PROVE i \in R
  <2>1. CASE i = Root
    BY <1>3, <2>1
  <2>2. CASE i # Root
    <3>1. PICK a, b : <<a, b, i>> \in Entries(f)
      BY <2>2 DEF HasNames
    <3>2. PICK z : z = <<a, b, i>>
      OBVIOUS
    <3>3. z \in E /\ z[3] = i
      BY <3>1, <3>2
    <3>4. z[1] \in R
      BY <1>7, <1>8, <3>3 DEF Rooted
    <3> QED
      BY <1>7, <3>3, <3>4 DEF Closed
  <2> QED
    BY <2>1, <2>2
<1> QED
  BY <1>2, <1>3, <1>9

\* A directory has one slot, the root has none.
LEMMA DirSlots ==
  ASSUME NEW f, Sound(f), OneName(f), NEW i \in Dirs(f)
  PROVE  Cardinality(SlotsOf(f, i)) <= 1
<1>1. CASE i = Root
  <2>1. SlotsOf(f, i) = {}
    BY <1>1, Basics, NoSlotsOfRoot
  <2> QED
    BY <2>1, FS_EmptySet
<1>2. CASE i # Root
  <2>1. i \in Live(f) \ {Root} /\ i \in Dirs(f) \ {Root}
    BY <1>2 DEF Live, Dirs
  <2>2. f.inode[i].nlink = 1
    BY <2>1 DEF OneName
  <2>3. Cardinality(SlotsOf(f, i)) <= f.inode[i].nlink
    BY <2>1 DEF Sound, Links
  <2> QED
    BY <2>2, <2>3
<1> QED
  BY <1>1, <1>2

LEMMA TreeIs ==
  ASSUME IInv, AllRooted
  PROVE  NameSpaceIsTree
<1>1. Sound(fs) /\ OneName(fs)
  BY DEF IInv
<1>2. PICK E, m : E = Entries(fs) /\ m = Cardinality(Dirs(fs))
  OBVIOUS
<1>3. Cardinality({<<e[1], e[2]>> : e \in E}) = Cardinality(E)
  BY <1>1, <1>2, NamesDiffer
<1>4. \A e \in E : e[3] \in Live(fs) \ {Root}
  <2> SUFFICES ASSUME NEW e \in E PROVE e[3] \in Live(fs) \ {Root}
    OBVIOUS
  <2>1. PICK d \in Dirs(fs), a \in AllNames, i \in Live(fs) \ {Root} : e = <<d, a, i>> /\ Step(fs, d, a, i)
    BY <1>1, <1>2, EntriesAre
  <2> QED
    BY <2>1
<1>5. \A i \in Dirs(fs) : Cardinality(SlotsOf(fs, i)) <= 1
  BY <1>1, DirSlots
<1>6. PICK g : g = CHOOSE h : h = ReachRule(E, m, h)
  OBVIOUS
<1>7. g = ReachRule(E, m, g)
  <2>1. m \in Nat
    BY <1>1, <1>2, FiniteEntries, FS_CardinalityType
  <2>2. \E h : h = ReachRule(E, m, h)
    BY <2>1, ReachTurns
  <2> QED
    BY <1>6, <2>2, Zenon
<1>8. ~dropped => Live(fs) = g[m]
  <2> SUFFICES ASSUME ~dropped PROVE Live(fs) = g[m]
    OBVIOUS
  <2>1. Exact(fs) /\ Rooted(fs)
    BY DEF IInv, AllRooted
  <2>2. HasNames(fs)
    BY <1>1, <2>1, CountedHasNames
  <2> QED
    BY <1>1, <1>2, <1>7, <2>1, <2>2, AllReached
<1> QED
  BY <1>2, <1>3, <1>4, <1>5, <1>6, <1>8, Zenon DEF NameSpaceIsTree, ReachRule, Below

\* Whatever is made, linked, moved and removed, no name is in a directory twice,
\* every name leads to an inode, a directory has one name, and everything hangs
\* from the root, unless a rename has replaced a directory with entries.
THEOREM NamesFormTree == Spec => []NameSpaceIsTree
<1>1. IInv /\ AllRooted => NameSpaceIsTree
  BY TreeIs
<1> QED
  BY <1>1, FileSystemInvariant, NothingAdrift, PTL
=============================================================================
