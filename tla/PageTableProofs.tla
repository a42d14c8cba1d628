--------------------------- MODULE PageTableProofs ---------------------------
(***************************************************************************)
(* Proofs about PageTable.tla: the tables are a tree, walks and the cached *)
(* table are right, and the tables implement the flat mapping, for tables  *)
(* of any size and every sequence of calls.                                *)
(***************************************************************************)
EXTENDS PageTableInv, PageTableImplements, FiniteSetTheorems, TLAPS

-----------------------------------------------------------------------------
(* Indices *)

LEMMA DivMod ==
  ASSUME NEW a \in Nat, NEW m \in Nat, m > 0
  PROVE  a \div m \in Nat /\ a % m \in 0..m-1 /\ a = m * (a \div m) + (a % m)
OBVIOUS

\* Quotient and remainder are unique.
LEMMA DivUnique ==
  ASSUME NEW m \in Nat, m > 0, NEW s \in Nat, NEW z \in 0..m-1, NEW a \in Nat, a = m * s + z
  PROVE  a \div m = s /\ a % m = z
<1> DEFINE q == a \div m
           r == a % m
<1>1. q \in Nat /\ r \in 0..m-1 /\ a = m * q + r
  BY DivMod
<1> HIDE DEF q, r
<1>2. ~(q < s)
  <2> SUFFICES ASSUME q < s PROVE FALSE
    OBVIOUS
  <2>1. PICK k \in Nat : s = q + 1 + k
    <3>1. s - q - 1 \in Nat /\ s = q + 1 + (s - q - 1)
      BY <1>1
    <3> QED
      BY <3>1
  <2>2. m * s = m * q + m + m * k /\ m * k >= 0 /\ m * q \in Nat /\ m * k \in Nat
    BY <1>1, <2>1
  <2> QED
    BY <1>1, <2>2
<1>3. ~(s < q)
  <2> SUFFICES ASSUME s < q PROVE FALSE
    OBVIOUS
  <2>1. PICK k \in Nat : q = s + 1 + k
    <3>1. q - s - 1 \in Nat /\ q = s + 1 + (q - s - 1)
      BY <1>1
    <3> QED
      BY <3>1
  <2>2. m * q = m * s + m + m * k /\ m * k >= 0 /\ m * s \in Nat /\ m * k \in Nat
    BY <1>1, <2>1
  <2> QED
    BY <1>1, <2>2
<1>4. q = s
  BY <1>1, <1>2, <1>3
<1>5. m * q = m * s /\ m * q \in Nat
  BY <1>1, <1>4
<1>6. r = z
  BY <1>1, <1>5
<1> QED
  BY <1>4, <1>6 DEF q, r

LEMMA DivDiv ==
  ASSUME NEW a \in Nat, NEW m \in Nat, m > 0, NEW n \in Nat, n > 0
  PROVE  a \div (m * n) = (a \div m) \div n
<1> DEFINE q == a \div m
           r == a % m
           s == q \div n
           t == q % n
<1>1. q \in Nat /\ r \in 0..m-1 /\ a = m * q + r
  BY DivMod
<1>2. s \in Nat /\ t \in 0..n-1 /\ q = n * s + t
  BY <1>1, DivMod
<1> HIDE DEF q, r, s, t
<1>3. m * q = (m * n) * s + m * t /\ (m * n) * s \in Nat /\ m * t \in Nat /\ m * n \in Nat
  <2>1. m * q = m * (n * s) + m * t
    BY <1>2
  <2>2. m * (n * s) = (m * n) * s
    BY <1>2
  <2> QED
    BY <1>2, <2>1, <2>2
<1>4. PICK k \in Nat : n = t + 1 + k
  <2>1. n - t - 1 \in Nat /\ n = t + 1 + (n - t - 1)
    BY <1>2
  <2> QED
    BY <2>1
<1>5. m * n = m * t + m + m * k /\ m * k \in Nat
  BY <1>2, <1>4
<1>6. m * t + r \in 0..(m * n)-1 /\ m * n > 0
  <2>1. PICK x, y, z : x = m * t /\ y = m * n /\ z = m * k
    OBVIOUS
  <2>2. x \in Nat /\ z \in Nat /\ y = x + m + z
    BY <1>3, <1>5, <2>1
  <2>3. x + r \in 0..y-1 /\ y > 0
    BY <1>1, <2>2
  <2> QED
    BY <2>1, <2>3
<1>7. a = (m * n) * s + (m * t + r)
  <2>1. PICK u, v, w : u = m * q /\ v = (m * n) * s /\ w = m * t
    OBVIOUS
  <2>2. v \in Nat /\ w \in Nat /\ r \in Nat /\ u = v + w /\ a = u + r
    BY <1>1, <1>3, <2>1
  <2>3. a = v + (w + r)
    BY <2>2
  <2> QED
    BY <2>1, <2>3
<1> HIDE DEF q
<1>8. a \div (m * n) = s
  BY <1>2, <1>3, <1>6, <1>7, DivUnique
<1> QED
  BY <1>8 DEF s, q

LEMMA Sizes ==
  /\ NENTRIES \in Nat /\ NENTRIES >= 2
  /\ NPages \in Nat /\ NPages <= 2 * NENTRIES /\ MaxPages \in Nat
  /\ 0 \in Index /\ 1 \in Index
  /\ \A i \in 1..5 : KernelTables[i] \in TablePages /\ KernelTables[i] \in PhysPages
  /\ TablePages \subseteq PhysPages /\ NULL \notin TablePages
  /\ kernel_pagetable \in TablePages /\ NPages > 0
<1>1. KernelTables[1] \in PhysPages /\ NPages \in Nat
  BY SizeAssumption, TableAssumption
<1>2. NPages > 0
  BY <1>1 DEF PhysPages
<1>3. \A i \in 1..5 : KernelTables[i] \in TablePages /\ KernelTables[i] \in PhysPages
  BY TableAssumption DEF TablePages
<1>4. TablePages \subseteq PhysPages
  BY TableAssumption DEF TablePages
<1>5. NULL \notin TablePages
  BY <1>4 DEF NULL, PhysPages
<1>6. 0 \in Index /\ 1 \in Index
  BY SizeAssumption DEF Index
<1>7. kernel_pagetable \in TablePages
  BY <1>3 DEF kernel_pagetable
<1> QED
  BY <1>2, <1>3, <1>4, <1>5, <1>6, <1>7, SizeAssumption

\* pageindex(), level by level, from the number of the span va lies in.
LEMMA IndexSplit ==
  ASSUME NEW va \in Nat
  PROVE  /\ va \div NENTRIES \in Nat
         /\ PageIndex(va, 0) = ((va \div NENTRIES) \div NENTRIES) \div NENTRIES
         /\ PageIndex(va, 1) = ((va \div NENTRIES) \div NENTRIES) % NENTRIES
         /\ PageIndex(va, 2) = (va \div NENTRIES) % NENTRIES
         /\ PageIndex(va, 3) = va % NENTRIES
<1> DEFINE N == NENTRIES
<1>1. N \in Nat /\ N > 0 /\ N * N \in Nat /\ N * N > 0
  BY Sizes
<1> HIDE DEF N
<1>2. va \div N \in Nat
  BY <1>1, DivMod
<1>3. va \div (N * N) = (va \div N) \div N
  BY <1>1, DivDiv
<1>4. va \div ((N * N) * N) = (va \div (N * N)) \div N
  BY <1>1, DivDiv
<1> QED
  BY <1>2, <1>3, <1>4 DEF PageIndex, N

\* Two pages with the same indices are the same; with the same first three, they
\* are in the same span, and the other way round.
LEMMA IndexUnique ==
  ASSUME NEW va \in Nat, NEW vb \in Nat
  PROVE  /\ va \div NENTRIES = vb \div NENTRIES <=>
              \A lev \in 0..2 : PageIndex(va, lev) = PageIndex(vb, lev)
         /\ (\A lev \in 0..3 : PageIndex(va, lev) = PageIndex(vb, lev)) => va = vb
<1> DEFINE N == NENTRIES
           Cut(x) == x \div N
<1>1. N \in Nat /\ N > 0
  BY Sizes
<1>2. ASSUME NEW x \in Nat, NEW y \in Nat, Cut(x) = Cut(y), x % N = y % N
      PROVE  x = y
  BY <1>1, <1>2, DivMod
<1>3. \A x \in Nat : Cut(x) \in Nat
  BY <1>1, DivMod
<1> HIDE DEF N, Cut
<1>4. /\ PageIndex(va, 0) = Cut(Cut(Cut(va))) /\ PageIndex(vb, 0) = Cut(Cut(Cut(vb)))
      /\ PageIndex(va, 1) = Cut(Cut(va)) % N /\ PageIndex(vb, 1) = Cut(Cut(vb)) % N
      /\ PageIndex(va, 2) = Cut(va) % N /\ PageIndex(vb, 2) = Cut(vb) % N
      /\ PageIndex(va, 3) = va % N /\ PageIndex(vb, 3) = vb % N
  BY IndexSplit DEF N, Cut
<1>5. ASSUME Cut(va) = Cut(vb)
      PROVE  \A lev \in 0..2 : PageIndex(va, lev) = PageIndex(vb, lev)
  <2> SUFFICES ASSUME NEW lev \in 0..2 PROVE PageIndex(va, lev) = PageIndex(vb, lev)
    OBVIOUS
  <2>1. lev = 0 \/ lev = 1 \/ lev = 2
    OBVIOUS
  <2> QED
    BY <1>4, <1>5, <2>1
<1>6. ASSUME \A lev \in 0..2 : PageIndex(va, lev) = PageIndex(vb, lev)
      PROVE  Cut(va) = Cut(vb)
  <2>1. /\ Cut(Cut(Cut(va))) = Cut(Cut(Cut(vb))) /\ Cut(Cut(va)) % N = Cut(Cut(vb)) % N
        /\ Cut(va) % N = Cut(vb) % N
    BY <1>4, <1>6
  <2>2. Cut(Cut(va)) = Cut(Cut(vb))
    BY <1>2, <1>3, <2>1
  <2> QED
    BY <1>2, <1>3, <2>1, <2>2
<1>7. ASSUME \A lev \in 0..3 : PageIndex(va, lev) = PageIndex(vb, lev)
      PROVE  va = vb
  <2>1. Cut(va) = Cut(vb) /\ va % N = vb % N
    BY <1>4, <1>6, <1>7
  <2> QED
    BY <1>2, <2>1
<1> QED
  BY <1>5, <1>6, <1>7 DEF Cut, N

LEMMA IndexRange ==
  ASSUME NEW va \in VPages, NEW lev \in 0..3
  PROVE  PageIndex(va, lev) \in Index
<1> DEFINE N == NENTRIES
           M == N * N * N
<1>1. N \in Nat /\ N > 0 /\ M \in Nat /\ M > 0 /\ va \in Nat /\ va < M * N
  BY Sizes DEF VPages
<1>2. \A x \in Nat : x % N \in 0..N-1
  BY <1>1
<1>3. CASE lev = 0
  <2> DEFINE q == va \div M
             r == va % M
  <2>1. q \in Nat /\ r \in 0..M-1 /\ va = M * q + r
    BY <1>1, DivMod
  <2>2. PageIndex(va, lev) = q
    BY <1>3 DEF PageIndex
  <2> HIDE DEF q, r, M, N
  <2>3. q < N
    <3> SUFFICES ASSUME q >= N PROVE FALSE
      BY <1>1, <2>1
    <3>1. PICK k \in Nat : q = N + k
      <4>1. q - N \in Nat /\ q = N + (q - N)
        BY <1>1, <2>1
      <4> QED
        BY <4>1
    <3>2. M * q = M * N + M * k /\ M * k \in Nat /\ M * N \in Nat
      BY <1>1, <3>1
    <3> QED
      BY <1>1, <2>1, <3>2
  <2> QED
    BY <1>1, <2>1, <2>2, <2>3 DEF Index, N
<1>4. CASE lev # 0
  <2>1. va \div N \in Nat /\ (va \div N) \div N \in Nat
    BY <1>1, DivMod
  <2>2. \/ PageIndex(va, lev) = va % N
        \/ PageIndex(va, lev) = (va \div N) % N
        \/ PageIndex(va, lev) = ((va \div N) \div N) % N
    <3>1. lev = 1 \/ lev = 2 \/ lev = 3
      BY <1>4
    <3> QED
      BY <1>1, <3>1, IndexSplit
  <2> HIDE DEF N
  <2>3. PageIndex(va, lev) \in 0..N-1
    BY <1>1, <1>2, <2>1, <2>2
  <2> QED
    BY <2>3 DEF Index, N
<1> QED
  BY <1>3, <1>4

\* Where the pages of the kernel's own tables lie.
LEMMA LowIndex ==
  ASSUME NEW va \in Nat
  PROVE  /\ va >= 2 * NENTRIES <=> va \div NENTRIES >= 2
         /\ va < 2 * NENTRIES =>
              /\ PageIndex(va, 0) = 0 /\ PageIndex(va, 1) = 0
              /\ PageIndex(va, 2) \in {0, 1}
<1> DEFINE N == NENTRIES
           q == va \div N
           r == va % N
<1>1. N \in Nat /\ N >= 2
  BY Sizes
<1>2. q \in Nat /\ r \in 0..N-1 /\ va = N * q + r
  BY <1>1, DivMod
<1>3. /\ PageIndex(va, 0) = (q \div N) \div N /\ PageIndex(va, 1) = (q \div N) % N
      /\ PageIndex(va, 2) = q % N
  BY IndexSplit
<1> HIDE DEF q, r
<1>4. q >= 2 => va >= 2 * N
  <2> SUFFICES ASSUME q >= 2 PROVE va >= 2 * N
    OBVIOUS
  <2>1. PICK k \in Nat : q = 2 + k
    <3>1. q - 2 \in Nat /\ q = 2 + (q - 2)
      BY <1>2
    <3> QED
      BY <3>1
  <2>2. N * q = 2 * N + N * k /\ N * k \in Nat
    BY <1>1, <2>1
  <2> QED
    BY <1>1, <1>2, <2>2
<1>5. q \in {0, 1} => va < 2 * N
  <2>1. N * 0 = 0 /\ N * 1 = N
    BY <1>1
  <2> QED
    BY <1>1, <1>2, <2>1
<1>6. q >= 2 \/ q \in {0, 1}
  BY <1>2
<1>7. ASSUME q \in {0, 1}
      PROVE  /\ PageIndex(va, 0) = 0 /\ PageIndex(va, 1) = 0
             /\ PageIndex(va, 2) \in {0, 1}
  <2>1. q = N * 0 + q /\ q \in 0..N-1 /\ 0 = N * 0 + 0 /\ 0 \in 0..N-1 /\ N > 0 /\ N \in Nat
    BY <1>1, <1>2, <1>7
  <2>2. q \div N = 0 /\ q % N = q
    BY <1>2, <2>1, DivUnique
  <2>3. 0 \div N = 0 /\ 0 % N = 0
    BY <2>1, DivUnique
  <2> QED
    BY <1>3, <1>7, <2>2, <2>3
<1>8. va >= 2 * N <=> q >= 2
  BY <1>1, <1>2, <1>4, <1>5, <1>6
<1> QED
  BY <1>1, <1>2, <1>6, <1>7, <1>8, <1>4 DEF q

-----------------------------------------------------------------------------
(* Walks *)

Depths == [TablePages -> 0..3]

\* What a walk meets is a link from each depth to the next.
PathFacts ==
  \A depth \in Depths, va \in VPages : TypeOK /\ Tree(depth) =>
    /\ Present(Entry0(va)) =>
         /\ IsLink(depth, kernel_pagetable, PageIndex(va, 0))
         /\ Entry0(va).pn \in used /\ depth[Entry0(va).pn] = 1 /\ Entry0(va).perm = All
    /\ Present(Entry0(va)) /\ Present(Entry1(va)) =>
         /\ IsLink(depth, Entry0(va).pn, PageIndex(va, 1))
         /\ Entry1(va).pn \in used /\ depth[Entry1(va).pn] = 2 /\ Entry1(va).perm = All
    /\ Present(Entry0(va)) /\ Present(Entry1(va)) /\ Present(Entry2(va)) =>
         /\ IsLink(depth, Entry1(va).pn, PageIndex(va, 2))
         /\ Entry2(va).pn \in used /\ depth[Entry2(va).pn] = 3 /\ Entry2(va).perm = All

LEMMA Paths == PathFacts
<1> SUFFICES ASSUME NEW depth \in Depths, NEW va \in VPages, TypeOK, Tree(depth)
             PROVE
    /\ Present(Entry0(va)) =>
         /\ IsLink(depth, kernel_pagetable, PageIndex(va, 0))
         /\ Entry0(va).pn \in used /\ depth[Entry0(va).pn] = 1 /\ Entry0(va).perm = All
    /\ Present(Entry0(va)) /\ Present(Entry1(va)) =>
         /\ IsLink(depth, Entry0(va).pn, PageIndex(va, 1))
         /\ Entry1(va).pn \in used /\ depth[Entry1(va).pn] = 2 /\ Entry1(va).perm = All
    /\ Present(Entry0(va)) /\ Present(Entry1(va)) /\ Present(Entry2(va)) =>
         /\ IsLink(depth, Entry1(va).pn, PageIndex(va, 2))
         /\ Entry2(va).pn \in used /\ depth[Entry2(va).pn] = 3 /\ Entry2(va).perm = All
  BY DEF PathFacts
<1>1. PageIndex(va, 0) \in Index /\ PageIndex(va, 1) \in Index /\ PageIndex(va, 2) \in Index
  BY IndexRange
<1>2. ASSUME NEW t \in used, NEW lev \in 0..2, depth[t] = lev,
             Present(table[t][PageIndex(va, lev)])
      PROVE  LET e == table[t][PageIndex(va, lev)] IN
             /\ IsLink(depth, t, PageIndex(va, lev))
             /\ e.pn \in used /\ depth[e.pn] = lev + 1 /\ e.perm = All
  <2>1. PageIndex(va, lev) \in Index
    BY IndexRange
  <2>2. IsLink(depth, t, PageIndex(va, lev)) /\ t \in TablePages
    BY <1>2, <2>1 DEF IsLink, TypeOK
  <2> QED
    BY <1>2, <2>1, <2>2 DEF Tree
<1>3. kernel_pagetable \in used /\ depth[kernel_pagetable] = 0
  BY DEF Tree
<1>4. Present(Entry0(va)) =>
         /\ IsLink(depth, kernel_pagetable, PageIndex(va, 0))
         /\ Entry0(va).pn \in used /\ depth[Entry0(va).pn] = 1 /\ Entry0(va).perm = All
  BY <1>2, <1>3 DEF Entry0, Step
<1>5. Present(Entry0(va)) /\ Present(Entry1(va)) =>
         /\ IsLink(depth, Entry0(va).pn, PageIndex(va, 1))
         /\ Entry1(va).pn \in used /\ depth[Entry1(va).pn] = 2 /\ Entry1(va).perm = All
  BY <1>2, <1>4 DEF Entry1, Step
<1>6. Present(Entry0(va)) /\ Present(Entry1(va)) /\ Present(Entry2(va)) =>
         /\ IsLink(depth, Entry1(va).pn, PageIndex(va, 2))
         /\ Entry2(va).pn \in used /\ depth[Entry2(va).pn] = 3 /\ Entry2(va).perm = All
  BY <1>2, <1>5 DEF Entry2, Step
<1> QED
  BY <1>4, <1>5, <1>6

LEMMA PathsNext == PathFacts'
BY Paths, PTL

\* The table a walk is at after lev turns is in use, and at depth lev.
LEMMA ReachedDepth ==
  ASSUME NEW depth \in Depths, NEW va \in VPages, TypeOK, Tree(depth),
         NEW lev, NEW t, Reaches(va, lev, t)
  PROVE  t \in used /\ t \in TablePages /\ depth[t] = lev /\ lev \in 0..3
<1>1. used \subseteq TablePages
  BY DEF TypeOK
<1>2. t \in used /\ depth[t] = lev /\ lev \in 0..3
  <2>1. kernel_pagetable \in used /\ depth[kernel_pagetable] = 0
    BY DEF Tree
  <2>2. /\ Present(Entry0(va)) => Entry0(va).pn \in used /\ depth[Entry0(va).pn] = 1
        /\ Present(Entry0(va)) /\ Present(Entry1(va)) =>
             Entry1(va).pn \in used /\ depth[Entry1(va).pn] = 2
        /\ Present(Entry0(va)) /\ Present(Entry1(va)) /\ Present(Entry2(va)) =>
             Entry2(va).pn \in used /\ depth[Entry2(va).pn] = 3
    BY Paths DEF PathFacts
  <2> QED
    BY <2>1, <2>2 DEF Reaches
<1> QED
  BY <1>1, <1>2

ReachedFacts ==
  \A depth \in Depths, va \in VPages, lev \in 0..3, t \in TablePages :
    TypeOK /\ Tree(depth) /\ Reaches(va, lev, t) => t \in used /\ depth[t] = lev

LEMMA ReachedNext == ReachedFacts'
<1>1. ReachedFacts
  BY ReachedDepth DEF ReachedFacts
<1> QED
  BY <1>1, PTL

\* One more turn.
LEMMA ReachesNext ==
  ASSUME NEW va, NEW lev \in 0..2, NEW t, Reaches(va, lev, t),
         Present(table[t][PageIndex(va, lev)])
  PROVE  Reaches(va, lev + 1, table[t][PageIndex(va, lev)].pn)
<1>1. lev = 0 \/ lev = 1 \/ lev = 2
  OBVIOUS
<1>2. CASE lev = 0
  BY <1>2 DEF Reaches, Entry0, Step
<1>3. CASE lev = 1
  BY <1>3 DEF Reaches, Entry0, Entry1, Step
<1>4. CASE lev = 2
  <2>1. Present(Entry0(va)) /\ Present(Entry1(va)) /\ t = Entry1(va).pn
    BY <1>4 DEF Reaches
  <2>2. table[t][PageIndex(va, lev)] = Entry2(va)
    BY <1>4, <2>1 DEF Entry2, Step
  <2>3. lev + 1 = 3
    BY <1>4
  <2> QED
    BY <2>1, <2>2, <2>3 DEF Reaches
<1> QED
  BY <1>1, <1>2, <1>3, <1>4

NextFacts ==
  \A va, t, u : \A lev \in 0..2 :
    /\ Reaches(va, lev, t) /\ Present(table[t][PageIndex(va, lev)])
    /\ u = table[t][PageIndex(va, lev)].pn
    => Reaches(va, lev + 1, u)

LEMMA NextTurns == NextFacts'
<1>1. NextFacts
  BY ReachesNext DEF NextFacts
<1> QED
  BY <1>1, PTL

\* A walk that meets no entry goes no further.
LEMMA ReachesNoFurther ==
  ASSUME NEW va, NEW lev \in 0..2, NEW t, Reaches(va, lev, t),
         ~Present(table[t][PageIndex(va, lev)])
  PROVE  \A u : ~Reaches(va, 3, u)
<1>1. lev = 0 \/ lev = 1 \/ lev = 2
  OBVIOUS
<1>2. CASE lev = 0
  BY <1>2 DEF Reaches, Entry0, Step
<1>3. CASE lev = 1
  BY <1>3 DEF Reaches, Entry1, Step
<1>4. CASE lev = 2
  BY <1>4 DEF Reaches, Entry2, Step
<1> QED
  BY <1>1, <1>2, <1>3, <1>4

\* The pages of a span share their tables ...
LEMMA ReachesSpan ==
  ASSUME NEW va \in VPages, NEW vb \in VPages, va \div NENTRIES = vb \div NENTRIES,
         NEW lev, NEW t
  PROVE  Reaches(va, lev, t) <=> Reaches(vb, lev, t)
<1>1. va \in Nat /\ vb \in Nat
  BY DEF VPages
<1>2. /\ PageIndex(va, 0) = PageIndex(vb, 0) /\ PageIndex(va, 1) = PageIndex(vb, 1)
      /\ PageIndex(va, 2) = PageIndex(vb, 2)
  BY <1>1, IndexUnique
<1>3. Entry0(va) = Entry0(vb) /\ Entry1(va) = Entry1(vb) /\ Entry2(va) = Entry2(vb)
  BY <1>2 DEF Entry0, Entry1, Entry2, Step
<1> QED
  BY <1>3 DEF Reaches

SpanFacts ==
  \A va \in VPages, vb \in VPages : va \div NENTRIES = vb \div NENTRIES =>
    \A t : Reaches(va, 3, t) <=> Reaches(vb, 3, t)

LEMMA SpanNext == SpanFacts'
<1>1. SpanFacts
  BY ReachesSpan DEF SpanFacts
<1> QED
  BY <1>1, PTL

\* ... and those of two spans do not.
LEMMA ReachesApart ==
  ASSUME NEW depth \in Depths, TypeOK, Tree(depth),
         NEW va \in VPages, NEW vb \in VPages, NEW t,
         Reaches(va, 3, t), Reaches(vb, 3, t)
  PROVE  va \div NENTRIES = vb \div NENTRIES
<1>1. ASSUME NEW u, NEW w, NEW i, NEW j, IsLink(depth, u, i), IsLink(depth, w, j),
             table[u][i].pn = table[w][j].pn
      PROVE  u = w /\ i = j
  BY <1>1 DEF Tree, IsLink, TypeOK
<1>2. /\ Present(Entry0(va)) /\ Present(Entry1(va)) /\ Present(Entry2(va)) /\ t = Entry2(va).pn
      /\ Present(Entry0(vb)) /\ Present(Entry1(vb)) /\ Present(Entry2(vb)) /\ t = Entry2(vb).pn
  BY DEF Reaches
<1>3. /\ IsLink(depth, kernel_pagetable, PageIndex(va, 0))
      /\ IsLink(depth, kernel_pagetable, PageIndex(vb, 0))
      /\ IsLink(depth, Entry0(va).pn, PageIndex(va, 1))
      /\ IsLink(depth, Entry0(vb).pn, PageIndex(vb, 1))
      /\ IsLink(depth, Entry1(va).pn, PageIndex(va, 2))
      /\ IsLink(depth, Entry1(vb).pn, PageIndex(vb, 2))
  BY <1>2, Paths DEF PathFacts
<1>4. PageIndex(va, 2) = PageIndex(vb, 2) /\ Entry1(va).pn = Entry1(vb).pn
  <2>1. table[Entry1(va).pn][PageIndex(va, 2)].pn = table[Entry1(vb).pn][PageIndex(vb, 2)].pn
    BY <1>2 DEF Entry2, Step
  <2> QED
    BY <1>1, <1>3, <2>1
<1>5. PageIndex(va, 1) = PageIndex(vb, 1) /\ Entry0(va).pn = Entry0(vb).pn
  BY <1>1, <1>3, <1>4 DEF Entry1, Step
<1>6. PageIndex(va, 0) = PageIndex(vb, 0)
  BY <1>1, <1>3, <1>5 DEF Entry0, Step
<1>7. \A lev \in 0..2 : PageIndex(va, lev) = PageIndex(vb, lev)
  <2> SUFFICES ASSUME NEW lev \in 0..2 PROVE PageIndex(va, lev) = PageIndex(vb, lev)
    OBVIOUS
  <2>1. lev = 0 \/ lev = 1 \/ lev = 2
    OBVIOUS
  <2> QED
    BY <1>4, <1>5, <1>6, <2>1
<1> QED
  BY <1>7, IndexUnique DEF VPages

\* A walk is as it was while the links are.
LEMMA ReachesStays ==
  ASSUME NEW depth \in Depths, TypeOK, Tree(depth), NEW va \in VPages, NEW lev, NEW t,
         \A u \in TablePages, i \in Index : IsLink(depth, u, i) => table'[u][i] = table[u][i],
         Reaches(va, lev, t)
  PROVE  Reaches(va, lev, t)'
<1>1. ASSUME NEW u, NEW i, IsLink(depth, u, i)
      PROVE  table'[u][i] = table[u][i]
  BY <1>1 DEF IsLink, TypeOK
<1>2. Present(Entry0(va)) => Entry0(va)' = Entry0(va)
  BY <1>1, Paths DEF PathFacts, Entry0, Step
<1>3. Present(Entry0(va)) /\ Present(Entry1(va)) => Entry1(va)' = Entry1(va)
  BY <1>1, <1>2, Paths DEF PathFacts, Entry1, Step
<1>4. Present(Entry0(va)) /\ Present(Entry1(va)) /\ Present(Entry2(va))
        => Entry2(va)' = Entry2(va)
  BY <1>1, <1>3, Paths DEF PathFacts, Entry2, Step
<1> QED
  BY <1>2, <1>3, <1>4 DEF Reaches

\* virtual_memory_lookup() finds the entry of the table the walk gets to.
LookupFacts ==
  \A depth \in Depths, va \in VPages : TypeOK /\ Tree(depth) =>
    /\ \A t : Reaches(va, 3, t) =>
         Lookup(va) = IF Present(table[t][PageIndex(va, 3)]) THEN table[t][PageIndex(va, 3)]
                                                             ELSE NotMapped
    /\ (\A t \in TablePages : ~Reaches(va, 3, t)) => Lookup(va) = NotMapped

LEMMA Lookups == LookupFacts
<1> SUFFICES ASSUME NEW depth \in Depths, NEW va \in VPages, TypeOK, Tree(depth)
             PROVE
    /\ \A t : Reaches(va, 3, t) =>
         Lookup(va) = IF Present(table[t][PageIndex(va, 3)]) THEN table[t][PageIndex(va, 3)]
                                                             ELSE NotMapped
    /\ (\A t \in TablePages : ~Reaches(va, 3, t)) => Lookup(va) = NotMapped
  BY DEF LookupFacts
<1> DEFINE e0 == Entry0(va)
           e1 == Entry1(va)
           e2 == Entry2(va)
           e3 == Step(e2.pn, va, 3)
<1>1. Lookup(va) = IF Present(e0) /\ Present(e1) /\ Present(e2) /\ Present(e3)
                   THEN [pn |-> e3.pn, perm |-> e0.perm \cap e1.perm \cap e2.perm \cap e3.perm]
                   ELSE NotMapped
  BY DEF Lookup, Entry0, Entry1, Entry2
<1>2. ASSUME NEW t, Reaches(va, 3, t)
      PROVE  Lookup(va) = IF Present(table[t][PageIndex(va, 3)]) THEN table[t][PageIndex(va, 3)]
                                                                 ELSE NotMapped
  <2>1. /\ Present(e0) /\ Present(e1) /\ Present(e2) /\ t = e2.pn
        /\ e0.perm = All /\ e1.perm = All /\ e2.perm = All /\ t \in TablePages
    BY <1>2, Paths DEF Reaches, PathFacts, TypeOK
  <2>2. e3 = table[t][PageIndex(va, 3)]
    BY <2>1 DEF Step
  <2>3. e3 \in PTE
    <3>1. PageIndex(va, 3) \in Index
      BY IndexRange
    <3>2. table[t] \in [Index -> PTE]
      BY <2>1 DEF TypeOK
    <3> QED
      BY <2>2, <3>1, <3>2
  <2> HIDE DEF e0, e1, e2, e3
  <2>4. All \cap All \cap All \cap e3.perm = e3.perm
    BY <2>3 DEF PTE, All
  <2>5. [pn |-> e3.pn, perm |-> e3.perm] = e3
    BY <2>3 DEF PTE
  <2> QED
    BY <1>1, <2>1, <2>2, <2>4, <2>5
<1>3. ASSUME \A t \in TablePages : ~Reaches(va, 3, t)
      PROVE  Lookup(va) = NotMapped
  <2>1. ~(Present(e0) /\ Present(e1) /\ Present(e2))
    BY <1>3, Paths DEF Reaches, PathFacts, TypeOK
  <2> QED
    BY <1>1, <2>1
<1> QED
  BY <1>2, <1>3

LEMMA LookupsNext == LookupFacts'
BY Lookups, PTL

-----------------------------------------------------------------------------
(* The initial state *)

LEMMA InitShape == Init => IInv
<1> SUFFICES ASSUME Init PROVE IInv
  OBVIOUS
<1> USE Sizes
<1> DEFINE T(i) == KernelTables[i]
           depth == [t \in TablePages |-> CASE t = T(1) -> 0 [] t = T(2) -> 1
                                            [] t = T(3) -> 2 [] OTHER -> 3]
<1>1. /\ T(1) # T(2) /\ T(1) # T(3) /\ T(1) # T(4) /\ T(1) # T(5) /\ T(2) # T(3)
      /\ T(2) # T(4) /\ T(2) # T(5) /\ T(3) # T(4) /\ T(3) # T(5) /\ T(4) # T(5)
  BY TableAssumption
<1>2. /\ \A i \in 1..5 : T(i) \in TablePages /\ T(i) \in PhysPages
      /\ used = {T(1), T(2), T(3), T(4), T(5)} /\ kernel_pagetable = T(1)
  BY DEF Init, kernel_pagetable
<1>3. Entry(T(2)) \in PTE /\ Entry(T(3)) \in PTE /\ Entry(T(4)) \in PTE /\ Entry(T(5)) \in PTE
      /\ NotMapped \in PTE /\ Garbage \in PTE
  BY <1>2, TableAssumption DEF Entry, PTE, All, NotMapped
<1>4. /\ table[T(1)] = [EmptyTable EXCEPT ![0] = Entry(T(2))]
      /\ table[T(2)] = [EmptyTable EXCEPT ![0] = Entry(T(3))]
      /\ table[T(3)] = [EmptyTable EXCEPT ![0] = Entry(T(4)), ![1] = Entry(T(5))]
      /\ table[T(4)] = EmptyTable /\ table[T(5)] = EmptyTable
  BY <1>1, <1>2 DEF Init, InitialTable
<1>5. table \in [TablePages -> [Index -> PTE]]
  <2> SUFFICES ASSUME NEW t \in TablePages PROVE InitialTable[t] \in [Index -> PTE]
    BY DEF Init, InitialTable
  <2>1. EmptyTable \in [Index -> PTE] /\ [i \in Index |-> Garbage] \in [Index -> PTE]
    BY <1>3 DEF EmptyTable
  <2>2. CASE t \in {T(1), T(2), T(3), T(4), T(5)}
    <3>1. InitialTable = table
      BY DEF Init
    <3> DEFINE F == [Index -> PTE]
    <3>2. /\ [EmptyTable EXCEPT ![0] = Entry(T(2))] \in F
          /\ [EmptyTable EXCEPT ![0] = Entry(T(3))] \in F
          /\ [EmptyTable EXCEPT ![0] = Entry(T(4)), ![1] = Entry(T(5))] \in F
      BY <1>3, <2>1
    <3>3. EmptyTable \in F
      BY <2>1
    <3> HIDE DEF F
    <3>4. table[t] \in F
      BY <1>4, <2>2, <3>2, <3>3
    <3> QED
      BY <3>1, <3>4 DEF F
  <2>3. CASE t \notin {T(1), T(2), T(3), T(4), T(5)}
    BY <2>1, <2>3 DEF InitialTable
  <2> QED
    BY <2>2, <2>3
<1>6. TypeOK
  BY <1>2, <1>5 DEF Init, TypeOK, InitialRequest, All
<1>7. KernelLinks
  BY <1>2, <1>4 DEF KernelLinks, EmptyTable
<1>8. RequestInv
  <2>1. NPages - 1 \in VPages
    <3>1. NENTRIES * NENTRIES \in Nat /\ NENTRIES * NENTRIES >= 2 * NENTRIES
      BY Sizes
    <3>2. NENTRIES * NENTRIES * NENTRIES >= NENTRIES * NENTRIES
          /\ NENTRIES * NENTRIES * NENTRIES \in Nat
      BY <3>1
    <3>3. NENTRIES * NENTRIES * NENTRIES * NENTRIES >= NENTRIES * NENTRIES * NENTRIES
          /\ NENTRIES * NENTRIES * NENTRIES * NENTRIES \in Nat
      BY <3>2
    <3> QED
      BY <3>1, <3>2, <3>3 DEF VPages
  <2> QED
    BY <2>1 DEF Init, RequestInv, InitialRequest
<1>9. depth \in Depths
  BY DEF Depths
<1>10. /\ depth[T(1)] = 0 /\ depth[T(2)] = 1 /\ depth[T(3)] = 2
       /\ depth[T(4)] = 3 /\ depth[T(5)] = 3
  BY <1>1, <1>2
<1> HIDE DEF depth
<1>11. ASSUME NEW t, NEW i
       PROVE  IsLink(depth, t, i) <=> <<t, i>> \in {<<T(1), 0>>, <<T(2), 0>>, <<T(3), 0>>, <<T(3), 1>>}
  <2>1. t \in used /\ depth[t] < 3 <=> t = T(1) \/ t = T(2) \/ t = T(3)
    BY <1>2, <1>10
  <2>2. /\ \A j \in Index : Present(table[T(1)][j]) <=> j = 0
        /\ \A j \in Index : Present(table[T(2)][j]) <=> j = 0
        /\ \A j \in Index : Present(table[T(3)][j]) <=> j = 0 \/ j = 1
    BY <1>4 DEF EmptyTable, Entry, NotMapped, Present, All
  <2> QED
    BY <1>1, <2>1, <2>2 DEF IsLink
<1>12. Tree(depth)
  <2>1. \A t \in TablePages, i \in Index : IsLink(depth, t, i) =>
          /\ table[t][i].perm = All /\ table[t][i].pn \in used
          /\ depth[table[t][i].pn] = depth[t] + 1
    <3> SUFFICES ASSUME NEW t, NEW i, IsLink(depth, t, i)
                 PROVE  /\ table[t][i].perm = All /\ table[t][i].pn \in used
                        /\ depth[table[t][i].pn] = depth[t] + 1
      OBVIOUS
    <3>1. \/ t = T(1) /\ i = 0
          \/ t = T(2) /\ i = 0
          \/ t = T(3) /\ i = 0
          \/ t = T(3) /\ i = 1
      BY <1>11
    <3> QED
      BY <1>2, <1>7, <1>10, <3>1 DEF KernelLinks, Entry
  <2>2. \A c \in used \ {kernel_pagetable} :
          \E t \in TablePages, i \in Index : IsLink(depth, t, i) /\ table[t][i].pn = c
    <3> SUFFICES ASSUME NEW c \in used \ {kernel_pagetable}
                 PROVE  \E t \in TablePages, i \in Index : IsLink(depth, t, i) /\ table[t][i].pn = c
      OBVIOUS
    <3>1. c = T(2) \/ c = T(3) \/ c = T(4) \/ c = T(5)
      BY <1>2
    <3>2. /\ IsLink(depth, T(1), 0) /\ IsLink(depth, T(2), 0)
          /\ IsLink(depth, T(3), 0) /\ IsLink(depth, T(3), 1)
      BY <1>11
    <3> QED
      BY <1>2, <1>7, <3>1, <3>2 DEF KernelLinks, Entry
  <2>3. \A t, u \in TablePages, i, j \in Index :
          /\ IsLink(depth, t, i) /\ IsLink(depth, u, j)
          /\ table[t][i].pn = table[u][j].pn
          => t = u /\ i = j
    BY <1>1, <1>7, <1>11 DEF KernelLinks, Entry
  <2> QED
    BY <1>2, <1>9, <1>10, <2>1, <2>2, <2>3 DEF Tree, Depths
<1>13. Shape(depth)
  BY <1>12 DEF Shape, WalkInv, CacheInv, Init
<1> QED
  BY <1>6, <1>7, <1>8, <1>9, <1>13 DEF IInv, Depths

-----------------------------------------------------------------------------
(* The steps *)

Good(depth) == TypeOK /\ KernelLinks /\ RequestInv /\ Shape(depth)

LEMMA GoodInv == IInv <=> \E depth \in Depths : Good(depth)
BY DEF IInv, Good, Depths

LEMMA GoodInvNext ==
  ASSUME NEW depth \in Depths, Good(depth)'
  PROVE  IInv'
BY DEF IInv, Good, Depths

\* Steps that leave the tables alone leave the tree and every walk alone.
LEMMA SameTables ==
  ASSUME UNCHANGED <<table, used>>
  PROVE  /\ \A depth : Tree(depth)' <=> Tree(depth)
         /\ \A va, lev, t : Reaches(va, lev, t)' <=> Reaches(va, lev, t)
         /\ KernelLinks' <=> KernelLinks
BY DEF Tree, IsLink, Reaches, Entry0, Entry1, Entry2, Step, KernelLinks

\* A request in progress is for a page there is.
LEMMA NextPage ==
  ASSUME TypeOK, RequestInv, req.n > 0
  PROVE  /\ req.va \in VPages /\ req.va \in Nat /\ req.va \div NENTRIES \in Nat
         /\ "P" \in req.perm => req.pa \in PhysPages
<1>1. req.va \in Nat /\ req.n \in Nat /\ req.pa \in Nat
  BY DEF TypeOK
<1>2. req.va + req.n - 1 \in VPages
  BY DEF RequestInv
<1>3. req.va \in VPages
  <2> DEFINE M == NENTRIES * NENTRIES * NENTRIES * NENTRIES
  <2>1. M \in Int
    BY Sizes
  <2>2. req.va + req.n - 1 \in 0..M-1
    BY <1>2 DEF VPages
  <2> HIDE DEF M
  <2>3. req.va \in 0..M-1
    BY <1>1, <2>1, <2>2
  <2> QED
    BY <2>3 DEF VPages, M
<1>4. "P" \in req.perm => req.pa \in PhysPages
  BY <1>1, Sizes DEF RequestInv, PhysPages
<1>5. req.va \div NENTRIES \in Nat
  BY <1>1, Sizes, DivMod
<1> QED
  BY <1>1, <1>3, <1>4, <1>5

\* The kernel's own tables stand where virtual_memory_init() put them.
LEMMA KernelDepths ==
  ASSUME NEW depth \in Depths, TypeOK, KernelLinks, Tree(depth)
  PROVE  /\ IsLink(depth, KernelTables[1], 0) /\ IsLink(depth, KernelTables[2], 0)
         /\ IsLink(depth, KernelTables[3], 0) /\ IsLink(depth, KernelTables[3], 1)
<1> USE Sizes
<1>1. IsLink(depth, KernelTables[1], 0)
  BY DEF KernelLinks, Tree, IsLink, kernel_pagetable, Present, Entry, All
<1>2. KernelTables[2] \in used /\ depth[KernelTables[2]] = 1
  BY <1>1 DEF KernelLinks, Tree, Entry, kernel_pagetable
<1>3. IsLink(depth, KernelTables[2], 0)
  BY <1>2 DEF KernelLinks, IsLink, Present, Entry, All
<1>4. KernelTables[3] \in used /\ depth[KernelTables[3]] = 2
  BY <1>2, <1>3 DEF KernelLinks, Tree, Entry
<1>5. IsLink(depth, KernelTables[3], 0) /\ IsLink(depth, KernelTables[3], 1)
  BY <1>4 DEF KernelLinks, IsLink, Present, Entry, All
<1> QED
  BY <1>1, <1>3, <1>5

\* Links that stay keep the kernel's own.
LEMMA KernelLinksStay ==
  ASSUME NEW depth \in Depths, TypeOK, KernelLinks, Tree(depth),
         \A u \in TablePages, i \in Index : IsLink(depth, u, i) => table'[u][i] = table[u][i]
  PROVE  KernelLinks'
BY KernelDepths, Sizes DEF KernelLinks

LEMMA CallInv ==
  ASSUME NEW depth \in Depths, Good(depth), Call
  PROVE  Good(depth)'
<1> USE DEF Good
<1>1. req' \in Requests /\ phase' = "loop" /\ last' = -1
      /\ UNCHANGED <<table, used, pt, level, result>> /\ l4' = NULL
  BY DEF Call
<1>2. /\ req' \in [va : Nat, pa : Nat, n : 0..NPages+MaxPages, perm : SUBSET {"P", "W", "U"},
                   allocates : BOOLEAN]
      /\ req'.n \in Nat /\ req'.va + req'.n - 1 \in VPages
      /\ "P" \in req'.perm => req'.pa + req'.n <= NPages
  <2>1. /\ req' \in [va : Starts, pa : Targets, n : 0..MaxPages, perm : Perms, allocates : BOOLEAN]
        /\ req'.va + req'.n - 1 \in VPages
        /\ "P" \in req'.perm => req'.pa + req'.n <= NPages
    BY <1>1 DEF Requests
  <2>2. /\ Starts \subseteq Nat /\ Targets \subseteq Nat /\ Perms \subseteq SUBSET {"P", "W", "U"}
        /\ \A n \in 0..MaxPages : n \in Nat /\ n \in 0..NPages+MaxPages
    BY SizeAssumption, TableAssumption
  <2>3. /\ req'.va \in Nat /\ req'.pa \in Nat /\ req'.n \in 0..NPages+MaxPages
        /\ req'.perm \in SUBSET {"P", "W", "U"} /\ req'.allocates \in BOOLEAN /\ req'.n \in Nat
    BY <2>1, <2>2
  <2>4. req' = [va |-> req'.va, pa |-> req'.pa, n |-> req'.n, perm |-> req'.perm,
                allocates |-> req'.allocates]
    BY <2>1
  <2> QED
    BY <2>1, <2>3, <2>4
<1>3. TypeOK'
  BY <1>1, <1>2 DEF TypeOK
<1>4. RequestInv'
  BY <1>1, <1>2 DEF RequestInv
<1>5. Shape(depth)'
  BY <1>1, SameTables DEF Shape, WalkInv, CacheInv
<1> QED
  BY <1>1, <1>3, <1>4, <1>5, SameTables

LEMMA LoopHeadInv ==
  ASSUME NEW depth \in Depths, Good(depth), LoopHead
  PROVE  Good(depth)'
<1> USE DEF Good
<1>1. /\ phase = "loop" /\ req.n > 0 /\ UNCHANGED <<table, used, req, l4, result>>
      /\ KernelLinks'
  BY SameTables DEF LoopHead
<1>2. req.va \in VPages /\ req.va \in Nat /\ req.va \div NENTRIES \in Nat
  BY <1>1, NextPage
<1>3. CASE Cached(req.va)
  <2>1. phase' = "store" /\ UNCHANGED <<last, pt, level>> /\ last = req.va \div NENTRIES
    BY <1>3 DEF LoopHead, Cached
  <2>2. TypeOK'
    BY <1>1, <2>1 DEF TypeOK
  <2>3. RequestInv'
    BY <1>1, <2>1 DEF RequestInv
  <2>4. Shape(depth)'
    BY <1>1, <2>1, SameTables DEF Shape, WalkInv, CacheInv
  <2> QED
    BY <1>1, <2>2, <2>3, <2>4
<1>4. CASE ~Cached(req.va)
  <2>1. /\ phase' = "walk" /\ last' = req.va \div NENTRIES
        /\ pt' = kernel_pagetable /\ level' = 0
    BY <1>4 DEF LoopHead
  <2>2. TypeOK'
    BY <1>1, <1>2, <2>1, Sizes DEF TypeOK
  <2>3. RequestInv'
    BY <1>1, <2>1 DEF RequestInv
  <2>4. Shape(depth)'
    BY <1>1, <2>1, SameTables DEF Shape, WalkInv, CacheInv, Tree, Reaches
  <2> QED
    BY <1>1, <2>2, <2>3, <2>4
<1> QED
  BY <1>3, <1>4

LEMMA LoopEndInv ==
  ASSUME NEW depth \in Depths, Good(depth), LoopEnd
  PROVE  Good(depth)'
<1> USE DEF Good
<1>1. /\ phase' = "idle" /\ result' = 0 /\ UNCHANGED <<table, used, req, last, l4, pt, level>>
      /\ KernelLinks'
  BY SameTables DEF LoopEnd
<1>2. TypeOK' /\ RequestInv'
  BY <1>1 DEF TypeOK, RequestInv
<1>3. Shape(depth)'
  BY <1>1, SameTables DEF Shape, WalkInv, CacheInv
<1> QED
  BY <1>1, <1>2, <1>3

\* Storing an entry of a level-4 table changes no link.
LEMMA StoreKeepsLinks ==
  ASSUME NEW depth \in Depths, Good(depth), StorePage
  PROVE  /\ \A u, i : IsLink(depth, u, i)' <=> IsLink(depth, u, i)
         /\ \A u, i : IsLink(depth, u, i) => table'[u][i] = table[u][i]
         /\ Tree(depth)'
         /\ used' = used
<1> USE DEF Good
<1>1. used' = used /\ phase = "store"
  BY DEF StorePage
<1>2. CASE table' = table
  BY <1>1, <1>2, SameTables DEF Shape, IsLink
<1>3. CASE table' # table
  <2>1. /\ l4 # NULL
        /\ table' = [table EXCEPT ![l4][PageIndex(req.va, 3)] =
                              [pn |-> IF "P" \in req.perm THEN req.pa ELSE NULL,
                               perm |-> req.perm]]
    BY <1>3 DEF StorePage
  <2>2. l4 \in used /\ depth[l4] = 3
    <3>1. last # -1
      BY <1>1, NextPage DEF RequestInv
    <3> QED
      BY <1>1, <2>1, <3>1 DEF Shape, CacheInv
  <2>3. \A u \in TablePages : u # l4 => table'[u] = table[u]
    BY <2>1 DEF TypeOK
  <2>4. \A u, i : IsLink(depth, u, i) => table'[u][i] = table[u][i]
    BY <2>2, <2>3 DEF IsLink, TypeOK
  <2>5. \A u, i : IsLink(depth, u, i)' <=> IsLink(depth, u, i)
    BY <1>1, <2>2, <2>3 DEF IsLink, TypeOK
  <2>6. Tree(depth)'
    <3>1. Tree(depth)
      BY DEF Shape
    <3> HIDE DEF Good
    <3> QED
      BY <1>1, <2>4, <2>5, <3>1 DEF Tree
  <2> QED
    BY <1>1, <2>4, <2>5, <2>6
<1> QED
  BY <1>2, <1>3

LEMMA StorePageInv ==
  ASSUME NEW depth \in Depths, Good(depth), StorePage
  PROVE  Good(depth)'
<1> USE DEF Good
<1>1. /\ phase = "store" /\ req.n > 0 /\ last = req.va \div NENTRIES
      /\ UNCHANGED <<used, last, l4, pt, level>>
  BY DEF StorePage, RequestInv
<1>2. /\ req.va \in VPages /\ req.va \in Nat /\ last \in Nat
      /\ "P" \in req.perm => req.pa \in PhysPages
  BY <1>1, NextPage
<1>3. /\ Tree(depth)' /\ KernelLinks'
      /\ \A u, i : IsLink(depth, u, i) => table'[u][i] = table[u][i]
  BY StoreKeepsLinks, KernelLinksStay DEF Shape
<1>4. CASE l4 = NULL /\ "P" \in req.perm
  <2>1. phase' = "idle" /\ result' = -1 /\ UNCHANGED <<table, req>>
    BY <1>4 DEF StorePage
  <2>2. TypeOK'
    BY <1>1, <2>1 DEF TypeOK
  <2>3. req.va >= 2 * NENTRIES
    BY <1>1, <1>2, <1>4, LowIndex DEF Shape, CacheInv
  <2>4. RequestInv'
    <3>1. req.n \in Nat /\ req.va + req.n > 2 * NENTRIES
      BY <1>1, <1>2, <2>3, Sizes DEF TypeOK
    <3> QED
      BY <1>1, <2>1, <3>1 DEF RequestInv
  <2>5. Shape(depth)'
    BY <1>3, <2>1 DEF Shape, WalkInv, CacheInv
  <2> QED
    BY <1>3, <2>2, <2>4, <2>5
<1>5. CASE ~(l4 = NULL /\ "P" \in req.perm)
  <2> DEFINE e == [pn |-> IF "P" \in req.perm THEN req.pa ELSE NULL, perm |-> req.perm]
  <2>1. /\ phase' = "loop" /\ result' = result
        /\ req' = [req EXCEPT !.va = @ + 1, !.pa = @ + 1, !.n = @ - 1]
        /\ table' = IF l4 = NULL THEN table
                    ELSE [table EXCEPT ![l4][PageIndex(req.va, 3)] = e]
    BY <1>5 DEF StorePage
  <2>2. req \in [va : Nat, pa : Nat, n : 0..NPages+MaxPages, perm : SUBSET {"P", "W", "U"},
                 allocates : BOOLEAN]
    BY DEF TypeOK
  <2>3. /\ req'.va = req.va + 1 /\ req'.pa = req.pa + 1 /\ req'.n = req.n - 1
        /\ req'.perm = req.perm /\ req'.allocates = req.allocates
        /\ req' \in [va : Nat, pa : Nat, n : 0..NPages+MaxPages, perm : SUBSET {"P", "W", "U"},
                     allocates : BOOLEAN]
    <3>1. /\ req'.va = req.va + 1 /\ req'.pa = req.pa + 1 /\ req'.n = req.n - 1
          /\ req'.perm = req.perm /\ req'.allocates = req.allocates
      BY <2>1, <2>2
    <3>2. req.va + 1 \in Nat /\ req.pa + 1 \in Nat /\ req.n - 1 \in 0..NPages+MaxPages
      BY <1>1, <2>2, Sizes
    <3>3. req' \in [va : Nat, pa : Nat, n : 0..NPages+MaxPages, perm : SUBSET {"P", "W", "U"},
                    allocates : BOOLEAN]
      BY <2>1, <2>2, <3>2
    <3> QED
      BY <3>1, <3>3
  <2>4. e \in PTE
    BY <1>2, <2>2 DEF PTE
  <2>5. PageIndex(req.va, 3) \in Index
    BY <1>2, IndexRange
  <2>6. table' \in [TablePages -> [Index -> PTE]]
    <3> HIDE DEF e
    <3>1. table \in [TablePages -> [Index -> PTE]]
      BY DEF TypeOK
    <3> QED
      BY <2>1, <2>4, <2>5, <3>1
  <2>7. TypeOK'
    BY <1>1, <2>1, <2>3, <2>6 DEF TypeOK
  <2>8. RequestInv'
    <3>1. req'.va + req'.n - 1 = req.va + req.n - 1 /\ req'.pa + req'.n = req.pa + req.n
      BY <2>2, <2>3
    <3> QED
      BY <1>1, <2>1, <2>3, <3>1 DEF RequestInv
  <2>9. CacheInv(depth)'
    <3>1. CASE l4 = NULL
      <4>1. UNCHANGED <<table, used>>
        BY <1>1, <2>1, <3>1
      <4> QED
        BY <1>1, <1>2, <2>1, <4>1, SameTables DEF Shape, CacheInv
    <3>2. CASE l4 # NULL
      <4>1. /\ l4 \in used /\ depth[l4] = 3
            /\ \A va \in VPages : va \div NENTRIES = last => Reaches(va, 3, l4)
        BY <1>1, <1>2, <3>2 DEF Shape, CacheInv
      <4>2. \A va \in VPages : va \div NENTRIES = last => Reaches(va, 3, l4)'
        <5> SUFFICES ASSUME NEW va \in VPages, va \div NENTRIES = last
                     PROVE  Reaches(va, 3, l4)'
          OBVIOUS
        <5>1. Reaches(va, 3, l4) /\ l4' = l4 /\ TypeOK /\ Tree(depth)
          BY <1>1, <4>1 DEF Shape
        <5> QED
          BY <1>3, <5>1, ReachesStays
      <4> QED
        BY <1>1, <2>1, <3>2, <4>1, <4>2 DEF CacheInv, Reaches
    <3> QED
      BY <3>1, <3>2
  <2>10. WalkInv(depth)'
    BY <2>1 DEF WalkInv
  <2> QED
    BY <1>3, <2>7, <2>8, <2>9, <2>10 DEF Shape
<1> QED
  BY <1>4, <1>5

\* One turn of the walk, to table t, in the next state's tables: the walk goes on
\* or ends with the table for the whole span.
LEMMA DescendInv ==
  ASSUME NEW depth \in Depths, TypeOK', Tree(depth)', NEW t \in TablePages, Descend(t),
         NEW lev \in 0..2, level = lev,
         phase = "walk", NEW va \in VPages, va = req.va, req' = req,
         last' = va \div NENTRIES, Reaches(va, lev + 1, t)'
  PROVE  WalkInv(depth)' /\ CacheInv(depth)'
<1>0. t \in used' /\ depth[t] = lev + 1
  <2>1. lev + 1 \in 0..3
    OBVIOUS
  <2> QED
    BY <2>1, ReachedNext DEF ReachedFacts
<1>1. CASE lev = 2
  <2>1. l4' = t /\ phase' = "store" /\ t # NULL
    BY <1>1, Sizes DEF Descend
  <2>2. Reaches(va, 3, t)'
    BY <1>1
  <2>3. ASSUME NEW vb \in VPages, vb \div NENTRIES = last'
        PROVE  Reaches(vb, 3, t)'
    BY <2>2, <2>3, SpanNext DEF SpanFacts
  <2>4. \A vb \in VPages : vb \div NENTRIES = last' => Reaches(vb, 3, l4)'
    BY <2>1, <2>3
  <2> QED
    BY <1>0, <1>1, <2>1, <2>4 DEF WalkInv, CacheInv
<1>2. CASE lev # 2
  <2>1. pt' = t /\ level' = lev + 1 /\ phase' = "walk"
    BY <1>2 DEF Descend
  <2>2. Reaches(req.va, level, pt)'
    BY <2>1
  <2> QED
    BY <1>0, <2>1, <2>2 DEF WalkInv, CacheInv
<1> QED
  BY <1>1, <1>2

\* Where the walk stands, without the primes to trip over.
LEMMA WalkAt ==
  ASSUME NEW depth \in Depths, Good(depth), phase = "walk"
  PROVE  /\ req.va \in VPages /\ req.va \in Nat /\ last = req.va \div NENTRIES /\ last \in Nat
         /\ level \in 0..2 /\ pt \in used /\ pt \in TablePages /\ depth[pt] = level
         /\ Reaches(req.va, level, pt) /\ WalkIndex \in Index
         /\ TypeOK /\ Tree(depth) /\ KernelLinks /\ RequestInv
<1>1. req.n > 0 /\ last = req.va \div NENTRIES /\ TypeOK /\ RequestInv
  BY DEF Good, RequestInv
<1>2. req.va \in VPages /\ req.va \in Nat /\ last \in Nat
  BY <1>1, NextPage
<1>3. level \in 0..2 /\ level \in 0..3
  BY <1>1 DEF TypeOK
<1>4. WalkIndex \in Index
  BY <1>2, <1>3, IndexRange DEF WalkIndex
<1> QED
  BY <1>1, <1>2, <1>3, <1>4 DEF Good, Shape, WalkInv, TypeOK

LEMMA WalkDownInv ==
  ASSUME NEW depth \in Depths, Good(depth), WalkDown
  PROVE  Good(depth)'
<1>1. /\ phase = "walk" /\ Present(WalkEntry) /\ Descend(WalkEntry.pn)
      /\ UNCHANGED <<table, used, req, last, result>>
  BY DEF WalkDown, Present
<1>2. PICK lev \in 0..2 : lev = level
  BY <1>1, WalkAt
<1>3. PICK t : t = WalkEntry.pn
  OBVIOUS
<1>4. PICK va \in VPages : va = req.va
  BY <1>1, WalkAt
<1>5. t = table[pt][PageIndex(va, lev)].pn /\ Reaches(va, lev, pt)
      /\ Present(table[pt][PageIndex(va, lev)])
  BY <1>1, <1>2, <1>3, <1>4, WalkAt DEF WalkEntry, WalkIndex
<1>6. Reaches(va, lev + 1, t)
  BY <1>5, ReachesNext
<1>7. t \in TablePages /\ TypeOK /\ Tree(depth) /\ t \in used
  BY <1>1, <1>6, WalkAt, ReachedDepth
<1>8. TypeOK'
  <2>1. l4' \in TablePages \cup {NULL} /\ pt' \in TablePages /\ level' \in 0..2
        /\ phase' \in {"idle", "loop", "walk", "store"}
    BY <1>1, <1>2, <1>3, <1>7 DEF Descend, TypeOK
  <2> QED
    BY <1>1, <1>7, <2>1 DEF TypeOK
<1>9. Tree(depth)' /\ KernelLinks' /\ Reaches(va, lev + 1, t)'
  BY <1>1, <1>6, <1>7, SameTables, WalkAt
<1>10. WalkInv(depth)' /\ CacheInv(depth)'
  BY <1>1, <1>2, <1>3, <1>4, <1>7, <1>8, <1>9, DescendInv, WalkAt
<1>11. RequestInv'
  <2>1. phase' \in {"walk", "store"}
    BY <1>1 DEF Descend
  <2>2. RequestInv /\ last = req.va \div NENTRIES /\ req.n > 0
    BY <1>1, WalkAt DEF RequestInv
  <2> QED
    BY <1>1, <2>1, <2>2 DEF RequestInv
<1> QED
  BY <1>8, <1>9, <1>10, <1>11 DEF Good, Shape

\* There is a table for every page the kernel's own tables span.
LEMMA LowPagesMapped ==
  ASSUME NEW depth \in Depths, Good(depth), phase = "walk", ~Present(WalkEntry)
  PROVE  last >= 2
<1> SUFFICES ASSUME ~(last >= 2) PROVE FALSE
  OBVIOUS
<1>1. req.va < 2 * NENTRIES /\ req.va \in Nat /\ level \in 0..2
      /\ Reaches(req.va, level, pt) /\ KernelLinks
  <2>1. req.va \in Nat /\ last = req.va \div NENTRIES
    BY WalkAt
  <2>2. ~(req.va >= 2 * NENTRIES)
    BY <2>1, LowIndex
  <2> QED
    BY <2>1, <2>2, WalkAt, Sizes
<1>2. /\ PageIndex(req.va, 0) = 0 /\ PageIndex(req.va, 1) = 0
      /\ PageIndex(req.va, 2) \in {0, 1}
  BY <1>1, LowIndex
<1>3. Entry0(req.va) = Entry(KernelTables[2]) /\ Entry1(req.va) = Entry(KernelTables[3])
      /\ Present(Entry2(req.va))
  <2>1. Entry0(req.va) = Entry(KernelTables[2])
    BY <1>1, <1>2 DEF Entry0, Step, KernelLinks, kernel_pagetable
  <2>2. Entry1(req.va) = Entry(KernelTables[3])
    <3>1. Entry(KernelTables[2]).pn = KernelTables[2]
      BY DEF Entry
    <3> QED
      BY <1>1, <1>2, <2>1, <3>1 DEF Entry1, Step, KernelLinks
  <2>3. Entry2(req.va) = table[KernelTables[3]][PageIndex(req.va, 2)]
    <3>1. Entry(KernelTables[3]).pn = KernelTables[3]
      BY DEF Entry
    <3> QED
      BY <2>2, <3>1 DEF Entry2, Step
  <2>4. Entry2(req.va) = Entry(KernelTables[4]) \/ Entry2(req.va) = Entry(KernelTables[5])
    BY <1>1, <1>2, <2>3 DEF KernelLinks
  <2>5. \A x : Present(Entry(x))
    BY DEF Present, Entry, All
  <2> QED
    BY <2>1, <2>2, <2>4, <2>5
<1>4. WalkEntry = Step(pt, req.va, level)
  BY DEF WalkEntry, WalkIndex, Step
<1>5. CASE level = 0
  <2>1. WalkEntry = Entry0(req.va)
    BY <1>1, <1>4, <1>5 DEF Reaches, Entry0
  <2> QED
    BY <1>3, <2>1 DEF Present, Entry, All
<1>6. CASE level = 1
  <2>1. WalkEntry = Entry1(req.va)
    BY <1>1, <1>4, <1>6 DEF Reaches, Entry1
  <2> QED
    BY <1>3, <2>1 DEF Present, Entry, All
<1>7. CASE level = 2
  <2>1. WalkEntry = Entry2(req.va)
    BY <1>1, <1>4, <1>7 DEF Reaches, Entry2
  <2> QED
    BY <1>3, <2>1
<1> QED
  BY <1>1, <1>5, <1>6, <1>7

LEMMA WalkFailsInv ==
  ASSUME NEW depth \in Depths, Good(depth), WalkFails
  PROVE  Good(depth)'
<1>1. /\ phase = "walk" /\ ~Present(WalkEntry) /\ l4' = NULL /\ phase' = "store"
      /\ UNCHANGED <<table, used, req, last, pt, level, result>>
  BY DEF WalkFails, Present
<1>2. Tree(depth)' /\ KernelLinks'
  BY <1>1, SameTables, WalkAt
<1>3. TypeOK' /\ RequestInv'
  <2>1. TypeOK /\ RequestInv
    BY <1>1, WalkAt
  <2>2. RequestInv'
    BY <1>1, <2>1 DEF RequestInv
  <2>3. TypeOK'
    BY <1>1, <2>1 DEF TypeOK
  <2> QED
    BY <2>2, <2>3
<1>4. last >= 2
  BY <1>1, LowPagesMapped
<1>5. ASSUME NEW va \in VPages, NEW t, va \div NENTRIES = last
      PROVE  ~Reaches(va, 3, t)
  <2>1. ~Reaches(req.va, 3, t)
    BY <1>1, WalkAt, ReachesNoFurther DEF WalkEntry, WalkIndex
  <2> QED
    BY <1>1, <1>5, <2>1, WalkAt, ReachesSpan
<1>6. CacheInv(depth)' /\ WalkInv(depth)'
  <2>1. \A va \in VPages, t \in TablePages : va \div NENTRIES = last => ~Reaches(va, 3, t)'
    BY <1>1, <1>5, SameTables
  <2> QED
    BY <1>1, <1>4, <2>1 DEF CacheInv, WalkInv
<1> QED
  BY <1>2, <1>3, <1>6 DEF Good, Shape

\* The parts of an allocating turn of the walk, by name.
AllocTurn(depth, t, lev, new, p, i0) ==
  /\ level = lev /\ new = [depth EXCEPT ![t] = lev + 1]
  /\ phase = "walk" /\ ~Present(WalkEntry) /\ p = pt /\ i0 = WalkIndex
  /\ table' = [table EXCEPT ![p] = [@ EXCEPT ![i0] = Entry(t)], ![t] = EmptyTable]
  /\ used' = used \cup {t} /\ Descend(t) /\ UNCHANGED <<req, last, result>>

\* A tree in the next state, with the links spelt out.
LEMMA TreeNext ==
  ASSUME NEW new \in [TablePages -> 0..3],
         kernel_pagetable \in used', new[kernel_pagetable] = 0,
         \A u \in TablePages, i \in Index :
           u \in used' /\ i \in Index /\ new[u] < 3 /\ Present(table'[u][i]) =>
             /\ table'[u][i].perm = All /\ table'[u][i].pn \in used'
             /\ new[table'[u][i].pn] = new[u] + 1,
         \A c \in used' \ {kernel_pagetable} : \E u \in TablePages, i \in Index :
           /\ u \in used' /\ i \in Index /\ new[u] < 3 /\ Present(table'[u][i])
           /\ table'[u][i].pn = c,
         \A u, w \in TablePages, i, j \in Index :
           /\ u \in used' /\ i \in Index /\ new[u] < 3 /\ Present(table'[u][i])
           /\ w \in used' /\ j \in Index /\ new[w] < 3 /\ Present(table'[w][j])
           /\ table'[u][i].pn = table'[w][j].pn
           => u = w /\ i = j
  PROVE  Tree(new)'
<1> DEFINE Linked(u, i) == u \in used' /\ i \in Index /\ new[u] < 3 /\ Present(table'[u][i])
<1>1. \A u, i : IsLink(new, u, i)' <=> Linked(u, i)
  BY DEF IsLink, Present
<1>2. \A u \in TablePages, i \in Index : IsLink(new, u, i)' =>
             /\ table'[u][i].perm = All /\ table'[u][i].pn \in used'
             /\ new[table'[u][i].pn] = new[u] + 1
  BY <1>1
<1>3. \A c \in used' \ {kernel_pagetable} : \E u \in TablePages, i \in Index :
        IsLink(new, u, i)' /\ table'[u][i].pn = c
  BY <1>1
<1>4. \A u, w \in TablePages, i, j \in Index :
           /\ IsLink(new, u, i)' /\ IsLink(new, w, j)'
           /\ table'[u][i].pn = table'[w][j].pn
           => u = w /\ i = j
  <2> HIDE DEF Linked
  <2>1. \A u, w \in TablePages, i, j \in Index :
           Linked(u, i) /\ Linked(w, j) /\ table'[u][i].pn = table'[w][j].pn => u = w /\ i = j
    BY DEF Linked
  <2> QED
    BY <1>1, <2>1
<1> QED
  BY <1>2, <1>3, <1>4 DEF Tree

\* A table fresh from the allocator hangs below the one the walk is at: the links
\* there were stay as they are, and there is one more.
LEMMA AllocTree ==
  ASSUME NEW depth \in Depths, TypeOK, Tree(depth), NEW p \in TablePages, p \in used,
         NEW lev \in 0..2, depth[p] = lev, NEW i0 \in Index, ~Present(table[p][i0]),
         NEW t \in Pool, t \notin used, NEW new \in Depths,
         AllocTurn(depth, t, lev, new, p, i0)
  PROVE  /\ t \in TablePages /\ t # p
         /\ \A i \in Index : ~("P" \in table'[t][i].perm)
         /\ \A u \in TablePages, i \in Index : IsLink(depth, u, i) => table'[u][i] = table[u][i]
         /\ \A u \in TablePages \ {p, t} : table'[u] = table[u]
         /\ table'[p][i0] = Entry(t)
         /\ \A i \in Index \ {i0} : table'[p][i] = table[p][i]
         /\ table' \in [TablePages -> [Index -> PTE]]
         /\ Tree(new)'
<1>0. used' = used \cup {t} /\ new = [depth EXCEPT ![t] = lev + 1]
  BY DEF AllocTurn
<1> DEFINE Linked(u, i) == u \in used' /\ i \in Index /\ new[u] < 3 /\ Present(table'[u][i])
<1>1. t \in TablePages /\ t # p /\ t \in PhysPages /\ used \subseteq TablePages
  BY Sizes DEF TablePages, TypeOK
<1>2. table \in [TablePages -> [Index -> PTE]] /\ table[p] \in [Index -> PTE]
  BY DEF TypeOK
<1>3. Entry(t) \in PTE /\ Present(Entry(t)) /\ Entry(t).pn = t /\ Entry(t).perm = All
      /\ EmptyTable \in [Index -> PTE] /\ \A i \in Index : ~Present(EmptyTable[i])
  BY <1>1 DEF Entry, PTE, All, Present, EmptyTable, NotMapped
<1>4. /\ \A u \in TablePages \ {p, t} : table'[u] = table[u]
      /\ table'[t] = EmptyTable
      /\ table'[p] = [table[p] EXCEPT ![i0] = Entry(t)]
      /\ table' \in [TablePages -> [Index -> PTE]]
  <2> DEFINE row == [table[p] EXCEPT ![i0] = Entry(t)]
             F == [Index -> PTE]
  <2>1. row \in F /\ EmptyTable \in F
    BY <1>2, <1>3
  <2>2. table' = [table EXCEPT ![p] = row, ![t] = EmptyTable]
    BY DEF AllocTurn
  <2> HIDE DEF row, F
  <2>3. table \in [TablePages -> F]
    BY <1>2 DEF F
  <2>4. /\ \A u \in TablePages \ {p, t} : table'[u] = table[u]
        /\ table'[t] = EmptyTable /\ table'[p] = row /\ table' \in [TablePages -> F]
    BY <1>1, <2>1, <2>2, <2>3
  <2> QED
    BY <2>4 DEF row, F
<1>5. /\ \A i \in Index : ~Present(table'[t][i])
      /\ table'[p][i0] = Entry(t)
      /\ \A i \in Index \ {i0} : table'[p][i] = table[p][i]
  BY <1>2, <1>3, <1>4
<1>6. new[t] = lev + 1 /\ \A u \in TablePages \ {t} : new[u] = depth[u]
  BY <1>0, <1>1 DEF Depths
<1>7. used' = used \cup {t}
  BY <1>0
<1> USE <1>7
<1>8. ASSUME NEW u \in TablePages, NEW i \in Index, IsLink(depth, u, i)
      PROVE  table'[u][i] = table[u][i] /\ Linked(u, i)
  <2>1. u \in used /\ u # t /\ depth[u] < 3 /\ Present(table[u][i])
    BY <1>8 DEF IsLink
  <2>2. u = p => i # i0
    BY <2>1
  <2>3. table'[u][i] = table[u][i]
    BY <1>4, <1>5, <2>1, <2>2
  <2> QED
    BY <1>6, <2>1, <2>3
<1>9. Linked(p, i0)
  <2>1. p \in used' /\ new[p] = lev /\ lev < 3
    BY <1>1, <1>6
  <2>2. Present(table'[p][i0])
    BY <1>3, <1>5
  <2> QED
    BY <2>1, <2>2
<1>10. ASSUME NEW u \in TablePages, NEW i \in Index, Linked(u, i)
       PROVE  IsLink(depth, u, i) \/ (u = p /\ i = i0)
  <2>1. u \in used' /\ new[u] < 3 /\ Present(table'[u][i])
    BY <1>10
  <2>2. u # t /\ u \in used
    BY <1>5, <2>1
  <2>3. CASE u = p /\ i # i0
    BY <1>5, <1>6, <2>1, <2>2, <2>3 DEF IsLink
  <2>4. CASE u # p
    BY <1>4, <1>6, <2>1, <2>2, <2>4 DEF IsLink
  <2> QED
    BY <2>3, <2>4
<1>11. Tree(new)'
  <2> HIDE DEF Linked
  <2>1. new \in [TablePages -> 0..3]
    BY DEF Depths
  <2>2. kernel_pagetable \in used' /\ new[kernel_pagetable] = 0
    <3>1. kernel_pagetable \in used /\ kernel_pagetable \in TablePages /\ kernel_pagetable # t
          /\ depth[kernel_pagetable] = 0
      BY <1>1 DEF Tree
    <3> QED
      BY <1>6, <3>1
  <2>3. ASSUME NEW u \in TablePages, NEW i \in Index, Linked(u, i)
        PROVE  /\ table'[u][i].perm = All /\ table'[u][i].pn \in used'
               /\ new[table'[u][i].pn] = new[u] + 1
    <3>1. CASE IsLink(depth, u, i)
      <4>1. /\ table'[u][i] = table[u][i] /\ table[u][i].perm = All
            /\ table[u][i].pn \in used /\ depth[table[u][i].pn] = depth[u] + 1
            /\ u \in used
        <5>1. table'[u][i] = table[u][i]
          BY <1>8, <3>1
        <5> QED
          BY <3>1, <5>1 DEF Tree, IsLink
      <4>2. table[u][i].pn # t /\ u # t /\ table[u][i].pn \in TablePages
        BY <1>1, <4>1
      <4>3. new[table[u][i].pn] = depth[table[u][i].pn] /\ new[u] = depth[u]
        BY <1>6, <4>2
      <4> QED
        BY <4>1, <4>3
    <3>2. CASE u = p /\ i = i0
      <4>1. table'[u][i] = Entry(t) /\ new[u] = lev
        BY <1>1, <1>5, <1>6, <3>2
      <4> QED
        BY <1>3, <1>6, <4>1
    <3> QED
      BY <1>10, <2>3, <3>1, <3>2
  <2>4. ASSUME NEW c \in used' \ {kernel_pagetable}
        PROVE  \E u \in TablePages, i \in Index : Linked(u, i) /\ table'[u][i].pn = c
    <3>1. CASE c = t
      <4>1. table'[p][i0].pn = c
        BY <1>3, <1>5, <3>1
      <4> QED
        BY <1>9, <4>1
    <3>2. CASE c \in used
      <4>1. PICK u \in TablePages, i \in Index : IsLink(depth, u, i) /\ table[u][i].pn = c
        BY <2>4, <3>2 DEF Tree
      <4> QED
        BY <1>8, <4>1
    <3> QED
      BY <2>4, <3>1, <3>2
  <2>5. ASSUME NEW u \in TablePages, NEW w \in TablePages, NEW i \in Index, NEW j \in Index,
               Linked(u, i), Linked(w, j), table'[u][i].pn = table'[w][j].pn
        PROVE  u = w /\ i = j
    <3>1. ASSUME NEW x \in TablePages, NEW k \in Index, IsLink(depth, x, k)
          PROVE  table'[x][k].pn # t /\ table'[x][k] = table[x][k]
      <4>1. table'[x][k] = table[x][k]
        BY <1>8, <3>1
      <4>2. table[x][k].pn \in used
        BY <3>1 DEF Tree
      <4> QED
        BY <4>1, <4>2
    <3>2. CASE IsLink(depth, u, i) /\ IsLink(depth, w, j)
      <4>1. table[u][i].pn = table[w][j].pn
        BY <2>5, <3>1, <3>2
      <4> QED
        BY <3>2, <4>1 DEF Tree
    <3>3. CASE ~(IsLink(depth, u, i) /\ IsLink(depth, w, j))
      <4>1. /\ IsLink(depth, u, i) \/ (u = p /\ i = i0)
            /\ IsLink(depth, w, j) \/ (w = p /\ j = i0)
        BY <1>10, <2>5
      <4>2. table'[p][i0].pn = t
        BY <1>3, <1>5
      <4>3. \/ IsLink(depth, u, i) /\ w = p /\ j = i0
            \/ IsLink(depth, w, j) /\ u = p /\ i = i0
            \/ u = p /\ i = i0 /\ w = p /\ j = i0
        BY <3>3, <4>1
      <4>4. CASE IsLink(depth, u, i) /\ w = p /\ j = i0
        BY <2>5, <3>1, <4>2, <4>4
      <4>5. CASE IsLink(depth, w, j) /\ u = p /\ i = i0
        BY <2>5, <3>1, <4>2, <4>5
      <4>6. CASE u = p /\ i = i0 /\ w = p /\ j = i0
        BY <4>6
      <4> QED
        BY <4>4, <4>5, <4>6, <4>3
    <3> QED
      BY <3>2, <3>3
  <2> QED
    BY <2>1, <2>2, <2>3, <2>4, <2>5, TreeNext DEF Linked
<1> QED
  BY <1>1, <1>4, <1>5, <1>8, <1>11 DEF Present

LEMMA AllocParts ==
  ASSUME NEW depth \in Depths, Good(depth), WalkAllocates
  PROVE  \E t \in Pool \ used, lev \in 0..2, new \in Depths, p \in TablePages, i0 \in Index :
           AllocTurn(depth, t, lev, new, p, i0)
<1>1. PICK t \in Pool \ used :
           /\ phase = "walk" /\ ~Present(WalkEntry)
           /\ table' = [table EXCEPT ![pt] = [@ EXCEPT ![WalkIndex] = Entry(t)],
                                     ![t] = EmptyTable]
           /\ used' = used \cup {t} /\ Descend(t) /\ UNCHANGED <<req, last, result>>
  BY DEF WalkAllocates, Cleared, Present
<1>2. level \in 0..2 /\ pt \in TablePages /\ WalkIndex \in Index
  BY <1>1, WalkAt
<1>3. PICK lev \in 0..2 : level = lev
  BY <1>2
<1>4. PICK p \in TablePages : p = pt
  BY <1>2
<1>5. PICK i0 \in Index : i0 = WalkIndex
  BY <1>2
<1>6. lev + 1 \in 0..3
  OBVIOUS
<1>7. [depth EXCEPT ![t] = lev + 1] \in Depths
  BY <1>6 DEF Depths
<1>8. AllocTurn(depth, t, lev, [depth EXCEPT ![t] = lev + 1], p, i0)
  BY <1>1, <1>3, <1>4, <1>5 DEF AllocTurn
<1> QED
  BY <1>7, <1>8

LEMMA AllocFacts ==
  ASSUME NEW depth \in Depths, Good(depth), NEW t \in Pool \ used, NEW lev \in 0..2,
         NEW new \in Depths, NEW p \in TablePages, NEW i0 \in Index,
         AllocTurn(depth, t, lev, new, p, i0), NEW va \in VPages, va = req.va
  PROVE  /\ p \in used /\ depth[p] = lev /\ Reaches(va, lev, p) /\ i0 = PageIndex(va, lev)
         /\ TypeOK /\ Tree(depth) /\ KernelLinks /\ RequestInv /\ ~Present(table[p][i0])
         /\ last = va \div NENTRIES /\ req.n > 0
         /\ t \in TablePages /\ t # p /\ Tree(new)'
         /\ table' \in [TablePages -> [Index -> PTE]]
         /\ \A u \in TablePages, i \in Index : IsLink(depth, u, i) => table'[u][i] = table[u][i]
         /\ \A u \in TablePages \ {p, t} : table'[u] = table[u]
         /\ table'[p][i0] = Entry(t)
         /\ \A i \in Index \ {i0} : table'[p][i] = table[p][i]
         /\ \A i \in Index : ~("P" \in table'[t][i].perm)
         /\ Reaches(va, lev + 1, t)'
<1>1. /\ level = lev /\ new = [depth EXCEPT ![t] = lev + 1]
      /\ phase = "walk" /\ ~Present(WalkEntry) /\ p = pt /\ i0 = WalkIndex
      /\ table' = [table EXCEPT ![p] = [@ EXCEPT ![i0] = Entry(t)], ![t] = EmptyTable]
      /\ used' = used \cup {t} /\ Descend(t) /\ UNCHANGED <<req, last, result>>
  BY DEF AllocTurn
<1>2. /\ p \in used /\ depth[p] = lev /\ Reaches(va, lev, p) /\ i0 = PageIndex(va, lev)
      /\ TypeOK /\ Tree(depth) /\ KernelLinks /\ RequestInv /\ ~Present(table[p][i0])
      /\ last = va \div NENTRIES
  BY <1>1, WalkAt DEF WalkEntry, WalkIndex
<1>3. req.n > 0
  BY <1>1, <1>2 DEF RequestInv
<1>4. t \in Pool /\ t \notin used
  OBVIOUS
<1>5. /\ t \in TablePages /\ t # p
      /\ \A i \in Index : ~("P" \in table'[t][i].perm)
      /\ \A u \in TablePages, i \in Index : IsLink(depth, u, i) => table'[u][i] = table[u][i]
      /\ \A u \in TablePages \ {p, t} : table'[u] = table[u]
      /\ table'[p][i0] = Entry(t)
      /\ \A i \in Index \ {i0} : table'[p][i] = table[p][i]
      /\ table' \in [TablePages -> [Index -> PTE]]
      /\ Tree(new)'
  BY <1>2, <1>4, AllocTree
<1>6. Reaches(va, lev + 1, t)'
  <2>1. Reaches(va, lev, p)'
    BY <1>2, <1>5, ReachesStays
  <2>2. "P" \in table'[p][i0].perm /\ table'[p][i0].pn = t
    BY <1>5 DEF Entry, All
  <2>3. NextFacts'
    BY NextTurns
  <2>4. table'[p][PageIndex(va, lev)] = table'[p][i0]
    BY <1>2
  <2> QED
    BY <2>1, <2>2, <2>3, <2>4 DEF NextFacts, Present
<1> QED
  BY <1>2, <1>3, <1>5, <1>6

LEMMA WalkAllocatesInv ==
  ASSUME NEW depth \in Depths, Good(depth), WalkAllocates
  PROVE  IInv'
<1>1. PICK t \in Pool \ used, lev \in 0..2, new \in Depths, p \in TablePages, i0 \in Index :
        AllocTurn(depth, t, lev, new, p, i0)
  BY AllocParts
<1>2. PICK va \in VPages : va = req.va
  BY <1>1, WalkAt DEF AllocTurn
<1>3. /\ level = lev /\ phase = "walk" /\ used' = used \cup {t} /\ Descend(t)
      /\ UNCHANGED <<req, last, result>>
  BY <1>1 DEF AllocTurn
<1>4. /\ TypeOK /\ Tree(depth) /\ KernelLinks /\ RequestInv
      /\ last = va \div NENTRIES /\ req.n > 0
      /\ t \in TablePages /\ Tree(new)'
      /\ table' \in [TablePages -> [Index -> PTE]]
      /\ \A u \in TablePages, i \in Index : IsLink(depth, u, i) => table'[u][i] = table[u][i]
      /\ Reaches(va, lev + 1, t)'
  BY <1>1, <1>2, AllocFacts
<1>5. KernelLinks'
  BY <1>4, KernelLinksStay
<1>6. TypeOK'
  <2>1. l4' \in TablePages \cup {NULL} /\ pt' \in TablePages /\ level' \in 0..2
        /\ phase' \in {"idle", "loop", "walk", "store"}
    BY <1>3, <1>4 DEF Descend, TypeOK
  <2>2. used' \subseteq TablePages
    BY <1>3, <1>4 DEF TypeOK
  <2> QED
    BY <1>3, <1>4, <2>1, <2>2 DEF TypeOK
<1>7. WalkInv(new)' /\ CacheInv(new)'
  BY <1>2, <1>3, <1>4, <1>6, DescendInv
<1>8. RequestInv'
  <2>1. phase' \in {"walk", "store"}
    BY <1>3 DEF Descend
  <2>2. last = req.va \div NENTRIES
    BY <1>2, <1>4
  <2> QED
    BY <1>3, <1>4, <2>1, <2>2 DEF RequestInv
<1> QED
  BY <1>4, <1>5, <1>6, <1>7, <1>8, GoodInvNext DEF Good, Shape

LEMMA StepInv == IInv /\ [Next]_vars => IInv'
<1> SUFFICES ASSUME IInv, [Next]_vars PROVE IInv'
  OBVIOUS
<1>1. PICK depth \in Depths : Good(depth)
  BY GoodInv
<1>2. CASE Call
  BY <1>1, <1>2, CallInv, GoodInvNext
<1>3. CASE LoopHead
  BY <1>1, <1>3, LoopHeadInv, GoodInvNext
<1>4. CASE LoopEnd
  BY <1>1, <1>4, LoopEndInv, GoodInvNext
<1>5. CASE StorePage
  BY <1>1, <1>5, StorePageInv, GoodInvNext
<1>6. CASE WalkDown
  BY <1>1, <1>6, WalkDownInv, GoodInvNext
<1>7. CASE WalkAllocates
  BY <1>1, <1>7, WalkAllocatesInv
<1>8. CASE WalkFails
  BY <1>1, <1>8, WalkFailsInv, GoodInvNext
<1>9. CASE UNCHANGED vars
  <2>1. UNCHANGED <<table, used>>
        /\ UNCHANGED <<phase, req, last, l4, pt, level, result>>
    BY <1>9 DEF vars
  <2>2. TypeOK /\ KernelLinks /\ RequestInv /\ Tree(depth) /\ WalkInv(depth) /\ CacheInv(depth)
    BY <1>1 DEF Good, Shape
  <2>3. Tree(depth)' /\ KernelLinks' /\ \A va, lev, t : Reaches(va, lev, t)' <=> Reaches(va, lev, t)
    BY <2>1, <2>2, SameTables
  <2>4. TypeOK' /\ RequestInv'
    BY <2>1, <2>2 DEF TypeOK, RequestInv
  <2>5. PICK lev, p : lev = level /\ p = pt
    OBVIOUS
  <2>6. WalkInv(depth)'
    <3>1. phase = "walk" => Reaches(req.va, lev, p)
      BY <2>2, <2>5 DEF WalkInv
    <3>2. \A va : Reaches(va, lev, p) => Reaches(va, lev, p)'
      BY <2>3
    <3> QED
      BY <2>1, <2>2, <2>5, <3>1, <3>2 DEF WalkInv
  <2>7. CacheInv(depth)'
    BY <2>1, <2>2, <2>3 DEF CacheInv
  <2> QED
    BY <2>3, <2>4, <2>6, <2>7, GoodInvNext DEF Good, Shape
<1> QED
  BY <1>2, <1>3, <1>4, <1>5, <1>6, <1>7, <1>8, <1>9 DEF Next

\* Every state has its tables in a tree, and its walk and its cached table where
\* they should be.
THEOREM Inductive == Spec => []IInv
<1> QED
  BY InitShape, StepInv, PTL DEF Spec

-----------------------------------------------------------------------------
(* The properties *)

LEMMA WalksFollow == IInv => WalksSucceed
<1> SUFFICES ASSUME IInv PROVE WalksSucceed
  OBVIOUS
<1>1. PICK depth \in Depths : Good(depth)
  BY GoodInv
<1>2. TypeOK /\ RequestInv /\ Tree(depth) /\ CacheInv(depth)
  BY <1>1 DEF Good, Shape
<1>3. WalkAssertionsPass
  <2> SUFFICES ASSUME phase = "walk", Present(WalkEntry)
               PROVE  WalkEntry.pn \in used \ {kernel_pagetable} /\ req.perm \subseteq WalkEntry.perm
    BY DEF WalkAssertionsPass
  <2>1. IsLink(depth, pt, WalkIndex) /\ pt \in TablePages /\ WalkIndex \in Index
    BY <1>1, WalkAt DEF IsLink, WalkEntry
  <2>2. /\ WalkEntry.pn \in used /\ WalkEntry.perm = All
        /\ depth[WalkEntry.pn] = depth[pt] + 1 /\ depth[pt] = level /\ level \in 0..2
    BY <1>1, <1>2, <2>1, WalkAt DEF Tree, WalkEntry
  <2>3. depth[kernel_pagetable] = 0
    BY <1>2 DEF Tree
  <2>4. req.perm \subseteq All
    BY <1>2 DEF TypeOK, All
  <2> QED
    BY <2>2, <2>3, <2>4
<1>4. CacheFresh
  <2> SUFFICES ASSUME phase = "store", l4 # NULL
               PROVE  /\ Present(Entry0(req.va)) /\ Present(Entry1(req.va))
                      /\ Present(Entry2(req.va)) /\ l4 = Entry2(req.va).pn
    BY DEF CacheFresh, Entry0, Entry1, Entry2
  <2>1. req.n > 0 /\ last = req.va \div NENTRIES
    BY <1>2 DEF RequestInv
  <2>2. req.va \in VPages /\ last # -1
    BY <1>2, <2>1, NextPage
  <2>3. Reaches(req.va, 3, l4)
    BY <1>2, <2>1, <2>2 DEF CacheInv
  <2> QED
    BY <2>3 DEF Reaches
<1>5. LowMapsSucceed
  BY <1>2 DEF RequestInv, LowMapsSucceed
<1> QED
  BY <1>2, <1>3, <1>4, <1>5 DEF WalksSucceed

\* No assertion of lookup_l4pagetable() fails, the table an entry is stored in is
\* the right one, and no call fails that stays within the kernel's own tables,
\* whatever the calls and whatever the allocator does.
THEOREM WalksAlwaysSucceed == Spec => []WalksSucceed
<1> QED
  BY Inductive, WalksFollow, PTL

-----------------------------------------------------------------------------
(* The tables implement the flat mapping *)

\* Before virtual_memory_init()'s call, nothing is mapped.
LEMMA InitMapsNothing ==
  ASSUME Init, NEW va \in VPages
  PROVE  Lookup(va) = NotMapped
<1>1. PICK depth \in Depths : Good(depth)
  BY InitShape, GoodInv
<1>2. TypeOK /\ Tree(depth) /\ KernelLinks
  BY <1>1 DEF Good, Shape
<1> DEFINE T(i) == KernelTables[i]
<1>3. \A i \in 1..5 : T(i) \in TablePages
  BY Sizes
<1>4. depth[T(1)] = 0 /\ depth[T(2)] = 1 /\ depth[T(3)] = 2
  <2>1. depth[T(1)] = 0
    BY <1>2 DEF Tree, kernel_pagetable
  <2>2. IsLink(depth, T(1), 0) /\ table[T(1)][0].pn = T(2) /\ 0 \in Index
        /\ IsLink(depth, T(2), 0) /\ table[T(2)][0].pn = T(3)
    BY <1>2, KernelDepths, Sizes DEF KernelLinks, Entry
  <2>3. depth[T(2)] = depth[T(1)] + 1
    BY <1>2, <1>3, <2>2 DEF Tree
  <2>4. depth[T(3)] = depth[T(2)] + 1
    BY <1>2, <1>3, <2>2 DEF Tree
  <2> QED
    BY <2>1, <2>3, <2>4
<1>5. CASE \A t \in TablePages : ~Reaches(va, 3, t)
  BY <1>2, <1>5, Lookups DEF LookupFacts
<1>6. ASSUME NEW t \in TablePages, Reaches(va, 3, t)
      PROVE  Lookup(va) = NotMapped
  <2>1. t \in used /\ depth[t] = 3
    BY <1>2, <1>6, ReachedDepth
  <2>2. t = T(4) \/ t = T(5)
    <3>1. t = T(1) \/ t = T(2) \/ t = T(3) \/ t = T(4) \/ t = T(5)
      <4>1. PICK i \in 1..5 : t = T(i)
        BY <2>1 DEF Init
      <4>2. i = 1 \/ i = 2 \/ i = 3 \/ i = 4 \/ i = 5
        OBVIOUS
      <4> QED
        BY <4>1, <4>2
    <3> QED
      BY <1>4, <2>1, <3>1
  <2>3. table[t] = EmptyTable
    <3>1. /\ T(1) # T(4) /\ T(1) # T(5) /\ T(2) # T(4) /\ T(2) # T(5)
          /\ T(3) # T(4) /\ T(3) # T(5)
      BY TableAssumption
    <3> QED
      BY <2>2, <3>1 DEF Init, InitialTable
  <2>4. PageIndex(va, 3) \in Index
    BY IndexRange
  <2>5. ~Present(table[t][PageIndex(va, 3)])
    BY <2>3, <2>4 DEF EmptyTable, NotMapped, Present
  <2> QED
    BY <1>2, <1>6, <2>5, Lookups DEF LookupFacts
<1> QED
  BY <1>5, <1>6

LEMMA InitFlat == Init => Flat!AInit
<1> SUFFICES ASSUME Init PROVE Flat!AInit
  OBVIOUS
<1>1. AbsMap = [va \in VPages |-> NotMapped]
  BY InitMapsNothing DEF AbsMap
<1>2. AbsBusy = TRUE
  BY DEF Init, AbsBusy
<1> QED
  BY <1>1, <1>2 DEF Flat!AInit, Init

\* Walks are as they were while the tables they run through are.
LEMMA ReachesSame ==
  ASSUME NEW depth \in Depths, TypeOK, Tree(depth), NEW va \in VPages,
         \A u \in TablePages : u \in used /\ depth[u] < 3 => table'[u] = table[u]
  PROVE  \A t : Reaches(va, 3, t)' <=> Reaches(va, 3, t)
<1>1. Entry0(va)' = Entry0(va)
  <2>1. kernel_pagetable \in used /\ depth[kernel_pagetable] = 0 /\ kernel_pagetable \in TablePages
    BY DEF Tree, TypeOK
  <2> QED
    BY <2>1 DEF Entry0, Step
<1>2. Present(Entry0(va)) => Entry1(va)' = Entry1(va)
  <2> SUFFICES ASSUME Present(Entry0(va)) PROVE Entry1(va)' = Entry1(va)
    OBVIOUS
  <2>1. Entry0(va).pn \in used /\ depth[Entry0(va).pn] = 1 /\ Entry0(va).pn \in TablePages
    BY Paths DEF PathFacts, TypeOK
  <2> QED
    BY <1>1, <2>1 DEF Entry1, Step
<1>3. Present(Entry0(va)) /\ Present(Entry1(va)) => Entry2(va)' = Entry2(va)
  <2> SUFFICES ASSUME Present(Entry0(va)), Present(Entry1(va)) PROVE Entry2(va)' = Entry2(va)
    OBVIOUS
  <2>1. Entry1(va).pn \in used /\ depth[Entry1(va).pn] = 2 /\ Entry1(va).pn \in TablePages
    BY Paths DEF PathFacts, TypeOK
  <2> QED
    BY <1>2, <2>1 DEF Entry2, Step
<1> QED
  BY <1>1, <1>2, <1>3 DEF Reaches

\* What a lookup finds, in this state and in the next.
Found(e) == IF Present(e) THEN e ELSE NotMapped

LEMMA LookupTwice ==
  ASSUME NEW depth \in Depths, TypeOK, Tree(depth), NEW new \in Depths, TypeOK', Tree(new)',
         NEW va \in VPages
  PROVE  /\ \A t : Reaches(va, 3, t) => Lookup(va) = Found(table[t][PageIndex(va, 3)])
         /\ \A t : Reaches(va, 3, t)' => Lookup(va)' = Found(table'[t][PageIndex(va, 3)])
         /\ (\A t \in TablePages : ~Reaches(va, 3, t)) => Lookup(va) = NotMapped
         /\ (\A t \in TablePages : ~Reaches(va, 3, t)') => Lookup(va)' = NotMapped
<1>1. /\ \A t : Reaches(va, 3, t) => Lookup(va) = Found(table[t][PageIndex(va, 3)])
      /\ (\A t \in TablePages : ~Reaches(va, 3, t)) => Lookup(va) = NotMapped
  BY Lookups DEF LookupFacts, Found
<1>2. \A t : Reaches(va, 3, t)' => Lookup(va)' = Found(table'[t][PageIndex(va, 3)])
  BY LookupsNext DEF LookupFacts, Found, Present
<1>3. (\A t \in TablePages : ~Reaches(va, 3, t)') => Lookup(va)' = NotMapped
  BY LookupsNext DEF LookupFacts
<1> QED
  BY <1>1, <1>2, <1>3

\* Allocating a table changes no lookup: the walks that get to it find it empty.
LEMMA AllocReaches ==
  ASSUME NEW depth \in Depths, TypeOK, Tree(depth), NEW t, t \notin used,
         NEW p \in TablePages, NEW i0 \in Index,
         table'[p][i0] = Entry(t), \A i \in Index : ~Present(table'[t][i]),
         \A u \in TablePages \ {p, t} : table'[u] = table[u],
         \A i \in Index \ {i0} : table'[p][i] = table[p][i],
         NEW va \in VPages, NEW y, Reaches(va, 3, y)'
  PROVE  y = t \/ Reaches(va, 3, y)
<1>1. PageIndex(va, 0) \in Index /\ PageIndex(va, 1) \in Index /\ PageIndex(va, 2) \in Index
  BY IndexRange
<1>2. ASSUME NEW u \in used, NEW i \in Index
      PROVE  table'[u][i] = table[u][i] \/ table'[u][i].pn = t
  <2>1. u \in TablePages /\ u # t
    BY DEF TypeOK
  <2> QED
    BY <2>1 DEF Entry
<1>3. kernel_pagetable \in used
  BY DEF Tree
<1>4. /\ Present(Entry0(va)') /\ Present(Entry1(va)') /\ Present(Entry2(va)')
      /\ y = Entry2(va)'.pn
  BY DEF Reaches, Present
<1>5. Entry0(va)' = Entry0(va) \/ Entry0(va)'.pn = t
  BY <1>1, <1>2, <1>3 DEF Entry0, Step
<1>6. Entry0(va)'.pn # t
  <2> SUFFICES ASSUME Entry0(va)'.pn = t PROVE FALSE
    OBVIOUS
  <2>1. Entry1(va)' = table'[t][PageIndex(va, 1)]
    BY DEF Entry1, Step
  <2> QED
    BY <1>1, <1>4, <2>1
<1>7. Entry0(va)' = Entry0(va) /\ Present(Entry0(va)) /\ Entry0(va).pn \in used
  BY <1>4, <1>5, <1>6, Paths DEF PathFacts
<1>8. Entry1(va)' = Entry1(va) \/ Entry1(va)'.pn = t
  BY <1>1, <1>2, <1>7 DEF Entry1, Step
<1>9. Entry1(va)'.pn # t
  <2> SUFFICES ASSUME Entry1(va)'.pn = t PROVE FALSE
    OBVIOUS
  <2>1. Entry2(va)' = table'[t][PageIndex(va, 2)]
    BY DEF Entry2, Step
  <2> QED
    BY <1>1, <1>4, <2>1
<1>10. Entry1(va)' = Entry1(va) /\ Present(Entry1(va)) /\ Entry1(va).pn \in used
  BY <1>4, <1>7, <1>8, <1>9, Paths DEF PathFacts
<1>11. Entry2(va)' = Entry2(va) \/ Entry2(va)'.pn = t
  BY <1>1, <1>2, <1>10 DEF Entry2, Step
<1> QED
  BY <1>4, <1>7, <1>10, <1>11 DEF Reaches

LEMMA AllocLookup ==
  ASSUME NEW depth \in Depths, Good(depth), WalkAllocates, NEW va \in VPages
  PROVE  Lookup(va)' = Lookup(va)
<1>1. PICK t \in Pool \ used, lev \in 0..2, new \in Depths, p \in TablePages, i0 \in Index :
        AllocTurn(depth, t, lev, new, p, i0)
  BY AllocParts
<1>2. PICK vr \in VPages : vr = req.va
  BY <1>1, WalkAt DEF AllocTurn
<1>3. /\ p \in used /\ depth[p] = lev
      /\ TypeOK /\ Tree(depth) /\ t \in TablePages /\ t # p /\ Tree(new)'
      /\ \A u \in TablePages, i \in Index : IsLink(depth, u, i) => table'[u][i] = table[u][i]
      /\ \A u \in TablePages \ {p, t} : table'[u] = table[u]
      /\ table'[p][i0] = Entry(t)
      /\ \A i \in Index \ {i0} : table'[p][i] = table[p][i]
      /\ \A i \in Index : ~("P" \in table'[t][i].perm)
  BY <1>1, <1>2, AllocFacts
<1>4. TypeOK' /\ t \notin used
  BY WalkAllocatesInv DEF IInv, Good
<1>5. PageIndex(va, 3) \in Index
  BY IndexRange
<1>6. ASSUME NEW x \in TablePages, Reaches(va, 3, x)
      PROVE  Lookup(va)' = Lookup(va)
  <2>1. x \in used /\ depth[x] = 3
    BY <1>3, <1>6, ReachedDepth
  <2>2. table'[x] = table[x]
    BY <1>3, <1>4, <2>1
  <2>3. Reaches(va, 3, x)'
    BY <1>3, <1>6, ReachesStays
  <2> QED
    BY <1>3, <1>4, <1>6, <2>2, <2>3, LookupTwice
<1>7. ASSUME \A x \in TablePages : ~Reaches(va, 3, x)
      PROVE  Lookup(va)' = Lookup(va)
  <2>1. Lookup(va) = NotMapped
    BY <1>3, <1>4, <1>7, LookupTwice
  <2>2. CASE \A y \in TablePages : ~Reaches(va, 3, y)'
    BY <1>3, <1>4, <2>1, <2>2, LookupTwice
  <2>3. ASSUME NEW y \in TablePages, Reaches(va, 3, y)'
        PROVE  Lookup(va)' = NotMapped
    <3>1. \A i \in Index : ~Present(table'[t][i])
      BY <1>3 DEF Present
    <3>2. y = t
      BY <1>3, <1>4, <1>7, <2>3, <3>1, AllocReaches
    <3>3. Lookup(va)' = Found(table'[y][PageIndex(va, 3)])
      BY <1>3, <1>4, <2>3, LookupTwice
    <3> QED
      BY <1>5, <3>1, <3>2, <3>3 DEF Found
  <2> QED
    BY <2>1, <2>2, <2>3
<1> QED
  BY <1>6, <1>7

\* Storing an entry changes the lookup of the page it is for, and no other.
LEMMA StoreLookup ==
  ASSUME NEW depth \in Depths, Good(depth), StorePage, ~(l4 = NULL /\ "P" \in req.perm),
         NEW va \in VPages
  PROVE  Lookup(va)' = IF va # req.va THEN Lookup(va)
                       ELSE IF "P" \in req.perm THEN [pn |-> req.pa, perm |-> req.perm]
                       ELSE NotMapped
<1> DEFINE e == [pn |-> IF "P" \in req.perm THEN req.pa ELSE NULL, perm |-> req.perm]
<1>1. /\ phase = "store" /\ used' = used
      /\ table' = IF l4 = NULL THEN table
                  ELSE [table EXCEPT ![l4][PageIndex(req.va, 3)] = e]
  BY DEF StorePage
<1>2. TypeOK /\ Tree(depth) /\ CacheInv(depth) /\ RequestInv
  BY DEF Good, Shape
<1>3. req.n > 0 /\ last = req.va \div NENTRIES
  BY <1>1, <1>2 DEF RequestInv
<1>4. req.va \in VPages /\ last # -1
  BY <1>2, <1>3, NextPage
<1>5. TypeOK' /\ Tree(depth)'
  BY StorePageInv DEF Good, Shape
<1>6. PageIndex(va, 3) \in Index /\ PageIndex(req.va, 3) \in Index
  BY <1>4, IndexRange
<1>7. CASE l4 = NULL
  <2>1. table' = table /\ "P" \notin req.perm
    BY <1>1, <1>7
  <2>2. \A t : Reaches(va, 3, t)' <=> Reaches(va, 3, t)
    BY <1>1, <2>1, SameTables
  <2>3. Lookup(va)' = Lookup(va)
    <3>1. CASE \A t \in TablePages : ~Reaches(va, 3, t)
      BY <1>2, <1>5, <2>2, <3>1, LookupTwice
    <3>2. ASSUME NEW t \in TablePages, Reaches(va, 3, t)
          PROVE  Lookup(va)' = Lookup(va)
      BY <1>2, <1>5, <2>1, <2>2, <3>2, LookupTwice
    <3> QED
      BY <3>1, <3>2
  <2>4. va = req.va => Lookup(va) = NotMapped
    <3> SUFFICES ASSUME va = req.va PROVE Lookup(va) = NotMapped
      OBVIOUS
    <3>1. \A t \in TablePages : ~Reaches(va, 3, t)
      BY <1>1, <1>2, <1>3, <1>4, <1>7 DEF CacheInv
    <3> QED
      BY <1>2, <3>1, Lookups DEF LookupFacts
  <2> QED
    BY <2>1, <2>3, <2>4
<1>8. CASE l4 # NULL
  <2>1. /\ l4 \in used /\ depth[l4] = 3 /\ l4 \in TablePages
        /\ \A vb \in VPages : vb \div NENTRIES = last => Reaches(vb, 3, l4)
    BY <1>1, <1>2, <1>4, <1>8 DEF CacheInv, TypeOK
  <2>2. PICK x \in TablePages : x = l4
    BY <2>1
  <2>3. /\ \A u \in TablePages : u # x => table'[u] = table[u]
        /\ table'[x][PageIndex(req.va, 3)] = e
        /\ \A i \in Index : i # PageIndex(req.va, 3) => table'[x][i] = table[x][i]
    <3> HIDE DEF e
    <3>1. table \in [TablePages -> [Index -> PTE]]
      BY <1>2 DEF TypeOK
    <3>2. table' = [table EXCEPT ![x][PageIndex(req.va, 3)] = e]
      BY <1>1, <1>8, <2>2
    <3> QED
      BY <1>6, <3>1, <3>2
  <2>4. \A t : Reaches(va, 3, t)' <=> Reaches(va, 3, t)
    <3>1. \A u \in TablePages : u \in used /\ depth[u] < 3 => table'[u] = table[u]
      BY <2>1, <2>2, <2>3
    <3> QED
      BY <1>2, <3>1, ReachesSame
  <2>5. CASE va = req.va
    <3>1. Reaches(va, 3, x)
      BY <1>3, <2>1, <2>2, <2>5
    <3>2. Lookup(va)' = Found(table'[x][PageIndex(va, 3)])
      BY <1>2, <1>5, <2>4, <3>1, LookupTwice
    <3>3. Lookup(va)' = Found(e)
      BY <2>3, <2>5, <3>2
    <3> QED
      BY <2>5, <3>3 DEF Found, Present
  <2>6. CASE va # req.va
    <3>1. CASE \A t \in TablePages : ~Reaches(va, 3, t)
      BY <1>2, <1>5, <2>4, <2>6, <3>1, LookupTwice
    <3>2. ASSUME NEW t \in TablePages, Reaches(va, 3, t)
          PROVE  Lookup(va)' = Lookup(va)
      <4>1. table'[t][PageIndex(va, 3)] = table[t][PageIndex(va, 3)]
        <5>1. CASE t # x
          BY <2>3, <5>1
        <5>2. CASE t = x
          <6>1. Reaches(req.va, 3, x)
            BY <1>3, <1>4, <2>1, <2>2
          <6>2. va \div NENTRIES = req.va \div NENTRIES
            BY <1>2, <1>4, <3>2, <5>2, <6>1, ReachesApart
          <6>3. PageIndex(va, 3) # PageIndex(req.va, 3)
            <7> SUFFICES ASSUME PageIndex(va, 3) = PageIndex(req.va, 3) PROVE FALSE
              OBVIOUS
            <7>1. va \in Nat /\ req.va \in Nat
              BY <1>4 DEF VPages
            <7>2. \A lev \in 0..2 : PageIndex(va, lev) = PageIndex(req.va, lev)
              BY <6>2, <7>1, IndexUnique
            <7>3. \A lev \in 0..3 : lev \in 0..2 \/ lev = 3
              OBVIOUS
            <7>4. \A lev \in 0..3 : PageIndex(va, lev) = PageIndex(req.va, lev)
              BY <7>2, <7>3
            <7> QED
              BY <2>6, <7>1, <7>4, IndexUnique
          <6> QED
            BY <1>6, <2>3, <5>2, <6>3
        <5> QED
          BY <5>1, <5>2
      <4> QED
        BY <1>2, <1>5, <2>4, <3>2, <4>1, LookupTwice
    <3> QED
      BY <2>6, <3>1, <3>2
  <2> QED
    BY <2>5, <2>6
<1> QED
  BY <1>7, <1>8

\* Where the tables and the walks are as they were, so are the lookups.
LEMMA SameLookup ==
  ASSUME UNCHANGED table
  PROVE  AbsMap' = AbsMap
BY DEF AbsMap, Lookup, Step

LEMMA StepFlat == IInv /\ [Next]_vars => [Flat!ANext]_(Flat!avars)
<1> SUFFICES ASSUME IInv, [Next]_vars PROVE [Flat!ANext]_(Flat!avars)
  OBVIOUS
<1>1. PICK depth \in Depths : Good(depth)
  BY GoodInv
<1>2. TypeOK /\ RequestInv
  BY <1>1 DEF Good
<1>3. CASE Call
  <2>1. AbsMap' = AbsMap /\ ~AbsBusy /\ AbsBusy' = TRUE
    BY <1>3, SameLookup DEF Call, AbsBusy
  <2>2. Flat!ACall
    BY <1>3, <2>1 DEF Call, Flat!ACall
  <2> QED
    BY <2>2 DEF Flat!ANext
<1>4. CASE LoopHead
  <2>1. AbsMap' = AbsMap /\ AbsBusy' = AbsBusy
    BY <1>4, SameLookup DEF LoopHead, AbsBusy
  <2> QED
    BY <1>4, <2>1 DEF LoopHead, Flat!avars
<1>5. CASE LoopEnd
  <2>1. AbsMap' = AbsMap /\ AbsBusy = TRUE /\ AbsBusy' = FALSE
    BY <1>5, SameLookup DEF LoopEnd, AbsBusy
  <2>2. Flat!AReturn
    BY <1>5, <2>1 DEF LoopEnd, Flat!AReturn
  <2> QED
    BY <2>2 DEF Flat!ANext
<1>6. CASE StorePage
  <2>1. phase = "store" /\ req.n > 0 /\ AbsBusy = TRUE
    BY <1>2, <1>6 DEF StorePage, RequestInv, AbsBusy
  <2>2. CASE l4 = NULL /\ "P" \in req.perm
    <3>1. AbsMap' = AbsMap /\ AbsBusy' = FALSE /\ req' = req /\ result' = -1
      BY <1>6, <2>2, SameLookup DEF StorePage, AbsBusy
    <3>2. Flat!AReturn
      BY <2>1, <2>2, <3>1 DEF Flat!AReturn
    <3> QED
      BY <3>2 DEF Flat!ANext
  <2>3. CASE ~(l4 = NULL /\ "P" \in req.perm)
    <3> DEFINE entry == IF "P" \in req.perm THEN [pn |-> req.pa, perm |-> req.perm]
                                            ELSE NotMapped
    <3>1. /\ req' = [req EXCEPT !.va = @ + 1, !.pa = @ + 1, !.n = @ - 1]
          /\ result' = result /\ AbsBusy' = TRUE
      BY <1>6, <2>3 DEF StorePage, AbsBusy
    <3>2. ASSUME NEW va \in VPages
          PROVE  Lookup(va)' = IF va # req.va THEN Lookup(va) ELSE entry
      BY <1>1, <1>6, <2>3, StoreLookup
    <3> HIDE DEF entry
    <3>3. AbsMap' = [AbsMap EXCEPT ![req.va] = entry]
      BY <3>2 DEF AbsMap
    <3>4. Flat!AMapPage
      BY <2>1, <3>1, <3>3 DEF Flat!AMapPage, entry
    <3> QED
      BY <3>4 DEF Flat!ANext
  <2> QED
    BY <2>2, <2>3
<1>7. CASE WalkDown
  <2>1. phase = "walk" /\ AbsMap' = AbsMap /\ phase' \in {"walk", "store"}
    BY <1>7, SameLookup DEF WalkDown, Descend
  <2> QED
    BY <1>7, <2>1 DEF WalkDown, AbsBusy, Flat!avars
<1>8. CASE WalkAllocates
  <2>1. AbsMap' = AbsMap
    BY <1>1, <1>8, AllocLookup DEF AbsMap
  <2>2. phase = "walk" /\ phase' \in {"walk", "store"} /\ UNCHANGED <<req, last, result>>
    BY <1>8 DEF WalkAllocates, Descend
  <2> QED
    BY <2>1, <2>2 DEF AbsBusy, Flat!avars
<1>9. CASE WalkFails
  <2>1. AbsMap' = AbsMap /\ AbsBusy' = AbsBusy
    BY <1>9, SameLookup DEF WalkFails, AbsBusy
  <2> QED
    BY <1>9, <2>1 DEF WalkFails, Flat!avars
<1>10. CASE UNCHANGED vars
  <2>1. AbsMap' = AbsMap /\ AbsBusy' = AbsBusy
    BY <1>10, SameLookup DEF vars, AbsBusy
  <2> QED
    BY <1>10, <2>1 DEF vars, Flat!avars
<1> QED
  BY <1>3, <1>4, <1>5, <1>6, <1>7, <1>8, <1>9, <1>10 DEF Next

\* The four-level tables show the flat mapping the calls asked for, whatever the
\* calls and whatever the allocator does: allocating a table maps nothing,
\* storing an entry changes one page, a failure keeps what was done.
THEOREM FlatImplemented == Spec => ImplementsFlat
<1>1. Init => Flat!AInit
  BY InitFlat
<1>2. IInv /\ [Next]_vars => [Flat!ANext]_(Flat!avars)
  BY StepFlat
<1>3. Spec => []IInv
  BY Inductive
<1> QED
  BY <1>1, <1>2, <1>3, PTL DEF Spec, ImplementsFlat, Flat!ASpec

-----------------------------------------------------------------------------
(* The tables form a tree *)

\* The tables in use at one depth are the root or those linked from the depth above.
LEMMA Generation ==
  ASSUME NEW depth \in Depths, TypeOK, Tree(depth), NEW d \in 0..2
  PROVE  /\ {u \in used : depth[u] = 0} = {kernel_pagetable}
         /\ UNION {Children(t) : t \in {u \in used : depth[u] = d}} = {u \in used : depth[u] = d + 1}
<1>1. {u \in used : depth[u] = 0} = {kernel_pagetable}
  <2>1. kernel_pagetable \in used /\ depth[kernel_pagetable] = 0
    BY DEF Tree
  <2>2. ASSUME NEW c \in used, c # kernel_pagetable
        PROVE  depth[c] # 0
    <3>1. PICK t \in TablePages, i \in Index : IsLink(depth, t, i) /\ table[t][i].pn = c
      BY <2>2 DEF Tree
    <3>2. depth[c] = depth[t] + 1 /\ depth[t] \in 0..3
      BY <3>1 DEF Tree
    <3> QED
      BY <3>2
  <2> QED
    BY <2>1, <2>2
<1>2. ASSUME NEW t \in used, depth[t] = d, NEW c \in Children(t)
      PROVE  c \in used /\ depth[c] = d + 1
  <2>1. PICK i \in Index : Present(table[t][i]) /\ table[t][i].pn = c
    BY DEF Children
  <2>2. IsLink(depth, t, i) /\ t \in TablePages
    BY <1>2, <2>1 DEF IsLink, TypeOK
  <2> QED
    BY <1>2, <2>1, <2>2 DEF Tree
<1>3. ASSUME NEW c \in used, depth[c] = d + 1
      PROVE  \E t \in used : depth[t] = d /\ c \in Children(t)
  <2>1. c # kernel_pagetable
    BY <1>3 DEF Tree
  <2>2. PICK t \in TablePages, i \in Index : IsLink(depth, t, i) /\ table[t][i].pn = c
    BY <2>1 DEF Tree
  <2>3. depth[c] = depth[t] + 1 /\ depth[t] \in 0..3
    BY <2>2 DEF Tree
  <2>4. c \in Children(t) /\ t \in used
    BY <2>2 DEF IsLink, Children
  <2> QED
    BY <1>3, <2>3, <2>4
<1>4. UNION {Children(t) : t \in {u \in used : depth[u] = d}} = {u \in used : depth[u] = d + 1}
  BY <1>2, <1>3
<1> QED
  BY <1>1, <1>4

LEMMA UpperTables ==
  ASSUME NEW depth \in Depths, TypeOK, Tree(depth)
  PROVE  Upper = {u \in used : depth[u] < 3}
<1> DEFINE At(d) == {u \in used : depth[u] = d}
<1>1. At(0) = {kernel_pagetable}
  BY Generation
<1>2. UNION {Children(t) : t \in At(0)} = At(0 + 1) /\ UNION {Children(t) : t \in At(1)} = At(1 + 1)
  BY Generation
<1>3. Children(kernel_pagetable) = At(1)
  BY <1>1, <1>2
<1>4. Upper = At(0) \cup At(1) \cup At(2)
  BY <1>1, <1>2, <1>3 DEF Upper
<1>5. \A u \in used : depth[u] \in 0..3
  BY DEF Depths, TypeOK
<1> QED
  BY <1>4, <1>5

LEMMA TreeFollows == IInv => TablesFormTree
<1> SUFFICES ASSUME IInv PROVE TablesFormTree
  OBVIOUS
<1>1. PICK depth \in Depths : TypeOK /\ Tree(depth)
  BY GoodInv DEF Good, Shape
<1> DEFINE links == {l \in Upper \X Index : Present(table[l[1]][l[2]])}
           Target(l) == table[l[1]][l[2]].pn
           targets == {Target(l) : l \in links}
<1>2. ASSUME NEW l \in links
      PROVE  /\ l[1] \in TablePages /\ l[2] \in Index /\ l = <<l[1], l[2]>>
             /\ IsLink(depth, l[1], l[2])
  <2>1. l[1] \in used /\ depth[l[1]] < 3
    BY <1>1, UpperTables
  <2> QED
    BY <1>1, <2>1 DEF IsLink, TypeOK
<1>3. targets = used \ {kernel_pagetable}
  <2>1. ASSUME NEW l \in links
        PROVE  Target(l) \in used \ {kernel_pagetable}
    <3>1. Target(l) \in used /\ depth[Target(l)] = depth[l[1]] + 1 /\ depth[l[1]] \in 0..3
      BY <1>1, <1>2 DEF Tree
    <3>2. depth[kernel_pagetable] = 0
      BY <1>1 DEF Tree
    <3> QED
      BY <3>1, <3>2
  <2>2. ASSUME NEW c \in used \ {kernel_pagetable}
        PROVE  \E l \in links : Target(l) = c
    <3>1. PICK t \in TablePages, i \in Index : IsLink(depth, t, i) /\ table[t][i].pn = c
      BY <1>1 DEF Tree
    <3>2. <<t, i>> \in links
      BY <1>1, <3>1, UpperTables DEF IsLink
    <3>3. Target(<<t, i>>) = c
      BY <3>1
    <3> QED
      BY <3>2, <3>3
  <2> HIDE DEF links, Target
  <2> QED
    BY <2>1, <2>2
<1>4. ASSUME NEW l \in links, NEW m \in links, Target(l) = Target(m)
      PROVE  l = m
  <2>1. l[1] = m[1] /\ l[2] = m[2]
    BY <1>1, <1>2, <1>4 DEF Tree
  <2> QED
    BY <1>2, <2>1
<1>5. IsFiniteSet(links)
  <2>1. IsFiniteSet(0..NPages-1) /\ IsFiniteSet(0..NENTRIES-1)
    BY Sizes, FS_Interval
  <2>2. Upper \in SUBSET (0..NPages-1)
    BY <1>1, UpperTables, Sizes DEF TypeOK, PhysPages
  <2>3. IsFiniteSet(Upper)
    BY <2>1, <2>2, FS_Subset
  <2>4. IsFiniteSet(Upper \X Index)
    BY <2>1, <2>3, FS_Product DEF Index
  <2>5. links \in SUBSET (Upper \X Index)
    OBVIOUS
  <2> QED
    BY <2>4, <2>5, FS_Subset
<1>6. ExistsBijection(links, targets)
  <2> HIDE DEF links, Target
  <2> DEFINE f == [l \in links |-> Target(l)]
  <2>1. f \in Injection(links, targets)
    BY <1>4 DEF Injection, IsInjective
  <2>2. f \in Surjection(links, targets)
    BY DEF Surjection
  <2> QED
    BY <2>1, <2>2 DEF ExistsBijection, Bijection
<1>7. Cardinality(targets) = Cardinality(links)
  BY <1>5, <1>6, FS_Bijection
<1> QED
  BY <1>3, <1>7 DEF TablesFormTree

\* Each table in use but the root has exactly one entry naming it, above level 4,
\* whatever was allocated and in whatever order.
THEOREM TablesAlwaysFormTree == Spec => []TablesFormTree
<1> QED
  BY Inductive, TreeFollows, PTL
=============================================================================
