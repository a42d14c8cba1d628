--------------------------- MODULE FsImageProofs ----------------------------
(***************************************************************************)
(* Proofs about the formatter: whatever files it is given, no block of the *)
(* image it finishes has two uses, the bitmap says which have one, and     *)
(* every file can be found and read back.                                  *)
(***************************************************************************)
EXTENDS FsImageInv, FiniteSetTheorems, WellFoundedInduction, TLAPS

-----------------------------------------------------------------------------
(* Arithmetic and induction *)

LEMMA DivMod ==
  ASSUME NEW a \in Nat, NEW m \in Nat, m > 0
  PROVE  a \div m \in Nat /\ a % m \in 0..m-1 /\ a = m * (a \div m) + (a % m)
OBVIOUS

\* Quotient and remainder are unique.
LEMMA DivUnique ==
  ASSUME NEW m \in Nat, m > 0, NEW s \in Nat, NEW z \in 0..m-1, NEW a \in Nat, a = m * s + z
  PROVE  a \div m = s /\ a % m = z
<1> DEFINE q == a \div m
           r == a % m
<1>1. q \in Nat /\ r \in 0..m-1 /\ a = m * q + r
  BY DivMod
<1> HIDE DEF q, r
<1>2. ASSUME NEW x \in Nat, NEW y \in Nat, NEW u \in 0..m-1, NEW v \in 0..m-1,
             m * x + u = m * y + v
      PROVE  ~(x < y)
  <2> SUFFICES ASSUME x < y PROVE FALSE
    OBVIOUS
  <2>1. PICK k \in Nat : y = x + 1 + k
    <3>1. y - x - 1 \in Nat /\ y = x + 1 + (y - x - 1)
      OBVIOUS
    <3> QED
      BY <3>1
  <2>2. m * y = m * x + m + m * k /\ m * k \in Nat /\ m * x \in Nat
    BY <2>1
  <2> QED
    BY <1>2, <2>2
<1>3. q = s
  BY <1>1, <1>2
<1>4. m * q = m * s /\ m * q \in Nat
  BY <1>1, <1>3
<1> QED
  BY <1>1, <1>3, <1>4 DEF q, r

\* A product is below another when a factor is.
LEMMA ProductLess ==
  ASSUME NEW m \in Nat, NEW a \in Nat, NEW b \in Nat, a < b
  PROVE  m * a + m <= m * b
<1>1. PICK k \in Nat : b = a + 1 + k
  <2>1. b - a - 1 \in Nat /\ b = a + 1 + (b - a - 1)
    OBVIOUS
  <2> QED
    BY <2>1
<1>2. m * b = m * a + m + m * k /\ m * k \in Nat /\ m * a \in Nat
  BY <1>1
<1> QED
  BY <1>2

LEMMA SetInduction ==
  ASSUME NEW P, 0 \in P, \A n \in Nat : n \in P => n + 1 \in P
  PROVE  Nat \subseteq P
<1> SUFFICES ASSUME Nat \ P # {} PROVE FALSE
  OBVIOUS
<1>1. PICK x \in Nat \ P : \A y \in Nat \ P : ~(<<y, x>> \in OpToRel(<, Nat))
  BY NatLessThanWellFounded, WFMin, Zenon
<1>2. \A y \in Nat : y < x => y \in P
  <2>1. \A u, v \in Nat : v < u => <<v, u>> \in OpToRel(<, Nat)
    BY DEF OpToRel
  <2> QED
    BY <1>1, <2>1
<1>3. x \in Nat /\ x \notin P /\ x # 0
  BY <1>1, Zenon
<1>4. x - 1 \in Nat /\ x - 1 < x /\ (x - 1) + 1 = x
  BY <1>3
<1>5. x - 1 \in P
  BY <1>2, <1>4
<1>6. x \in P
  BY <1>4, <1>5
<1> QED
  BY <1>3, <1>6

Iterates(s, T, m, g) == g[0] = s /\ \A i \in 1..m : g[i] = T[i][g[i - 1]]
StepType(T) == \A i \in Nat, a \in Nat : T[i][a] \in Nat

\* A sequence of numbers can be defined by recursion on its index.
LEMMA Recursion ==
  ASSUME NEW s \in Nat, NEW m \in Nat, NEW T, StepType(T)
  PROVE  \E g \in [0..m -> Nat] : Iterates(s, T, m, g)
<1> DEFINE Sol(n, g) == Iterates(s, T, n, g)
           P == {n \in Nat : \E g \in [0..n -> Nat] : Sol(n, g)}
<1> USE DEF Iterates, StepType
<1>1. 0 \in P
  <2> DEFINE g == [i \in 0..0 |-> s]
  <2>1. g \in [0..0 -> Nat] /\ Sol(0, g)
    OBVIOUS
  <2> QED
    BY <2>1
<1>2. ASSUME NEW n \in Nat, n \in P PROVE n + 1 \in P
  <2>1. PICK g \in [0..n -> Nat] : Sol(n, g)
    BY <1>2
  <2> DEFINE h == [i \in 0..n+1 |-> IF i = n + 1 THEN T[n + 1][g[n]] ELSE g[i]]
  <2>2. h \in [0..n+1 -> Nat]
    <3>1. ASSUME NEW i \in 0..n+1 PROVE h[i] \in Nat
      <4>1. n + 1 \in Nat /\ g[n] \in Nat
        OBVIOUS
      <4>2. T[n + 1][g[n]] \in Nat
        BY <4>1
      <4> QED
        BY <4>2
    <3> QED
      BY <3>1
  <2>3. h[0] = s
    BY <2>1
  <2>4. ASSUME NEW i \in 1..n+1 PROVE h[i] = T[i][h[i - 1]]
    <3>1. i - 1 \in 0..n /\ h[i - 1] = g[i - 1]
      OBVIOUS
    <3>2. CASE i = n + 1
      BY <3>1, <3>2
    <3>3. CASE i \in 1..n
      BY <2>1, <3>1, <3>3
    <3> QED
      BY <3>2, <3>3
  <2>5. Sol(n + 1, h)
    BY <2>3, <2>4
  <2>6. n + 1 \in Nat
    OBVIOUS
  <2> HIDE DEF h, Sol
  <2> QED
    BY <2>2, <2>5, <2>6, Zenon
<1> HIDE DEF P
<1>3. m \in P
  BY <1>1, <1>2, SetInduction
<1> QED
  BY <1>3 DEF P

-----------------------------------------------------------------------------
(* The layout *)

ParamFacts ==
  /\ BLKSIZE \in Nat /\ BLKSIZE > 0 /\ BLKBITSIZE \in Nat /\ BLKBITSIZE > 0
  /\ DirentSize \in Nat /\ DirentSize > 0
  /\ N_DIRECT \in Nat /\ N_DIRECT > 0 /\ N_INDIRECT \in Nat /\ N_INDIRECT > 0
  /\ START_DIR_ENTS \in Nat /\ START_DIR_ENTS > 0
  /\ BLKDIRENTS \in Nat /\ BLKDIRENTS > 0 /\ BLKSIZE = DirentSize * BLKDIRENTS
  /\ \A n \in NBlocks : n \in Nat /\ n >= 2

LEMMA Params == ParamFacts
<1>1. /\ BLKSIZE \in Nat /\ BLKSIZE > 0 /\ BLKBITSIZE \in Nat /\ BLKBITSIZE > 0
      /\ DirentSize \in Nat /\ DirentSize > 0
      /\ N_DIRECT \in Nat /\ N_DIRECT > 0 /\ N_INDIRECT \in Nat /\ N_INDIRECT > 0
      /\ START_DIR_ENTS \in Nat /\ START_DIR_ENTS > 0
      /\ \A n \in NBlocks : n \in Nat /\ n >= 2
      /\ BLKSIZE % DirentSize = 0
  BY FormatAssumption
<1>2. BLKDIRENTS \in Nat /\ BLKSIZE = DirentSize * BLKDIRENTS + 0
  BY <1>1, DivMod DEF BLKDIRENTS
<1>3. BLKDIRENTS # 0
  BY <1>1, <1>2
<1> QED
  BY <1>1, <1>2, <1>3 DEF ParamFacts

\* The most blocks a file can have
MaxSize == N_DIRECT + N_INDIRECT + N_INDIRECT * N_INDIRECT

LEMMA MaxSizeType == MaxSize \in Nat /\ N_INDIRECT * N_INDIRECT \in Nat
BY Params DEF ParamFacts, MaxSize

\* Blocks() is enough for the bytes, and no block more.
LEMMA BlocksEnough ==
  ASSUME NEW n \in Nat
  PROVE  /\ Blocks(n) \in Nat /\ n <= BLKSIZE * Blocks(n)
         /\ \A k \in Nat : n <= BLKSIZE * k => Blocks(n) <= k
<1> DEFINE q == Blocks(n)
           r == (n + BLKSIZE - 1) % BLKSIZE
<1>0. BLKSIZE \in Nat /\ BLKSIZE > 0
  BY Params DEF ParamFacts
<1>1. q \in Nat /\ r \in 0..BLKSIZE-1 /\ n + BLKSIZE - 1 = BLKSIZE * q + r
  BY <1>0, DivMod DEF Blocks
<1> HIDE DEF q, r
<1>2. BLKSIZE * q \in Nat
  BY <1>0, <1>1
<1>3. n <= BLKSIZE * q
  BY <1>0, <1>1, <1>2
<1>4. ASSUME NEW k \in Nat, n <= BLKSIZE * k, k < q PROVE FALSE
  <2>1. BLKSIZE * k + BLKSIZE <= BLKSIZE * q /\ BLKSIZE * k \in Nat
    BY <1>0, <1>1, <1>4, ProductLess
  <2> QED
    BY <1>0, <1>1, <1>2, <1>4, <2>1
<1> QED
  BY <1>1, <1>3, <1>4 DEF q

LEMMA BlocksExact ==
  ASSUME NEW k \in Nat
  PROVE  Blocks(k * BLKSIZE) = k
<1>0. BLKSIZE \in Nat /\ BLKSIZE > 0
  BY Params DEF ParamFacts
<1>1. k * BLKSIZE = BLKSIZE * k /\ BLKSIZE * k \in Nat
  BY <1>0
<1>2. BLKSIZE * k + BLKSIZE - 1 = BLKSIZE * k + (BLKSIZE - 1) /\ BLKSIZE - 1 \in 0..BLKSIZE-1
  BY <1>0, <1>1
<1> QED
  BY <1>0, <1>1, <1>2, DivUnique DEF Blocks

LEMMA ExtraType ==
  ASSUME NEW n \in Nat
  PROVE  Extra(n) \in Nat /\ Extra(n) <= 2 + N_INDIRECT
BY Params DEF ParamFacts, Extra

\* What a state's command line fixes: the places of the files, front to back.
Running == nblocks \in NBlocks /\ argv \in Arguments

FileFacts ==
  /\ nblocks \in Nat /\ nblocks >= 2
  /\ nbitblocks \in Nat /\ root = nbitblocks + 1 /\ nbitblocks > 0
  /\ Len(argv) \in Nat
  /\ \A f \in 1..Len(argv) :
       /\ argv[f].len \in Nat /\ argv[f].name # NoName
       /\ Size(f) \in Nat /\ Size(f) <= MaxSize
       /\ Space(f) \in Nat /\ Space(f) > 0

LEMMA Files == Running => FileFacts
<1> SUFFICES ASSUME Running PROVE FileFacts
  OBVIOUS
<1>1. nblocks \in Nat /\ nblocks >= 2
  BY Params DEF Running, ParamFacts
<1>2. nbitblocks \in Nat /\ nbitblocks > 0
  <2>1. BLKBITSIZE \in Nat /\ BLKBITSIZE > 0
    BY Params DEF ParamFacts
  <2>2. /\ nbitblocks \in Nat
        /\ (nblocks + BLKBITSIZE - 1) % BLKBITSIZE \in 0..BLKBITSIZE-1
        /\ nblocks + BLKBITSIZE - 1 =
             BLKBITSIZE * nbitblocks + ((nblocks + BLKBITSIZE - 1) % BLKBITSIZE)
    BY <1>1, <2>1, DivMod DEF nbitblocks
  <2>3. ASSUME nbitblocks = 0 PROVE FALSE
    BY <1>1, <2>1, <2>2, <2>3
  <2> QED
    BY <2>2, <2>3
<1>3. Len(argv) \in Nat
  BY FormatAssumption DEF Running
<1>4. ASSUME NEW f \in 1..Len(argv)
      PROVE  /\ argv[f].len \in Nat /\ argv[f].name # NoName
             /\ Size(f) \in Nat /\ Size(f) <= MaxSize
             /\ Space(f) \in Nat /\ Space(f) > 0
  <2>1. argv[f].name # NoName /\ argv[f].len \in 0..BLKSIZE * MaxSize
    BY FormatAssumption DEF Running, MaxSize
  <2>2. BLKSIZE \in Nat /\ MaxSize \in Nat /\ BLKSIZE * MaxSize \in Nat
    BY Params, MaxSizeType DEF ParamFacts
  <2>3. argv[f].len \in Nat /\ argv[f].len <= BLKSIZE * MaxSize
    BY <2>1, <2>2
  <2>4. Size(f) \in Nat /\ Size(f) <= MaxSize
    BY <2>2, <2>3, BlocksEnough DEF Size
  <2>5. Extra(Size(f)) \in Nat
    BY <2>4, ExtraType
  <2> QED
    BY <2>1, <2>3, <2>4, <2>5 DEF Space
<1> QED
  BY <1>1, <1>2, <1>3, <1>4 DEF FileFacts, root

PlaceFacts ==
  /\ At \in [1..Len(argv)+1 -> Nat]
  /\ At[1] = root + 1
  /\ \A f \in 1..Len(argv) : At[f + 1] = At[f] + Space(f)

LEMMA Places == Running => PlaceFacts
<1> SUFFICES ASSUME Running PROVE PlaceFacts
  OBVIOUS
<1> DEFINE L == Len(argv)
           T == [i \in Nat |-> [a \in Nat |-> IF i \in 1..L THEN a + Space(i) ELSE a]]
           Rule(A) == [f \in 1..L+1 |-> IF f = 1 THEN root + 1 ELSE A[f - 1] + Space(f - 1)]
<1>1. FileFacts
  BY Files
<1>2. L \in Nat /\ root + 1 \in Nat
  BY <1>1 DEF FileFacts
<1>3. StepType(T)
  BY <1>1 DEF FileFacts, StepType
<1>4. PICK g \in [0..L -> Nat] : Iterates(root + 1, T, L, g)
  <2> DEFINE s == root + 1
  <2>1. L \in Nat /\ s \in Nat
    BY <1>2
  <2> HIDE DEF T, L, s
  <2>2. \E g \in [0..L -> Nat] : Iterates(s, T, L, g)
    BY <1>3, <2>1, Recursion
  <2> QED
    BY <2>2 DEF s
<1>5. g[0] = root + 1 /\ \A i \in 1..L : g[i] = T[i][g[i - 1]]
  BY <1>4 DEF Iterates
<1> DEFINE B == [f \in 1..L+1 |-> g[f - 1]]
<1>6. B = Rule(B)
  <2>1. ASSUME NEW f \in 1..L+1
        PROVE  B[f] = IF f = 1 THEN root + 1 ELSE B[f - 1] + Space(f - 1)
    <3>1. CASE f = 1
      BY <1>5, <3>1
    <3>2. CASE f # 1
      <4>1. f - 1 \in 1..L /\ f - 1 \in 1..L+1 /\ (f - 1) - 1 \in 0..L
        BY <1>2, <3>2
      <4>2. g[f - 1] = T[f - 1][g[(f - 1) - 1]] /\ g[(f - 1) - 1] \in Nat
        BY <1>5, <4>1
      <4> QED
        BY <3>2, <4>1, <4>2
    <3> QED
      BY <3>1, <3>2
  <2> QED
    BY <2>1
<1>7. At = Rule(At)
  <2> HIDE DEF B
  <2>1. \E A : A = Rule(A)
    BY <1>6
  <2> QED
    BY <2>1 DEF At
<1>8. At[1] = root + 1
  BY <1>2, <1>7
<1>9. ASSUME NEW f \in 1..L PROVE At[f + 1] = At[f] + Space(f)
  <2>1. f + 1 \in 1..L+1 /\ f + 1 # 1 /\ (f + 1) - 1 = f
    BY <1>2
  <2> QED
    BY <1>7, <2>1
<1>10. At \in [1..L+1 -> Nat]
  <2> DEFINE P == {n \in Nat : n \in 0..L => At[n + 1] \in Nat}
  <2>1. 0 \in P
    BY <1>2, <1>8
  <2>2. ASSUME NEW n \in Nat, n \in P PROVE n + 1 \in P
    <3> SUFFICES ASSUME n + 1 \in 0..L PROVE At[(n + 1) + 1] \in Nat
      OBVIOUS
    <3>1. n + 1 \in 1..L /\ n \in 0..L
      BY <1>2
    <3>2. At[n + 1] \in Nat /\ Space(n + 1) \in Nat
      BY <1>1, <2>2, <3>1 DEF FileFacts
    <3> QED
      BY <1>9, <3>1, <3>2
  <2> HIDE DEF P
  <2>3. Nat \subseteq P
    BY <2>1, <2>2, SetInduction
  <2>4. ASSUME NEW f \in 1..L+1 PROVE At[f] \in Nat
    <3>1. f - 1 \in Nat /\ f - 1 \in 0..L /\ (f - 1) + 1 = f
      BY <1>2
    <3> QED
      BY <2>3, <3>1 DEF P
  <2> QED
    BY <1>7, <2>4
<1> QED
  BY <1>8, <1>9, <1>10 DEF PlaceFacts

\* The areas of the files follow each other without gaps.
OrderFacts ==
  /\ \A f, g \in 1..Len(argv)+1 : f < g => At[f + 1] <= At[g]
  /\ \A f \in 1..Len(argv)+1 : At[f] > root
  /\ \A m \in 1..Len(argv)+1, b \in Nat :
       root < b /\ b < At[m] => \E f \in 1..m-1 : At[f] <= b /\ b < At[f + 1]

LEMMA Order == Running => OrderFacts
<1> SUFFICES ASSUME Running PROVE OrderFacts
  OBVIOUS
<1> DEFINE L == Len(argv)
           Ordered(n) ==
             n \in 1..L+1 =>
               /\ \A f \in 1..L+1 : f < n => At[f + 1] <= At[n]
               /\ At[n] > root
               /\ \A b \in Nat : root < b /\ b < At[n] =>
                    \E f \in 1..n-1 : At[f] <= b /\ b < At[f + 1]
           P == {n \in Nat : Ordered(n + 1)}
<1>1. FileFacts /\ PlaceFacts
  BY Files, Places
<1>2. L \in Nat /\ root \in Nat /\ At \in [1..L+1 -> Nat] /\ At[1] = root + 1
  BY <1>1 DEF FileFacts, PlaceFacts
<1>3. 0 \in P
  BY <1>2
<1>4. ASSUME NEW n \in Nat, n \in P PROVE n + 1 \in P
  <2> DEFINE m == n + 1
  <2> SUFFICES ASSUME m + 1 \in 1..L+1 PROVE Ordered(m + 1)
    OBVIOUS
  <2>1. m \in 1..L /\ m \in 1..L+1 /\ Ordered(m)
    BY <1>2, <1>4
  <2>2. At[m + 1] = At[m] + Space(m) /\ Space(m) \in Nat /\ Space(m) > 0
    BY <1>1, <2>1 DEF FileFacts, PlaceFacts
  <2>3. At[m] \in Nat /\ At[m + 1] \in Nat /\ At[m] < At[m + 1] /\ At[m] > root
    BY <1>2, <2>1, <2>2
  <2>4. ASSUME NEW f \in 1..L+1, f < m + 1 PROVE At[f + 1] <= At[m + 1]
    <3>1. CASE f = m
      BY <2>3, <3>1
    <3>2. CASE f < m
      <4>1. At[f + 1] <= At[m] /\ At[f + 1] \in Nat
        BY <1>2, <2>1, <3>2
      <4> QED
        BY <2>3, <4>1
    <3> QED
      BY <2>1, <2>4, <3>1, <3>2
  <2>5. ASSUME NEW b \in Nat, root < b, b < At[m + 1]
        PROVE  \E f \in 1..(m + 1)-1 : At[f] <= b /\ b < At[f + 1]
    <3>1. CASE b < At[m]
      <4>1. PICK f \in 1..m-1 : At[f] <= b /\ b < At[f + 1]
        BY <2>1, <2>5, <3>1
      <4>2. f \in 1..(m + 1)-1
        BY <2>1
      <4> QED
        BY <4>1, <4>2
    <3>2. CASE ~(b < At[m])
      <4>1. m \in 1..(m + 1)-1 /\ At[m] <= b
        BY <2>1, <2>3, <3>2
      <4> QED
        BY <2>5, <4>1
    <3> QED
      BY <3>1, <3>2
  <2>6. At[m + 1] > root
    BY <1>2, <2>3
  <2> QED
    BY <2>4, <2>5, <2>6
<1> HIDE DEF P
<1>5. ASSUME NEW n \in 1..L+1 PROVE Ordered(n)
  <2>1. n - 1 \in P /\ (n - 1) + 1 = n
    BY <1>2, <1>3, <1>4, SetInduction
  <2> QED
    BY <2>1 DEF P
<1> QED
  BY <1>5 DEF OrderFacts

CapacityFacts ==
  /\ Capacity[0] = START_DIR_ENTS
  /\ \A i \in 0..Len(argv) : Capacity[i] \in Nat
  /\ \A i \in 0..Len(argv)-1 : Capacity[i + 1] = 4 * Capacity[i]

LEMMA Capacities == Running => CapacityFacts
<1> SUFFICES ASSUME Running PROVE CapacityFacts
  OBVIOUS
<1> DEFINE L == Len(argv)
           T == [i \in Nat |-> [a \in Nat |-> 4 * a]]
           Rule(C) == [i \in 0..L |-> IF i = 0 THEN START_DIR_ENTS ELSE 4 * C[i - 1]]
<1>1. L \in Nat /\ START_DIR_ENTS \in Nat
  BY Files, Params DEF FileFacts, ParamFacts
<1>2. StepType(T)
  BY DEF StepType
<1>3. PICK g \in [0..L -> Nat] : Iterates(START_DIR_ENTS, T, L, g)
  <2> HIDE DEF T, L
  <2> QED
    BY <1>1, <1>2, Recursion
<1>4. g = Rule(g)
  <2>1. ASSUME NEW i \in 0..L
        PROVE  g[i] = IF i = 0 THEN START_DIR_ENTS ELSE 4 * g[i - 1]
    <3>1. CASE i = 0
      BY <1>3, <3>1 DEF Iterates
    <3>2. CASE i # 0
      <4>1. i \in 1..L /\ i - 1 \in 0..L /\ i \in Nat
        BY <1>1, <3>2
      <4>2. g[i] = T[i][g[i - 1]] /\ g[i - 1] \in Nat
        BY <1>3, <4>1 DEF Iterates
      <4> QED
        BY <3>2, <4>1, <4>2
    <3> QED
      BY <3>1, <3>2
  <2> QED
    BY <2>1
<1>5. Capacity = Rule(Capacity)
  <2>1. \E C : C = Rule(C)
    BY <1>4
  <2> QED
    BY <2>1 DEF Capacity
<1>6. Capacity[0] = START_DIR_ENTS
  BY <1>1, <1>5
<1>7. ASSUME NEW i \in 0..L-1 PROVE Capacity[i + 1] = 4 * Capacity[i]
  <2>1. i + 1 \in 0..L /\ i + 1 # 0 /\ (i + 1) - 1 = i
    BY <1>1
  <2> QED
    BY <1>5, <2>1
<1> DEFINE P == {n \in Nat : n \in 0..L => Capacity[n] \in Nat}
<1>8. 0 \in P
  BY <1>1, <1>6
<1>9. ASSUME NEW n \in Nat, n \in P PROVE n + 1 \in P
  <2> SUFFICES ASSUME n + 1 \in 0..L PROVE Capacity[n + 1] \in Nat
    OBVIOUS
  <2>1. n \in 0..L-1 /\ n \in 0..L
    BY <1>1
  <2>2. Capacity[n] \in Nat
    BY <1>9, <2>1
  <2> QED
    BY <1>7, <2>1, <2>2
<1> HIDE DEF P
<1>10. Nat \subseteq P
  BY <1>8, <1>9, SetInduction
<1>11. \A i \in 0..L : Capacity[i] \in Nat
  BY <1>1, <1>10 DEF P
<1> QED
  BY <1>6, <1>7, <1>11 DEF CapacityFacts

\* The directory: whole blocks, enough for every file, and not too many.
DirFacts ==
  /\ DirJob.inum = root /\ DirJob.start = At[Len(argv) + 1] /\ DirJob.start \in Nat
  /\ DirJob.len \in Nat /\ DirJob.len = Blocks(DirJob.len) * BLKSIZE
  /\ Blocks(DirJob.len) = Blocks(Len(argv) * DirentSize)
  /\ Blocks(DirJob.len) \in Nat /\ Blocks(DirJob.len) <= MaxSize
  /\ Len(argv) <= Blocks(DirJob.len) * BLKDIRENTS

LEMMA Directory == Running => DirFacts
<1> SUFFICES ASSUME Running PROVE DirFacts
  OBVIOUS
<1> DEFINE L == Len(argv)
           n == Blocks(L * DirentSize)
<1>1. /\ L \in Nat /\ DirentSize \in Nat /\ DirentSize > 0 /\ BLKDIRENTS \in Nat
      /\ BLKSIZE \in Nat /\ BLKSIZE > 0 /\ BLKSIZE = DirentSize * BLKDIRENTS
      /\ MaxSize \in Nat
  BY Files, Params, MaxSizeType DEF FileFacts, ParamFacts
<1>2. At[L + 1] \in Nat
  BY <1>1, Places DEF PlaceFacts
<1>3. L * DirentSize \in Nat /\ L * DirentSize <= BLKSIZE * MaxSize
  BY <1>1, DirectoryAssumption DEF Running, MaxSize
<1>4. /\ n \in Nat /\ n <= MaxSize /\ L * DirentSize <= BLKSIZE * n
  BY <1>1, <1>3, BlocksEnough
<1> HIDE DEF n, L
<1>5. n * BLKSIZE \in Nat /\ Blocks(n * BLKSIZE) = n
  BY <1>1, <1>4, BlocksExact
<1>6. L <= n * BLKDIRENTS
  <2> DEFINE e == n * BLKDIRENTS
  <2>1. e \in Nat /\ BLKSIZE * n = DirentSize * e
    BY <1>1, <1>4
  <2> HIDE DEF e
  <2>2. L * DirentSize = DirentSize * L
    BY <1>1
  <2>3. ASSUME e < L PROVE FALSE
    <3>1. DirentSize * e + DirentSize <= DirentSize * L
      BY <1>1, <2>1, <2>3, ProductLess
    <3>2. DirentSize * e \in Nat /\ DirentSize * L \in Nat
      BY <1>1, <2>1
    <3>3. DirentSize * L <= DirentSize * e
      BY <1>4, <2>1, <2>2
    <3> QED
      BY <1>1, <3>1, <3>2, <3>3
  <2> QED
    BY <1>1, <2>1, <2>3 DEF e
<1>7. DirJob = [inum |-> root, start |-> At[L + 1], len |-> n * BLKSIZE]
  BY DEF DirJob, DirSize, L, n
<1> QED
  BY <1>2, <1>4, <1>5, <1>6, <1>7 DEF DirFacts, L, n

-----------------------------------------------------------------------------
(* What a step leaves alone *)

\* The command line and with it the layout never change.
SameArgs == nblocks' = nblocks /\ argv' = argv

LEMMA SameLayout ==
  ASSUME SameArgs
  PROVE  /\ root' = root /\ nbitblocks' = nbitblocks /\ BitmapBlocks' = BitmapBlocks
         /\ At' = At /\ Capacity' = Capacity /\ MayBeLost' = MayBeLost
         /\ DirJob' = DirJob
         /\ \A f : FileJob(f)' = FileJob(f) /\ Size(f)' = Size(f)
<1>1. root' = root /\ nbitblocks' = nbitblocks /\ BitmapBlocks' = BitmapBlocks
  BY DEF SameArgs, root, nbitblocks, BitmapBlocks
<1>2. At' = At
  BY <1>1 DEF SameArgs, At, Space, Size
<1>3. Capacity' = Capacity
  BY DEF SameArgs, Capacity
<1>4. MayBeLost' = MayBeLost
  BY <1>3 DEF SameArgs, MayBeLost
<1>5. DirJob' = DirJob
  BY <1>1, <1>2 DEF SameArgs, DirJob
<1>6. \A f : FileJob(f)' = FileJob(f) /\ Size(f)' = Size(f)
  BY <1>2 DEF SameArgs, FileJob, Size
<1> QED
  BY <1>1, <1>2, <1>3, <1>4, <1>5, <1>6

LEMMA LaidOutStays ==
  ASSUME NEW j, NEW n \in Nat, PastEnd(j, 0) \in Nat, LaidOut(j, n),
         disk'[j.inum] = disk[j.inum],
         \A b \in Nat : PastEnd(j, 0) <= b /\ b < PastEnd(j, 0) + n => disk'[b] = disk[b]
  PROVE  LaidOut(j, n)'
<1> DEFINE first == PastEnd(j, 0)
<1>1. n > 0 => disk'[first] = disk[first]
  OBVIOUS
<1>2. n > 1 => disk'[first + 1] = disk[first + 1]
  OBVIOUS
<1>3. \A i \in 0..N_INDIRECT-1 : i + 2 < n => disk'[first + 2 + i] = disk[first + 2 + i]
  BY Params DEF ParamFacts
<1> HIDE DEF first
<1> QED
  BY <1>1, <1>2, <1>3 DEF LaidOut, first

\* Numbers a job is made of
JobFacts(j) ==
  /\ j.inum \in Nat /\ j.start \in Nat /\ Blocks(j.len) \in Nat
  /\ PastEnd(j, 0) = j.start + Blocks(j.len)
  /\ \A n \in Nat : PastEnd(j, n) = PastEnd(j, 0) + n /\ PastEnd(j, n) \in Nat
  /\ Extra(Blocks(j.len)) \in Nat

LEMMA FileJobs ==
  ASSUME Running, NEW f \in 1..Len(argv)
  PROVE  /\ JobFacts(FileJob(f))
         /\ FileJob(f).inum = At[f] /\ FileJob(f).start = At[f] + 1
         /\ FileJob(f).len = argv[f].len /\ Blocks(FileJob(f).len) = Size(f)
         /\ At[f] \in Nat /\ At[f + 1] \in Nat /\ At[f] > root
         /\ At[f + 1] = PastEnd(FileJob(f), Extra(Size(f)))
<1>1. FileFacts /\ PlaceFacts /\ OrderFacts
  BY Files, Places, Order
<1>2. /\ At[f] \in Nat /\ At[f + 1] \in Nat /\ At[f + 1] = At[f] + Space(f)
      /\ At[f] > root /\ Size(f) \in Nat
  <2>1. Len(argv) \in Nat /\ f \in 1..Len(argv)+1 /\ f + 1 \in 1..Len(argv)+1
    BY <1>1 DEF FileFacts
  <2>2. At[f] \in Nat /\ At[f + 1] \in Nat /\ At[f + 1] = At[f] + Space(f)
    BY <1>1, <2>1 DEF PlaceFacts
  <2>3. At[f] > root
    BY <1>1, <2>1 DEF OrderFacts
  <2> QED
    BY <1>1, <2>2, <2>3 DEF FileFacts
<1>3. Extra(Size(f)) \in Nat
  BY <1>2, ExtraType
<1>4. /\ FileJob(f).inum = At[f] /\ FileJob(f).start = At[f] + 1
      /\ FileJob(f).len = argv[f].len /\ Blocks(FileJob(f).len) = Size(f)
  BY DEF FileJob, Size
<1>5. \A n \in Nat : PastEnd(FileJob(f), n) = At[f] + 1 + Size(f) + n
  BY <1>4 DEF PastEnd
<1>6. PastEnd(FileJob(f), 0) = At[f] + 1 + Size(f)
  BY <1>2, <1>5
<1>7. JobFacts(FileJob(f))
  <2>1. FileJob(f).inum \in Nat /\ FileJob(f).start \in Nat
    BY <1>2, <1>4
  <2>2. Blocks(FileJob(f).len) \in Nat /\ Extra(Blocks(FileJob(f).len)) \in Nat
    <3>1. Blocks(FileJob(f).len) = Size(f)
      BY <1>4
    <3> QED
      BY <1>2, <1>3, <3>1
  <2>3. PastEnd(FileJob(f), 0) = FileJob(f).start + Blocks(FileJob(f).len)
    BY <1>4, <1>6
  <2>4. ASSUME NEW n \in Nat
        PROVE  /\ PastEnd(FileJob(f), n) = PastEnd(FileJob(f), 0) + n
               /\ PastEnd(FileJob(f), n) \in Nat
    <3>1. PastEnd(FileJob(f), n) = At[f] + 1 + Size(f) + n
      BY <1>5
    <3> QED
      BY <1>2, <1>6, <3>1
  <2> QED
    BY <2>1, <2>2, <2>3, <2>4 DEF JobFacts
<1>8. At[f + 1] = PastEnd(FileJob(f), Extra(Size(f)))
  BY <1>2, <1>3, <1>5 DEF Space
<1> QED
  BY <1>2, <1>4, <1>7, <1>8

LEMMA DirJobs ==
  ASSUME Running
  PROVE  JobFacts(DirJob)
<1>1. FileFacts /\ DirFacts
  BY Files, Directory
<1>2. Extra(Blocks(DirJob.len)) \in Nat
  BY <1>1, ExtraType DEF DirFacts
<1> QED
  BY <1>1, <1>2 DEF JobFacts, PastEnd, FileFacts, DirFacts

LEMMA FileDoneStays ==
  ASSUME Running, SameArgs, NEW f \in 1..Len(argv), FileDone(f),
         \A b \in Nat : At[f] <= b /\ b < At[f + 1] => disk'[b] = disk[b]
  PROVE  FileDone(f)'
<1> DEFINE j == FileJob(f)
           n == Extra(Size(f))
<1>1. /\ JobFacts(j) /\ j.inum = At[f] /\ j.start = At[f] + 1 /\ Blocks(j.len) = Size(f)
      /\ At[f] \in Nat /\ At[f + 1] = PastEnd(j, n)
  BY FileJobs
<1>2. n \in Nat /\ Size(f) \in Nat /\ PastEnd(j, n) = PastEnd(j, 0) + n
      /\ PastEnd(j, 0) = At[f] + 1 + Size(f) /\ PastEnd(j, 0) \in Nat
  BY <1>1 DEF JobFacts
<1>3. LaidOut(j, n) /\ FileWritten(f)
  BY DEF FileDone
<1>4. j' = j /\ n' = n /\ At' = At /\ Size(f)' = Size(f)
  BY SameLayout
<1>5. PICK k, m : k = j /\ m = n
  OBVIOUS
<1>6. LaidOut(k, m)'
  <2>1. /\ m \in Nat /\ PastEnd(k, 0) \in Nat /\ LaidOut(k, m)
        /\ disk'[k.inum] = disk[k.inum]
        /\ \A b \in Nat : PastEnd(k, 0) <= b /\ b < PastEnd(k, 0) + m => disk'[b] = disk[b]
    <3> HIDE DEF j, n
    <3> QED
      BY <1>1, <1>2, <1>3, <1>5
  <2> QED
    BY <2>1, LaidOutStays
<1>7. LaidOut(j, n)'
  BY <1>4, <1>5, <1>6 DEF LaidOut, PastEnd
<1>8. FileWritten(f)'
  <2>1. ASSUME NEW i \in 0..Size(f)-1 PROVE disk'[At[f] + 1 + i] = Data(f, i)
    <3>1. At[f] + 1 + i \in Nat /\ At[f] <= At[f] + 1 + i /\ At[f] + 1 + i < At[f + 1]
      BY <1>1, <1>2
    <3> QED
      BY <1>3, <3>1 DEF FileWritten
  <2> QED
    BY <1>4, <2>1 DEF FileWritten
<1> QED
  BY <1>7, <1>8 DEF FileDone

LEMMA FilesStay ==
  ASSUME Running, SameArgs, NEW m \in 1..Len(argv)+1, \A f \in 1..m-1 : FileDone(f),
         \A b \in Nat : root < b /\ b < At[m] => disk'[b] = disk[b]
  PROVE  \A f \in 1..m-1 : FileDone(f)'
<1> SUFFICES ASSUME NEW f \in 1..m-1 PROVE FileDone(f)'
  OBVIOUS
<1>1. Len(argv) \in Nat
  BY Files DEF FileFacts
<1>2. f \in 1..Len(argv) /\ f \in 1..Len(argv)+1 /\ f < m
  BY <1>1
<1>3. At[f] > root /\ At[f + 1] <= At[m]
  BY <1>2, Order DEF OrderFacts
<1>4. At[f] \in Nat /\ At[f + 1] \in Nat /\ At[m] \in Nat /\ root \in Nat
  <2>1. At[m] \in Nat /\ root \in Nat
    BY Files, Places DEF FileFacts, PlaceFacts
  <2> QED
    BY <1>2, <2>1, FileJobs
<1>5. \A b \in Nat : At[f] <= b /\ b < At[f + 1] => disk'[b] = disk[b]
  BY <1>3, <1>4
<1> QED
  BY <1>2, <1>5, FileDoneStays

LEMMA FrontStays ==
  ASSUME Running, SameArgs, FrontInv, pc \notin {"opendisk", "root", "done"},
         pc' \notin {"opendisk", "root", "done"},
         diskpos \in Nat, diskpos' \in Nat, diskpos' >= diskpos,
         \A b \in Nat : b < root => disk'[b] = disk[b]
  PROVE  FrontInv'
<1>1. root \in Nat /\ nbitblocks \in Nat /\ root = nbitblocks + 1
  BY Files DEF FileFacts
<1>2. root' = root /\ nbitblocks' = nbitblocks /\ BitmapBlocks' = BitmapBlocks
  BY SameLayout
<1>3. disk'[0] = disk[0] /\ \A b \in BitmapBlocks : disk'[b] = disk[b]
  BY <1>1 DEF BitmapBlocks
<1>4. diskpos' > nbitblocks'
  BY <1>1, <1>2 DEF FrontInv
<1>5. ASSUME NEW b \in BitmapBlocks
      PROVE  disk'[b] = Bitmap(0..BLKBITSIZE-1)
  <2>1. disk[b] = Bitmap({i \in 0..BLKBITSIZE-1 :
                            pc = "done" => ~UsedBits((b - 1) * BLKBITSIZE + i)})
    BY DEF FrontInv
  <2>2. {i \in 0..BLKBITSIZE-1 : pc = "done" => ~UsedBits((b - 1) * BLKBITSIZE + i)}
          = 0..BLKBITSIZE-1
    OBVIOUS
  <2> QED
    BY <1>3, <2>1, <2>2
<1>6. ASSUME NEW b \in BitmapBlocks'
      PROVE  disk'[b] = Bitmap({i \in 0..BLKBITSIZE-1 :
                                  pc' = "done" => ~UsedBits((b - 1) * BLKBITSIZE + i)'})
  <2>1. {i \in 0..BLKBITSIZE-1 : pc' = "done" => ~UsedBits((b - 1) * BLKBITSIZE + i)'}
          = 0..BLKBITSIZE-1
    OBVIOUS
  <2> QED
    BY <1>2, <1>5, <2>1
<1>7. disk'[0] = Super(root')
  BY <1>2, <1>3 DEF FrontInv
<1> QED
  BY <1>4, <1>6, <1>7 DEF FrontInv

LEMMA EntriesStay ==
  ASSUME SameArgs, EntriesInv, ents' = ents /\ lost' = lost, capacity' = capacity,
         Len(ents) = (IF Entered THEN next ELSE next - 1)'
  PROVE  EntriesInv'
<1>1. At' = At /\ Capacity' = Capacity /\ MayBeLost' = MayBeLost
  BY SameLayout
<1> QED
  BY <1>1 DEF EntriesInv, SameArgs

\* After a step of finishinode(), for the m-th inode: it has more to allocate, or
\* the program goes on to the next file.
LEMMA Continue ==
  ASSUME Running, SameArgs, EntriesInv, ents' = ents /\ lost' = lost, capacity' = capacity,
         NEW m \in 1..Len(argv)+1, m = next,
         Len(ents) = IF m <= Len(argv) THEN m ELSE m - 1,
         NEW j, NEW n \in Nat, job' = j, Stage(j, n, m)',
         \A f \in 1..m-1 : FileDone(f)',
         \/ n < Extra(Blocks(j.len)) /\ next' = next /\ InFinish' /\ Made' = n
         \/ n = Extra(Blocks(j.len)) /\ Leave(j.inum)
  PROVE  /\ EntriesInv' /\ FilesInv' /\ PlaceInv' /\ next' \in 1..Len(argv)+1
         /\ pc' \in {"files", "indirect", "double", "slots", "finishdisk"}
<1>1. Len(argv) \in Nat /\ Len(argv)' = Len(argv) /\ root' = root /\ At' = At
  BY Files, SameLayout DEF FileFacts, SameArgs
<1>2. \/ m <= Len(argv) /\ j = FileJob(m) /\ FileWritten(m)' /\ RootWaits'
      \/ m = Len(argv) + 1 /\ j = DirJob
  <2>1. FileJob(m)' = FileJob(m) /\ DirJob' = DirJob
    BY SameLayout
  <2> QED
    BY <1>1, <2>1 DEF Stage
<1>3. m <= Len(argv) => /\ m \in 1..Len(argv) /\ j.inum # root /\ j.inum = At[m]
                        /\ At[m + 1] = PastEnd(j, Extra(Size(m)))
                        /\ Blocks(j.len) = Size(m)
  <2> SUFFICES ASSUME m <= Len(argv)
               PROVE  /\ m \in 1..Len(argv) /\ j.inum # root /\ j.inum = At[m]
                      /\ At[m + 1] = PastEnd(j, Extra(Size(m)))
                      /\ Blocks(j.len) = Size(m)
    OBVIOUS
  <2>1. m \in 1..Len(argv) /\ j = FileJob(m)
    BY <1>1, <1>2
  <2>2. At[m] \in Nat /\ At[m] > root /\ root \in Nat
    BY <2>1, FileJobs, Files DEF FileFacts
  <2> QED
    BY <2>1, <2>2, FileJobs
<1>4. m = Len(argv) + 1 => j.inum = root
  BY <1>1, <1>2 DEF DirJob
<1>5. CASE n < Extra(Blocks(j.len)) /\ next' = next /\ InFinish' /\ Made' = n
  <2>1. PlaceInv'
    BY <1>5 DEF PlaceInv, InFinish, Finished
  <2>2. FilesInv'
    BY <1>5 DEF FilesInv, InFinish
  <2>3. Len(ents) = (IF Entered THEN next ELSE next - 1)'
    BY <1>1, <1>3, <1>4, <1>5 DEF Entered, InFinish
  <2> QED
    BY <1>5, <2>1, <2>2, <2>3, EntriesStay DEF InFinish
<1>6. CASE n = Extra(Blocks(j.len)) /\ Leave(j.inum)
  <2>1. CASE m <= Len(argv)
    <3>1. pc' = "files" /\ next' = m + 1
      BY <1>3, <1>6, <2>1 DEF Leave
    <3>2. FileDone(m)'
      <4>1. LaidOut(j, n)' /\ FileWritten(m)' /\ j = FileJob(m) /\ n = Extra(Size(m))
        BY <1>1, <1>2, <1>3, <1>6, <2>1 DEF Stage
      <4>2. FileJob(m)' = FileJob(m) /\ Size(m)' = Size(m)
        BY SameLayout
      <4> QED
        BY <4>1, <4>2 DEF FileDone, LaidOut
    <3>3. FilesInv'
      <4>1. \A f \in 1..m : f = m \/ f \in 1..m-1
        BY <1>1
      <4>2. (m + 1) - 1 = m
        OBVIOUS
      <4>3. \A f \in 1..m : FileDone(f)'
        BY <3>2, <4>1
      <4> QED
        BY <3>1, <4>2, <4>3 DEF FilesInv
    <3>4. diskpos' = At'[next'] /\ RootWaits'
      BY <1>1, <1>2, <1>3, <1>6, <2>1, <3>1 DEF Stage
    <3>5. PlaceInv'
      BY <3>1, <3>4 DEF PlaceInv, InFinish, Finished
    <3>6. Len(ents) = (IF Entered THEN next ELSE next - 1)'
      BY <2>1, <3>1 DEF Entered, InFinish
    <3> QED
      BY <3>1, <3>3, <3>5, <3>6, EntriesStay
  <2>2. CASE m = Len(argv) + 1
    <3>1. pc' = "finishdisk" /\ next' = next
      BY <1>4, <1>6, <2>2 DEF Leave
    <3>2. FilesInv'
      BY <3>1 DEF FilesInv
    <3>3. PlaceInv'
      BY <1>1, <1>6, <2>2, <3>1 DEF PlaceInv, InFinish, Finished
    <3>4. Len(ents) = (IF Entered THEN next ELSE next - 1)'
      <4>1. ~Entered' /\ ~(m <= Len(argv))
        BY <1>1, <2>2, <3>1 DEF Entered, InFinish
      <4> QED
        BY <3>1, <4>1
    <3> QED
      BY <3>1, <3>2, <3>3, <3>4, EntriesStay
  <2> QED
    BY <1>1, <2>1, <2>2
<1> QED
  BY <1>5, <1>6

-----------------------------------------------------------------------------
(* The invariant, step by step *)

Going == IInv /\ pc # "panic"

GoingFacts ==
  /\ TypeOK /\ EntriesInv /\ FrontInv /\ FilesInv /\ PlaceInv
  /\ Running /\ FileFacts /\ PlaceFacts /\ OrderFacts /\ DirFacts
  /\ diskpos \in Nat /\ diskpos < nblocks /\ next \in 1..Len(argv)+1

LEMMA GoesOn == Going => GoingFacts
<1> SUFFICES ASSUME Going PROVE GoingFacts
  OBVIOUS
<1>1. TypeOK /\ EntriesInv /\ FrontInv /\ FilesInv /\ PlaceInv
  BY DEF Going, IInv
<1>2. Running /\ diskpos \in Nat /\ diskpos < nblocks /\ next \in 1..Len(argv)+1
  BY <1>1 DEF TypeOK, Running, Going
<1> QED
  BY <1>1, <1>2, Files, Places, Order, Directory DEF GoingFacts

LEMMA InitInv == Init => IInv
<1> SUFFICES ASSUME Init PROVE IInv
  OBVIOUS
<1>1. Running
  BY DEF Init, Running
<1>2. FileFacts /\ CapacityFacts
  BY <1>1, Files, Capacities
<1>3. START_DIR_ENTS \in Nat /\ START_DIR_ENTS > 0 /\ N_INDIRECT \in Nat
  BY Params DEF ParamFacts
<1>4. TypeOK
  <2>1. next \in 1..Len(argv)+1 /\ job \in [inum : 0..nblocks-1, start : 0..nblocks-1, len : Nat]
    BY <1>2 DEF Init, FileFacts
  <2> QED
    BY <1>2, <1>3, <2>1 DEF Init, TypeOK, FileFacts
<1>5. Len(ents) = 0 /\ ~Entered /\ next = 1 /\ capacity = START_DIR_ENTS
  BY DEF Init, Entered, InFinish
<1>6. EntriesInv
  <2>1. capacity = Capacity[0] /\ 0 \in 0..Len(ents) /\ Len(ents) < capacity
    BY <1>2, <1>3, <1>5 DEF CapacityFacts
  <2>2. lost = {} /\ 1..Len(ents) = {}
    BY <1>5 DEF Init
  <2> QED
    BY <1>2, <1>5, <2>1, <2>2 DEF EntriesInv, FileFacts
<1>7. FrontInv /\ FilesInv /\ PlaceInv
  BY DEF Init, FrontInv, FilesInv, PlaceInv, InFinish, Finished
<1> QED
  BY <1>4, <1>6, <1>7 DEF IInv

LEMMA NeedType ==
  ASSUME Going
  PROVE  Need \in Nat
<1>1. GoingFacts
  BY GoesOn
<1>2. CASE pc = "opendisk"
  BY <1>1, <1>2 DEF Need, GoingFacts, FileFacts
<1>3. CASE pc = "read"
  <2>1. next \in 1..Len(argv)
    BY <1>1, <1>3 DEF GoingFacts, PlaceInv, FileFacts
  <2>2. Need = Size(next)
    BY <1>3 DEF Need, Size
  <2> QED
    BY <1>1, <2>1, <2>2 DEF GoingFacts, FileFacts
<1>4. CASE pc = "files" /\ next > Len(argv)
  <2>1. Len(ents) \in Nat /\ DirentSize \in Nat
    BY <1>1, Params DEF GoingFacts, TypeOK, ParamFacts
  <2>2. Len(ents) * DirentSize \in Nat
    BY <2>1
  <2> QED
    BY <1>4, <2>2, BlocksEnough DEF Need
<1>5. CASE pc \notin {"opendisk", "read"} /\ ~(pc = "files" /\ next > Len(argv))
  BY <1>5 DEF Need
<1> QED
  BY <1>2, <1>3, <1>4, <1>5

LEMMA OutOfBlocksInv == Going /\ OutOfBlocks => IInv'
<1> SUFFICES ASSUME Going, OutOfBlocks PROVE IInv'
  OBVIOUS
<1>1. GoingFacts
  BY GoesOn
<1>2. diskpos' \in Nat /\ pc' = "panic"
  BY <1>1, NeedType DEF OutOfBlocks, GoingFacts
<1> QED
  BY <1>1, <1>2 DEF GoingFacts, OutOfBlocks, TypeOK, IInv

LEMMA OpenDiskInv == Going /\ OpenDisk => IInv'
<1> SUFFICES ASSUME Going, OpenDisk PROVE IInv'
  OBVIOUS
<1> USE GoesOn DEF GoingFacts
<1>1. SameArgs /\ ents' = ents /\ lost' = lost /\ capacity' = capacity /\ next' = next /\ pc = "opendisk" /\ pc' = "root"
  BY DEF OpenDisk, SameArgs
<1>2. /\ Need = 1 + nbitblocks /\ diskpos = 0 /\ diskpos' = root /\ root < nblocks
      /\ nbitblocks \in Nat /\ nblocks \in Nat /\ root = nbitblocks + 1
  BY <1>1 DEF OpenDisk, Alloc, Fits, Need, FrontInv, FileFacts
<1>3. TypeOK'
  BY <1>2 DEF OpenDisk, TypeOK
<1>4. EntriesInv'
  <2>1. Len(ents) = (IF Entered THEN next ELSE next - 1)'
    BY <1>1 DEF EntriesInv, Entered, InFinish
  <2> QED
    BY <1>1, <2>1, EntriesStay
<1>5. FrontInv'
  <2>1. root' = root /\ nbitblocks' = nbitblocks /\ BitmapBlocks' = BitmapBlocks
    BY <1>1, SameLayout
  <2>2. ASSUME NEW b \in BitmapBlocks PROVE disk'[b] = Bitmap(0..BLKBITSIZE-1)
    BY <1>2 DEF OpenDisk, BitmapBlocks
  <2>3. ASSUME NEW b \in BitmapBlocks'
        PROVE  disk'[b] = Bitmap({i \in 0..BLKBITSIZE-1 :
                                    pc' = "done" => ~UsedBits((b - 1) * BLKBITSIZE + i)'})
    <3>1. {i \in 0..BLKBITSIZE-1 : pc' = "done" => ~UsedBits((b - 1) * BLKBITSIZE + i)'}
            = 0..BLKBITSIZE-1
      BY <1>1
    <3> QED
      BY <2>1, <2>2, <3>1
  <2>4. next' = 1 /\ diskpos' > nbitblocks' /\ diskpos' = root'
    BY <1>1, <1>2, <2>1 DEF FrontInv
  <2> QED
    BY <1>1, <2>3, <2>4 DEF FrontInv
<1>6. FilesInv' /\ PlaceInv'
  BY <1>1 DEF FilesInv, PlaceInv, InFinish, Finished
<1> QED
  BY <1>3, <1>4, <1>5, <1>6 DEF IInv

LEMMA MakeRootInv == Going /\ MakeRoot => IInv'
<1> SUFFICES ASSUME Going, MakeRoot PROVE IInv'
  OBVIOUS
<1> USE GoesOn DEF GoingFacts
<1>1. SameArgs /\ ents' = ents /\ lost' = lost /\ capacity' = capacity /\ next' = next /\ pc = "root" /\ pc' = "files"
  BY DEF MakeRoot, SameArgs
<1>2. /\ diskpos = root /\ diskpos' = root + 1 /\ root + 1 < nblocks /\ next = 1
      /\ nbitblocks \in Nat /\ nblocks \in Nat /\ root = nbitblocks + 1 /\ Len(argv) \in Nat
  BY <1>1 DEF MakeRoot, Alloc, Fits, FrontInv, FileFacts
<1>3. DOMAIN disk = 0..nblocks-1 /\ disk' = [disk EXCEPT ![root] = NewInode, ![0] = Super(root)]
  BY <1>2 DEF MakeRoot, TypeOK
<1>4. /\ DOMAIN disk' = 0..nblocks-1 /\ disk'[root] = NewInode /\ disk'[0] = Super(root)
      /\ \A b \in BitmapBlocks : disk'[b] = disk[b]
  BY <1>2, <1>3 DEF BitmapBlocks
<1>5. TypeOK'
  BY <1>2, <1>4 DEF MakeRoot, TypeOK
<1>6. EntriesInv'
  <2>1. Len(ents) = (IF Entered THEN next ELSE next - 1)'
    BY <1>1 DEF EntriesInv, Entered, InFinish
  <2> QED
    BY <1>1, <2>1, EntriesStay
<1>7. root' = root /\ nbitblocks' = nbitblocks /\ BitmapBlocks' = BitmapBlocks /\ At' = At
  BY <1>1, SameLayout
<1>8. FrontInv'
  <2>1. ASSUME NEW b \in BitmapBlocks'
        PROVE  disk'[b] = Bitmap({i \in 0..BLKBITSIZE-1 :
                                    pc' = "done" => ~UsedBits((b - 1) * BLKBITSIZE + i)'})
    <3>1. {i \in 0..BLKBITSIZE-1 : pc = "done" => ~UsedBits((b - 1) * BLKBITSIZE + i)}
            = 0..BLKBITSIZE-1
      BY <1>1
    <3>2. {i \in 0..BLKBITSIZE-1 : pc' = "done" => ~UsedBits((b - 1) * BLKBITSIZE + i)'}
            = 0..BLKBITSIZE-1
      BY <1>1
    <3>3. disk[b] = Bitmap({i \in 0..BLKBITSIZE-1 :
                              pc = "done" => ~UsedBits((b - 1) * BLKBITSIZE + i)})
      BY <1>1, <1>7 DEF FrontInv
    <3> QED
      BY <1>4, <1>7, <3>1, <3>2, <3>3
  <2>2. diskpos' > nbitblocks'
    BY <1>2, <1>7
  <2> QED
    BY <1>1, <1>4, <1>7, <2>1, <2>2 DEF FrontInv
<1>9. FilesInv'
  BY <1>1, <1>2 DEF FilesInv
<1>10. PlaceInv'
  <2>1. At[1] = root + 1
    BY DEF PlaceFacts
  <2> QED
    BY <1>1, <1>2, <1>4, <1>7, <2>1 DEF PlaceInv, InFinish, Finished, RootWaits
<1> QED
  BY <1>5, <1>6, <1>8, <1>9, <1>10 DEF IInv

\* The array grows at the sizes of MayBeLost, and only there is an entry lost.
LEMMA AddEntryEntries ==
  ASSUME Going, AddEntry
  PROVE  EntriesInv' /\ ents' \in Seq([name : StaleNames \cup {argv[f].name : f \in 1..Len(argv)},
                                      inum : StaleInums \cup 0..nblocks-1])
                   /\ lost' \subseteq 1..Len(argv) /\ capacity' \in Nat
<1> USE GoesOn DEF GoingFacts
<1>1. SameArgs /\ next' = next /\ pc = "files" /\ pc' = "read" /\ next <= Len(argv)
  BY DEF AddEntry, SameArgs
<1>2. /\ Len(argv) \in Nat /\ next \in 1..Len(argv) /\ diskpos \in 0..nblocks-1
      /\ diskpos = At[next] /\ CapacityFacts
  BY <1>1, Capacities DEF FileFacts, PlaceInv
<1> DEFINE n == Len(ents)
           Names == StaleNames \cup {argv[f].name : f \in 1..Len(argv)}
           Ent == [name : Names, inum : StaleInums \cup 0..nblocks-1]
<1>3. ents \in Seq(Ent) /\ n \in Nat /\ n = next - 1 /\ capacity \in Nat /\ n < capacity
  <2>1. ents \in Seq(Ent) /\ capacity \in Nat
    BY DEF TypeOK
  <2>2. n \in Nat
    BY <2>1
  <2>3. ~Entered
    BY <1>1 DEF Entered, InFinish
  <2>4. n = next - 1 /\ n < capacity
    BY <2>3 DEF EntriesInv
  <2> QED
    BY <2>1, <2>2, <2>4
<1>4. PICK e : /\ ents' = Append(ents, e)
               /\ \/ e = [name |-> argv[next].name, inum |-> At[next]] /\ lost' = lost
                  \/ MustGrow /\ e \in Stale /\ lost' = lost \cup {next}
  <2>1. CASE ents' = Append(ents, [name |-> argv[next].name, inum |-> diskpos]) /\ lost' = lost
    BY <1>2, <2>1
  <2>2. CASE /\ MustGrow /\ \E x \in Stale : ents' = Append(ents, x)
             /\ lost' = lost \cup {next}
    BY <2>2
  <2> QED
    BY <2>1, <2>2 DEF AddEntry
<1>5. e \in Ent
  <2>2. argv[next].name \in Names /\ At[next] \in 0..nblocks-1
    BY <1>2
  <2>3. CASE e = [name |-> argv[next].name, inum |-> At[next]]
    BY <2>2, <2>3
  <2>4. CASE e \in Stale
    BY <2>4 DEF Stale
  <2> QED
    BY <1>4, <2>3, <2>4
<1>6. /\ ents' \in Seq(Ent) /\ Len(ents') = n + 1 /\ ents'[n + 1] = e
      /\ \A f \in 1..n : ents'[f] = ents[f]
  <2> HIDE DEF Ent
  <2> QED
    BY <1>3, <1>4, <1>5
<1>7. PICK i \in 0..n : capacity = Capacity[i]
  BY <1>3 DEF EntriesInv
<1>8. MustGrow <=> n + 1 = capacity
  BY <1>3 DEF MustGrow
<1>9. i \in 0..Len(argv)-1 /\ i + 1 \in 0..n+1 /\ i \in 0..n+1 /\ i \in 0..Len(argv)
  BY <1>2, <1>3
<1>10. MustGrow => n + 1 \in MayBeLost
  BY <1>7, <1>8, <1>9 DEF MayBeLost
<1>11. /\ capacity' \in Nat /\ n + 1 < capacity'
       /\ \E k \in 0..n+1 : capacity' = Capacity[k]
  <2>1. CASE MustGrow
    <3>1. capacity' = 4 * capacity /\ Capacity[i + 1] = 4 * Capacity[i]
      BY <1>2, <1>9, <2>1 DEF AddEntry, CapacityFacts
    <3>2. capacity' = Capacity[i + 1]
      BY <1>7, <3>1
    <3> QED
      BY <1>3, <1>8, <1>9, <2>1, <3>1, <3>2
  <2>2. CASE ~MustGrow
    <3>1. capacity' = capacity
      BY <2>2 DEF AddEntry
    <3> QED
      BY <1>3, <1>7, <1>8, <1>9, <2>2, <3>1
  <2> QED
    BY <2>1, <2>2
<1>12. At' = At /\ Capacity' = Capacity /\ MayBeLost' = MayBeLost /\ argv' = argv
  BY <1>1, SameLayout DEF SameArgs
<1>13. lost \subseteq (1..n) \cap MayBeLost /\ n + 1 = next /\ next \notin lost
  <2>1. lost \subseteq (1..n) \cap MayBeLost
    BY DEF EntriesInv
  <2> QED
    BY <1>2, <1>3, <2>1
<1>16. lost' \subseteq (1..n+1) \cap MayBeLost
  BY <1>3, <1>4, <1>10, <1>13
<1>17. ASSUME NEW f \in 1..n+1
       PROVE  IF f \in lost' THEN ents'[f] \in Stale
                             ELSE ents'[f] = [name |-> argv[f].name, inum |-> At[f]]
  <2>1. CASE f \in 1..n
    <3>1. IF f \in lost THEN ents[f] \in Stale
                        ELSE ents[f] = [name |-> argv[f].name, inum |-> At[f]]
      BY <2>1 DEF EntriesInv
    <3>2. f # next
      BY <1>3, <1>13, <2>1
    <3>3. f \in lost' <=> f \in lost
      BY <1>4, <3>2
    <3> QED
      BY <1>6, <2>1, <3>1, <3>3
  <2>2. CASE f = n + 1
    <3>1. f = next /\ ents'[f] = e /\ f \notin lost
      BY <1>6, <1>13, <2>2
    <3> QED
      BY <1>4, <3>1
  <2> QED
    BY <1>3, <2>1, <2>2
<1>14. Entered' /\ Len(ents') = next' /\ Len(ents') <= Len(argv')
  BY <1>1, <1>2, <1>3, <1>6, <1>12 DEF Entered
<1>15. EntriesInv'
  <2> HIDE DEF n
  <2>1. Len(ents') = n + 1 /\ n + 1 < capacity' /\ n \in Nat
    BY <1>3, <1>6, <1>11
  <2> QED
    BY <1>11, <1>12, <1>14, <1>16, <1>17, <2>1 DEF EntriesInv
<1> QED
  <2>1. lost' \subseteq 1..Len(argv)
    BY <1>2, <1>3, <1>13, <1>16
  <2> QED
    BY <1>6, <1>11, <1>15, <2>1

LEMMA AddEntryInv == Going /\ AddEntry => IInv'
<1> SUFFICES ASSUME Going, AddEntry PROVE IInv'
  OBVIOUS
<1> USE GoesOn DEF GoingFacts
<1>1. SameArgs /\ next' = next /\ pc = "files" /\ pc' = "read" /\ next <= Len(argv)
  BY DEF AddEntry, SameArgs
<1>2. /\ diskpos = At[next] /\ diskpos' = diskpos + 1 /\ diskpos + 1 < nblocks
      /\ diskpos > root /\ root \in Nat /\ nblocks \in Nat /\ next \in 1..Len(argv)
  BY <1>1 DEF AddEntry, Alloc, Fits, PlaceInv, OrderFacts, FileFacts
<1>3. DOMAIN disk = 0..nblocks-1 /\ disk' = [disk EXCEPT ![diskpos] = NewInode]
  BY DEF AddEntry, TypeOK
<1>4. /\ DOMAIN disk' = 0..nblocks-1 /\ disk'[diskpos] = NewInode
      /\ \A b \in Nat : b < diskpos => disk'[b] = disk[b]
  BY <1>2, <1>3
<1>5. job'.inum = diskpos /\ job' \in [inum : 0..nblocks-1, start : 0..nblocks-1, len : Nat]
  <2>1. job \in [inum : 0..nblocks-1, start : 0..nblocks-1, len : Nat]
    BY DEF TypeOK
  <2>2. job' = [job EXCEPT !.inum = diskpos] /\ diskpos \in 0..nblocks-1
    BY <1>2 DEF AddEntry
  <2> QED
    BY <2>1, <2>2
<1>6. TypeOK'
  <2>1. /\ nblocks' = nblocks /\ argv' = argv /\ next' = next /\ slot' = slot
        /\ diskpos' \in Nat /\ diskpos' < nblocks' /\ pc' = "read"
    BY <1>1, <1>2 DEF AddEntry
  <2> QED
    BY <1>4, <1>5, <2>1, AddEntryEntries DEF TypeOK
<1>7. FrontInv'
  <2>1. diskpos \in Nat /\ diskpos' \in Nat /\ diskpos' >= diskpos
    BY <1>2
  <2>2. \A b \in Nat : b < root => disk'[b] = disk[b]
    BY <1>2, <1>4
  <2> QED
    BY <1>1, <2>1, <2>2, FrontStays
<1>8. FilesInv'
  <2>1. \A f \in 1..next-1 : FileDone(f)
    BY <1>1 DEF FilesInv
  <2>2. \A b \in Nat : root < b /\ b < At[next] => disk'[b] = disk[b]
    BY <1>2, <1>4
  <2>3. PICK m \in 1..Len(argv)+1 : m = next
    OBVIOUS
  <2>4. \A f \in 1..m-1 : FileDone(f)'
    BY <1>1, <2>1, <2>2, <2>3, FilesStay
  <2> QED
    BY <1>1, <2>4, <2>3 DEF FilesInv
<1>9. PlaceInv'
  <2>1. root' = root /\ At' = At /\ argv' = argv
    BY <1>1, SameLayout DEF SameArgs
  <2>2. RootWaits /\ RootWaits'
    BY <1>1, <1>2, <1>4, <2>1 DEF PlaceInv, RootWaits
  <2> QED
    BY <1>1, <1>2, <1>4, <1>5, <2>1, <2>2 DEF PlaceInv, InFinish, Finished
<1> QED
  BY <1>6, <1>7, <1>8, <1>9, AddEntryEntries DEF IInv

\* A step of the main program or of finishinode() that ends with the m-th inode
\* laid out as far as n blocks of pointers
LEMMA StageInv ==
  ASSUME Going, SameArgs, pc \notin {"opendisk", "root", "done"},
         ents' = ents /\ lost' = lost, capacity' = capacity,
         diskpos' \in Nat, diskpos' >= diskpos, diskpos' < nblocks,
         slot' \in 0..N_INDIRECT,
         job' \in [inum : 0..nblocks-1, start : 0..nblocks-1, len : Nat],
         DOMAIN disk' = 0..nblocks-1,
         NEW m \in 1..Len(argv)+1, m = next,
         Len(ents) = IF m <= Len(argv) THEN m ELSE m - 1,
         \A b \in Nat : b < At[m] /\ b # root => disk'[b] = disk[b],
         NEW j, NEW n \in Nat, job' = j, Stage(j, n, m)',
         \/ n < Extra(Blocks(j.len)) /\ next' = next /\ InFinish' /\ Made' = n
         \/ n = Extra(Blocks(j.len)) /\ Leave(j.inum)
  PROVE  IInv'
<1> USE GoesOn DEF GoingFacts
<1>1. /\ m \in 1..Len(argv)+1 /\ At[m] > root /\ root \in Nat /\ At[m] \in Nat
      /\ Len(argv) \in Nat
  <2>1. At[m] > root
    BY DEF OrderFacts
  <2>2. At[m] \in Nat
    BY DEF PlaceFacts
  <2>3. root \in Nat /\ Len(argv) \in Nat
    BY DEF FileFacts
  <2> QED
    BY <2>1, <2>2, <2>3
<1>2. \A f \in 1..m-1 : FileDone(f)'
  <2>1. \A f \in 1..m-1 : FileDone(f)
    BY DEF FilesInv
  <2>2. \A b \in Nat : root < b /\ b < At[m] => disk'[b] = disk[b]
    BY <1>1
  <2> QED
    BY <2>1, <2>2, FilesStay
<1>3. /\ EntriesInv' /\ FilesInv' /\ PlaceInv' /\ next' \in 1..Len(argv)+1
      /\ pc' \in {"files", "indirect", "double", "slots", "finishdisk"}
  BY <1>2, Continue
<1>4. FrontInv'
  <2>1. \A b \in Nat : b < root => disk'[b] = disk[b]
    BY <1>1
  <2>2. pc' \notin {"opendisk", "root", "done"}
    BY <1>3
  <2> QED
    BY <2>1, <2>2, FrontStays
<1>5. TypeOK'
  <2>1. nblocks' \in NBlocks /\ argv' \in Arguments /\ nblocks' = nblocks /\ argv' = argv
    BY DEF SameArgs, Running
  <2>2. /\ ents' \in Seq([name : StaleNames \cup {argv[f].name : f \in 1..Len(argv)},
                          inum : StaleInums \cup 0..nblocks-1])
        /\ lost' \subseteq 1..Len(argv)
        /\ capacity' \in Nat
    BY DEF TypeOK
  <2>3. pc' \in {"opendisk", "root", "files", "read", "indirect", "double", "slots",
                 "finishdisk", "done", "panic"}
    BY <1>3
  <2> QED
    BY <1>3, <2>1, <2>2, <2>3 DEF TypeOK
<1> QED
  BY <1>3, <1>4, <1>5 DEF IInv

\* Where block k of a file goes, in numbers.
LEMMA Shifted ==
  ASSUME NEW a \in Nat, NEW k \in Nat, NEW z \in Nat, NEW t \in Nat, k < z,
         NEW d, NEW e, NEW b, d = a + 1, e = d + z, e < t, b = a + 1 + k
  PROVE  b \in d..e-1 /\ b - d = k /\ b \in 0..t-1 /\ b # a
OBVIOUS

LEMMA ReadFileInv == Going /\ ReadFile => IInv'
<1> SUFFICES ASSUME Going, ReadFile PROVE IInv'
  OBVIOUS
<1> USE GoesOn DEF GoingFacts
<1>1. /\ SameArgs /\ pc = "read" /\ ents' = ents /\ lost' = lost /\ capacity' = capacity /\ slot' = slot
      /\ GoOn(N_DIRECT, "indirect")
  BY DEF ReadFile, SameArgs
<1>2. next \in 1..Len(argv) /\ Len(argv) \in Nat
  BY <1>1 DEF PlaceInv, FileFacts
<1>3. PICK m \in 1..Len(argv) : m = next
  BY <1>2
<1>4. PICK j : j = FileJob(m)
  OBVIOUS
<1>5. /\ JobFacts(j) /\ j.inum = At[m] /\ j.start = At[m] + 1 /\ j.len = argv[m].len
      /\ Blocks(j.len) = Size(m) /\ At[m] \in Nat /\ At[m] > root
      /\ Size(m) \in Nat /\ root \in Nat /\ nblocks \in Nat /\ argv[m].len \in Nat
      /\ N_DIRECT \in Nat /\ N_DIRECT > 0 /\ N_INDIRECT \in Nat
  <2>1. /\ JobFacts(j) /\ j.inum = At[m] /\ j.start = At[m] + 1 /\ j.len = argv[m].len
        /\ Blocks(j.len) = Size(m) /\ At[m] \in Nat /\ At[m] > root
    BY <1>3, <1>4, FileJobs
  <2>2. Size(m) \in Nat /\ root \in Nat /\ nblocks \in Nat /\ argv[m].len \in Nat
    BY DEF FileFacts
  <2>3. N_DIRECT \in Nat /\ N_DIRECT > 0 /\ N_INDIRECT \in Nat
    BY Params DEF ParamFacts
  <2> HIDE DEF GoingFacts
  <2> QED
    BY <2>1, <2>2, <2>3
<1>6. /\ RootWaits /\ job.inum = At[m] /\ disk[At[m]] = NewInode /\ diskpos = At[m] + 1
      /\ DOMAIN disk = 0..nblocks-1
      /\ slot \in 0..N_INDIRECT
      /\ job \in [inum : 0..nblocks-1, start : 0..nblocks-1, len : Nat]
  BY <1>1, <1>3, <1>4 DEF PlaceInv, TypeOK
<1>7. diskpos' = diskpos + Size(m) /\ diskpos' < nblocks
  <2>1. Need = Size(m)
    BY <1>1, <1>3, <1>4 DEF Need, Size
  <2> QED
    BY <2>1 DEF ReadFile, Alloc, Fits
<1>8. job' = j
  <2>1. job' = [job EXCEPT !.start = diskpos, !.len = argv[next].len]
    BY DEF ReadFile
  <2>2. job' = [inum |-> job.inum, start |-> diskpos, len |-> argv[next].len]
    BY <1>6, <2>1
  <2> QED
    BY <1>3, <1>4, <1>6, <2>2 DEF FileJob
<1>9. job' \in [inum : 0..nblocks-1, start : 0..nblocks-1, len : Nat]
  <2>1. At[m] \in 0..nblocks-1 /\ At[m] + 1 \in 0..nblocks-1
    BY <1>5, <1>6
  <2> QED
    BY <1>3, <1>4, <1>5, <1>8, <2>1 DEF FileJob
<1>10. /\ DOMAIN disk' = 0..nblocks-1
       /\ disk'[At[m]] = SizedInode(NewInode, j)
       /\ \A k \in 0..Size(m)-1 : disk'[At[m] + 1 + k] = Data(m, k)
       /\ \A b \in Nat : b < At[m] => disk'[b] = disk[b]
  <2>1. /\ DOMAIN disk' = 0..nblocks-1
        /\ \A b \in 0..nblocks-1 : disk'[b] =
             CASE b = job.inum -> SizedInode(disk[b], job')
               [] b \in diskpos..diskpos'-1 -> Data(next, b - diskpos)
               [] OTHER -> disk[b]
    BY DEF ReadFile
  <2>2. ASSUME NEW k \in 0..Size(m)-1 PROVE disk'[At[m] + 1 + k] = Data(m, k)
    <3>1. PICK b, d, e, z : b = At[m] + 1 + k /\ d = diskpos /\ e = diskpos' /\ z = Size(m)
      OBVIOUS
    <3>2. b \in 0..nblocks-1 /\ b # job.inum /\ b \in d..e-1 /\ b - d = k
      <4> HIDE DEF GoingFacts
      <4>1. PICK a, t : a = At[m] /\ t = nblocks
        OBVIOUS
      <4>2. k \in Nat /\ k < z /\ z \in Nat /\ a \in Nat /\ t \in Nat
        BY <1>5, <3>1, <4>1
      <4>3. d = a + 1 /\ e = d + z /\ e < t /\ b = a + 1 + k /\ job.inum = a
        BY <1>6, <1>7, <3>1, <4>1
      <4>4. b \in d..e-1 /\ b - d = k /\ b \in 0..t-1 /\ b # a
        BY <4>2, <4>3, Shifted
      <4>5. b \in 0..nblocks-1
        BY <4>1, <4>4
      <4>6. b # job.inum
        BY <4>3, <4>4
      <4> QED
        BY <4>4, <4>5, <4>6
    <3> QED
      BY <1>3, <1>4, <2>1, <3>1, <3>2
  <2>3. disk'[At[m]] = SizedInode(NewInode, j)
    <3>1. At[m] \in 0..nblocks-1
      BY <1>5, <1>6, <1>7
    <3> QED
      BY <1>6, <1>8, <2>1, <3>1
  <2>4. ASSUME NEW b \in Nat, b < At[m] PROVE disk'[b] = disk[b]
    <3>1. b \in 0..nblocks-1 /\ b # job.inum /\ b \notin diskpos..diskpos'-1
      <4> HIDE DEF GoingFacts
      <4>1. PICK a, d, e, t, z : /\ a = At[m] /\ d = diskpos /\ e = diskpos' /\ t = nblocks
                                 /\ z = Size(m)
        OBVIOUS
      <4>2. /\ a \in Nat /\ z \in Nat /\ t \in Nat /\ d = a + 1 /\ e = d + z /\ e < t
            /\ b < a /\ job.inum = a
        BY <1>5, <1>6, <1>7, <2>4, <4>1
      <4>3. b \in 0..t-1 /\ b # a /\ b \notin d..e-1
        BY <2>4, <4>2
      <4> QED
        BY <4>1, <4>2, <4>3
    <3> QED
      BY <2>1, <3>1
  <2> QED
    BY <2>1, <2>2, <2>3, <2>4
<1>11. Stage(j, 0, m)'
  <2>1. At' = At /\ Size(m)' = Size(m) /\ FileJob(m)' = FileJob(m) /\ root' = root
    BY <1>1, SameLayout
  <2>2. LaidOut(j, 0)'
    <3>1. disk'[j.inum] =
            [kind |-> "inode", i_size |-> j.len, i_direct |-> PointersFrom(j, 0, N_DIRECT),
             i_indirect |-> 0, i_double |-> 0]
      BY <1>5, <1>10 DEF SizedInode, NewInode
    <3>2. \A i \in 0..N_INDIRECT-1 : ~(i + 2 < 0)
      BY <1>5
    <3> QED
      BY <3>1, <3>2 DEF LaidOut
  <2>3. diskpos' = PastEnd(j, 0)
    BY <1>5, <1>6, <1>7 DEF PastEnd
  <2>4. FileWritten(m)'
    BY <1>10, <2>1 DEF FileWritten
  <2>5. RootWaits'
    <3> HIDE DEF GoingFacts
    <3>1. root \in Nat /\ At[m] \in Nat /\ root < At[m]
      BY <1>5
    <3>2. disk'[root] = disk[root]
      BY <1>10, <3>1
    <3>3. disk'[root'] = disk[root]
      BY <2>1, <3>2
    <3> QED
      BY <1>6, <3>3 DEF RootWaits, NewInode
  <2>6. m <= Len(argv') /\ j = FileJob(m)'
    BY <1>1, <1>2, <1>3, <1>4, <2>1 DEF SameArgs
  <2> QED
    BY <2>2, <2>3, <2>4, <2>5, <2>6 DEF Stage, PastEnd
<1>12. \/ 0 < Extra(Blocks(j.len)) /\ next' = next /\ InFinish' /\ Made' = 0
       \/ 0 = Extra(Blocks(j.len)) /\ Leave(j.inum)
  <2>1. CASE Blocks(j.len) >= N_DIRECT
    <3>1. pc' = "indirect" /\ next' = next
      BY <1>1, <1>8, <2>1 DEF GoOn
    <3>2. 0 < Extra(Blocks(j.len))
      BY <1>5, <2>1 DEF Extra
    <3> QED
      BY <3>1, <3>2 DEF InFinish, Made
  <2>2. CASE ~(Blocks(j.len) >= N_DIRECT)
    <3>1. Leave(j.inum)
      BY <1>1, <1>8, <2>2 DEF GoOn
    <3>2. 0 = Extra(Blocks(j.len))
      BY <1>5, <2>2 DEF Extra
    <3> QED
      BY <3>1, <3>2
  <2> QED
    BY <2>1, <2>2
<1>13. Len(ents) = IF m <= Len(argv) THEN m ELSE m - 1
  BY <1>1, <1>3, <1>4, <1>2 DEF EntriesInv, Entered
<1>14. /\ diskpos' \in Nat /\ diskpos' >= diskpos /\ slot' \in 0..N_INDIRECT
       /\ m \in 1..Len(argv)+1
  <2>1. diskpos' \in Nat /\ diskpos' >= diskpos
    <3>1. diskpos \in Nat /\ Size(m) \in Nat /\ diskpos' = diskpos + Size(m)
      BY <1>5, <1>7
    <3> HIDE DEF GoingFacts
    <3> QED
      BY <3>1
  <2>2. slot' \in 0..N_INDIRECT
    BY <1>1, <1>6
  <2>3. m \in 1..Len(argv)+1
    BY <1>3, <1>4
  <2> QED
    BY <2>1, <2>2, <2>3
<1> HIDE DEF GoingFacts
<1>15. \A b \in Nat : b < At[m] /\ b # root => disk'[b] = disk[b]
  BY <1>10
<1>16. PICK n \in Nat : n = 0
  OBVIOUS
<1>17. /\ Stage(j, n, m)'
       /\ \/ n < Extra(Blocks(j.len)) /\ next' = next /\ InFinish' /\ Made' = n
          \/ n = Extra(Blocks(j.len)) /\ Leave(j.inum)
  BY <1>11, <1>12, <1>16
<1> QED
  BY <1>1, <1>3, <1>4, <1>7, <1>8, <1>9, <1>10, <1>13, <1>14, <1>15, <1>17, StageInv

LEMMA WriteDirectoryInv == Going /\ WriteDirectory => IInv'
<1> SUFFICES ASSUME Going, WriteDirectory PROVE IInv'
  OBVIOUS
<1>0. GoingFacts
  BY GoesOn
<1>1. /\ SameArgs /\ pc = "files" /\ ents' = ents /\ lost' = lost /\ capacity' = capacity /\ slot' = slot
      /\ GoOn(N_DIRECT, "indirect")
  BY DEF WriteDirectory, SameArgs
<1>2. Len(argv) \in Nat /\ next = Len(argv) + 1 /\ Len(ents) = Len(argv)
  <2>1. Len(argv) \in Nat /\ next = Len(argv) + 1
    BY <1>0 DEF WriteDirectory, GoingFacts, FileFacts
  <2>2. Len(ents) = next - 1
    BY <1>0, <1>1 DEF GoingFacts, EntriesInv, Entered, InFinish
  <2> QED
    BY <2>1, <2>2
<1>3. PICK m, j : m = Len(argv) + 1 /\ j = DirJob
  OBVIOUS
<1>4. /\ JobFacts(j) /\ j.inum = root /\ j.start = At[m] /\ At[m] \in Nat /\ At[m] > root
      /\ Blocks(j.len) \in Nat /\ Blocks(j.len) = Blocks(Len(argv) * DirentSize)
      /\ j.len \in Nat
  <2>1. At[m] > root
    <3>1. m \in 1..Len(argv)+1
      BY <1>2, <1>3
    <3> QED
      BY <1>0, <3>1 DEF GoingFacts, OrderFacts
  <2> QED
    BY <1>0, <1>3, <2>1, DirJobs DEF GoingFacts, DirFacts
<1>5. /\ root \in Nat /\ nblocks \in Nat
      /\ N_DIRECT \in Nat /\ N_DIRECT > 0 /\ N_INDIRECT \in Nat
  BY <1>0, Params DEF GoingFacts, FileFacts, ParamFacts
<1>6. /\ disk[root] = NewInode /\ diskpos = At[m] /\ diskpos \in Nat /\ diskpos < nblocks
      /\ DOMAIN disk = 0..nblocks-1 /\ slot \in 0..N_INDIRECT
  BY <1>0, <1>1, <1>2, <1>3 DEF GoingFacts, PlaceInv, TypeOK, RootWaits
<1>7. diskpos' = diskpos + Blocks(j.len) /\ diskpos' < nblocks
  <2>1. Need = Blocks(j.len)
    BY <1>1, <1>2, <1>4 DEF Need, WriteDirectory
  <2> QED
    BY <2>1 DEF WriteDirectory, Alloc, Fits
<1>8. job' = j
  BY <1>2, <1>3, <1>6 DEF WriteDirectory, DirJob
<1>9. job' \in [inum : 0..nblocks-1, start : 0..nblocks-1, len : Nat]
  <2>1. root \in 0..nblocks-1 /\ At[m] \in 0..nblocks-1
    BY <1>4, <1>5, <1>6
  <2>2. j = [inum |-> root, start |-> At[m], len |-> j.len]
    BY <1>3 DEF DirJob
  <2> QED
    BY <1>4, <1>8, <2>1, <2>2
<1>10. /\ DOMAIN disk' = 0..nblocks-1
       /\ disk'[root] = SizedInode(NewInode, j)
       /\ \A k \in 0..Blocks(j.len)-1 : disk'[At[m] + k] =
            Dirents([n \in 0..BLKDIRENTS-1 |-> EntryAt(k * BLKDIRENTS + n)])
       /\ \A b \in Nat : b < At[m] /\ b # root => disk'[b] = disk[b]
  <2>1. /\ DOMAIN disk' = 0..nblocks-1
        /\ \A b \in 0..nblocks-1 : disk'[b] =
             CASE b = root -> SizedInode(disk[b], job')
               [] b \in diskpos..diskpos'-1 ->
                    Dirents([n \in 0..BLKDIRENTS-1 |->
                               EntryAt((b - diskpos) * BLKDIRENTS + n)])
               [] OTHER -> disk[b]
    BY DEF WriteDirectory
  <2>2. ASSUME NEW k \in 0..Blocks(j.len)-1
        PROVE  disk'[At[m] + k] =
                 Dirents([n \in 0..BLKDIRENTS-1 |-> EntryAt(k * BLKDIRENTS + n)])
    <3>1. PICK b : b = At[m] + k
      OBVIOUS
    <3>2. /\ b \in 0..nblocks-1 /\ b # root /\ b \in diskpos..diskpos'-1
          /\ b - diskpos = k
      <4>1. k \in Nat /\ k < Blocks(j.len)
        BY <1>4
      <4>2. b = diskpos + k /\ diskpos > root
        BY <1>4, <1>6, <3>1
      <4>3. diskpos' = diskpos + Blocks(j.len) /\ Blocks(j.len) \in Nat
        BY <1>4, <1>7
      <4>4. diskpos \in Nat /\ nblocks \in Nat /\ root \in Nat
        BY <1>5, <1>6
      <4> QED
        BY <1>7, <4>1, <4>2, <4>3, <4>4
    <3>3. disk'[b] = Dirents([n \in 0..BLKDIRENTS-1 |->
                               EntryAt((b - diskpos) * BLKDIRENTS + n)])
      BY <2>1, <3>2
    <3> QED
      BY <3>1, <3>2, <3>3
  <2>3. disk'[root] = SizedInode(NewInode, j)
    <3>1. root \in 0..nblocks-1
      BY <1>4, <1>5, <1>6
    <3>2. root < diskpos /\ root \notin diskpos..diskpos'-1
      BY <1>4, <1>5, <1>6
    <3>3. disk'[root] = SizedInode(disk[root], job')
      BY <2>1, <3>1, <3>2
    <3> QED
      BY <1>6, <1>8, <3>1, <3>3
  <2>4. ASSUME NEW b \in Nat, b < At[m], b # root PROVE disk'[b] = disk[b]
    <3>1. b \in 0..nblocks-1 /\ b \notin diskpos..diskpos'-1
      <4>1. b < diskpos
        BY <1>6, <2>4
      <4>2. diskpos \in Nat /\ nblocks \in Nat /\ diskpos < nblocks
        BY <1>5, <1>6
      <4> QED
        BY <4>1, <4>2
    <3>2. b # root
      BY <2>4
    <3> QED
      BY <2>1, <3>1, <3>2, Zenon
  <2> QED
    BY <2>1, <2>2, <2>3, <2>4
<1>11. Stage(j, 0, m)'
  <2>1. DirJob' = DirJob /\ argv' = argv
    BY <1>1, SameLayout DEF SameArgs
  <2>2. LaidOut(j, 0)'
    <3>1. disk'[j.inum] =
            [kind |-> "inode", i_size |-> j.len, i_direct |-> PointersFrom(j, 0, N_DIRECT),
             i_indirect |-> 0, i_double |-> 0]
      BY <1>4, <1>10 DEF SizedInode, NewInode
    <3>2. \A i \in 0..N_INDIRECT-1 : ~(i + 2 < 0)
      BY <1>5
    <3> QED
      BY <3>1, <3>2 DEF LaidOut
  <2>3. diskpos' = PastEnd(j, 0)
    BY <1>4, <1>6, <1>7 DEF PastEnd
  <2>4. DirWritten'
    <3>1. \A n : EntryAt(n)' = EntryAt(n)
      BY <1>1 DEF EntryAt
    <3>2. \A k \in 0..Blocks(j.len)-1 : disk'[j.start + k] =
            Dirents([n \in 0..BLKDIRENTS-1 |-> EntryAt(k * BLKDIRENTS + n)'])
      BY <1>4, <1>10, <3>1
    <3> QED
      BY <1>3, <2>1, <3>2 DEF DirWritten
  <2>5. m = Len(argv') + 1 /\ j = DirJob'
    BY <1>3, <2>1
  <2> QED
    BY <2>2, <2>3, <2>4, <2>5 DEF Stage, PastEnd
<1>12. \/ 0 < Extra(Blocks(j.len)) /\ next' = next /\ InFinish' /\ Made' = 0
       \/ 0 = Extra(Blocks(j.len)) /\ Leave(j.inum)
  <2>1. CASE Blocks(j.len) >= N_DIRECT
    <3>1. pc' = "indirect" /\ next' = next
      BY <1>1, <1>8, <2>1 DEF GoOn
    <3>2. 0 < Extra(Blocks(j.len))
      BY <1>4, <1>5, <2>1 DEF Extra
    <3> QED
      BY <3>1, <3>2 DEF InFinish, Made
  <2>2. CASE ~(Blocks(j.len) >= N_DIRECT)
    <3>1. Leave(j.inum)
      BY <1>1, <1>8, <2>2 DEF GoOn
    <3>2. 0 = Extra(Blocks(j.len))
      BY <1>4, <1>5, <2>2 DEF Extra
    <3> QED
      BY <3>1, <3>2
  <2> QED
    BY <2>1, <2>2
<1>13. Len(ents) = (IF m <= Len(argv) THEN m ELSE m - 1) /\ m \in 1..Len(argv)+1 /\ m = next
  BY <1>2, <1>3
<1>14. diskpos' \in Nat /\ diskpos' >= diskpos /\ slot' \in 0..N_INDIRECT
  BY <1>1, <1>4, <1>6, <1>7
<1>15. PICK n \in Nat : n = 0
  OBVIOUS
<1>16. /\ Stage(j, n, m)'
       /\ \/ n < Extra(Blocks(j.len)) /\ next' = next /\ InFinish' /\ Made' = n
          \/ n = Extra(Blocks(j.len)) /\ Leave(j.inum)
  BY <1>11, <1>12, <1>15
<1> QED
  BY <1>1, <1>7, <1>8, <1>9, <1>10, <1>13, <1>14, <1>16, StageInv

\* Where a step of finishinode() starts, for inode m with n blocks of pointers
StepFacts(j, n, m) ==
  /\ n \in Nat /\ n < Extra(Blocks(j.len)) /\ Stage(j, n, m)
  /\ m \in 1..Len(argv)+1 /\ m = next /\ j = job /\ JobFacts(j) /\ At[m] \in Nat
  /\ j.inum < PastEnd(j, 0) /\ At[m] <= PastEnd(j, 0) /\ (j.inum = root \/ At[m] <= j.inum)
  /\ m <= Len(argv) => root < j.inum
  /\ Len(ents) = IF m <= Len(argv) THEN m ELSE m - 1
  /\ PastEnd(j, 0) \in Nat /\ diskpos = PastEnd(j, 0) + n

LEMMA InFinishFacts ==
  ASSUME Going, InFinish
  PROVE  StepFacts(job, Made, next)
<1>0. GoingFacts
  BY GoesOn
<1>1. Made < Extra(Blocks(job.len)) /\ Stage(job, Made, next)
  BY <1>0 DEF GoingFacts, PlaceInv
<1>2. Made \in Nat
  <2>1. slot \in Nat
    BY <1>0, Params DEF GoingFacts, TypeOK, ParamFacts
  <2> QED
    BY <2>1 DEF Made, InFinish
<1>3. next \in 1..Len(argv)+1 /\ Len(argv) \in Nat /\ root \in Nat /\ At[next] \in Nat
  BY <1>0 DEF GoingFacts, FileFacts, PlaceFacts
<1>4. CASE next <= Len(argv)
  <2>1. next \in 1..Len(argv) /\ job = FileJob(next)
    BY <1>1, <1>3, <1>4 DEF Stage
  <2>2. /\ JobFacts(job) /\ job.inum = At[next] /\ job.start = At[next] + 1
        /\ At[next] > root
    BY <1>0, <2>1, FileJobs DEF GoingFacts
  <2>3. PastEnd(job, 0) \in Nat /\ PastEnd(job, 0) = At[next] + 1 + Blocks(job.len)
        /\ Blocks(job.len) \in Nat
    BY <2>2 DEF JobFacts
  <2>4. diskpos = PastEnd(job, 0) + Made
    BY <1>1, <1>2, <2>2 DEF Stage, JobFacts
  <2>5. Entered
    BY <1>3, <2>2 DEF Entered
  <2>6. Len(ents) = next
    BY <1>0, <2>5 DEF GoingFacts, EntriesInv
  <2>7. job.inum < PastEnd(job, 0) /\ At[next] <= PastEnd(job, 0) /\ root < job.inum
        /\ At[next] <= job.inum
    BY <1>3, <2>2, <2>3
  <2> QED
    BY <1>1, <1>2, <1>3, <1>4, <2>2, <2>3, <2>4, <2>6, <2>7 DEF StepFacts
<1>5. CASE ~(next <= Len(argv))
  <2>1. next = Len(argv) + 1 /\ job = DirJob
    BY <1>1, <1>3, <1>5 DEF Stage
  <2>2. JobFacts(job) /\ job.inum = root /\ job.start = At[next]
    BY <1>0, <2>1, DirJobs DEF GoingFacts, DirFacts
  <2>3. PastEnd(job, 0) \in Nat /\ PastEnd(job, 0) = At[next] + Blocks(job.len)
        /\ Blocks(job.len) \in Nat /\ At[next] > root
    BY <1>0, <2>2 DEF JobFacts, GoingFacts, OrderFacts
  <2>4. diskpos = PastEnd(job, 0) + Made
    BY <1>1, <1>2, <2>2 DEF Stage, JobFacts
  <2>5. ~Entered
    BY <2>2 DEF Entered, InFinish
  <2>6. Len(ents) = next - 1
    BY <1>0, <2>5 DEF GoingFacts, EntriesInv
  <2>7. job.inum < PastEnd(job, 0) /\ At[next] <= PastEnd(job, 0)
    BY <1>3, <2>2, <2>3
  <2> QED
    BY <1>1, <1>2, <1>3, <1>5, <2>2, <2>3, <2>4, <2>6, <2>7 DEF StepFacts
<1> QED
  BY <1>4, <1>5

\* A step of finishinode() leaves alone what is before the blocks it allocates,
\* the inode it works on apart.
LEMMA PointerStep ==
  ASSUME Going, InFinish, SameArgs, ents' = ents /\ lost' = lost, capacity' = capacity, job' = job,
         diskpos' = diskpos + 1, diskpos + 1 < nblocks, slot' \in 0..N_INDIRECT,
         DOMAIN disk' = 0..nblocks-1,
         NEW j, NEW n, NEW m, StepFacts(j, n, m),
         \A b \in Nat : b < PastEnd(j, 0) /\ b # j.inum => disk'[b] = disk[b],
         LaidOut(j, n + 1)',
         \/ n + 1 < Extra(Blocks(j.len)) /\ next' = next /\ InFinish' /\ Made' = n + 1
         \/ n + 1 = Extra(Blocks(j.len)) /\ Leave(j.inum)
  PROVE  IInv'
<1>0. GoingFacts
  BY GoesOn
<1>1. /\ n \in Nat /\ m \in 1..Len(argv)+1 /\ m = next /\ j = job /\ JobFacts(j)
      /\ At[m] \in Nat /\ j.inum < PastEnd(j, 0) /\ At[m] <= PastEnd(j, 0)
      /\ (j.inum = root \/ At[m] <= j.inum)
      /\ PastEnd(j, 0) \in Nat /\ diskpos = PastEnd(j, 0) + n
      /\ Len(ents) = IF m <= Len(argv) THEN m ELSE m - 1
  BY DEF StepFacts
<1>2. \A b \in Nat : b < At[m] /\ b # root => disk'[b] = disk[b]
  BY <1>1
<1>3. Len(argv) \in Nat /\ root \in Nat
  BY <1>0 DEF GoingFacts, FileFacts
<1>4. Stage(j, n + 1, m)'
  <2>1. diskpos' = PastEnd(j, n + 1)
    <3>1. n + 1 \in Nat
      BY <1>1
    <3>2. PastEnd(j, n + 1) = PastEnd(j, 0) + (n + 1)
      BY <1>1, <3>1 DEF JobFacts
    <3> QED
      BY <1>1, <3>2
  <2>2. CASE m <= Len(argv)
    <3>1. m \in 1..Len(argv) /\ j = FileJob(m) /\ FileWritten(m) /\ RootWaits /\ root < j.inum
      BY <1>1, <1>3, <2>2 DEF StepFacts, Stage
    <3>2. At' = At /\ Size(m)' = Size(m) /\ FileJob(m)' = FileJob(m) /\ root' = root
          /\ argv' = argv
      BY SameLayout DEF SameArgs
    <3>3. j.inum = At[m] /\ PastEnd(j, 0) = At[m] + 1 + Size(m) /\ Size(m) \in Nat
      <4>1. j.inum = At[m] /\ j.start = At[m] + 1 /\ Blocks(j.len) = Size(m)
        BY <1>0, <3>1, FileJobs DEF GoingFacts
      <4>2. PastEnd(j, 0) = j.start + Blocks(j.len) /\ Blocks(j.len) \in Nat
        BY <1>1 DEF JobFacts
      <4> QED
        BY <4>1, <4>2
    <3>4. ASSUME NEW k \in 0..Size(m)-1 PROVE disk'[At[m] + 1 + k] = Data(m, k)
      <4>1. k \in Nat /\ k < Size(m)
        BY <3>3
      <4>2. At[m] \in Nat
        BY <1>1
      <4>3. /\ At[m] + 1 + k \in Nat /\ At[m] + 1 + k < PastEnd(j, 0)
            /\ At[m] + 1 + k # j.inum
        BY <3>3, <4>1, <4>2
      <4> QED
        BY <3>1, <4>3 DEF FileWritten
    <3>5. disk'[root] = disk[root]
      <4>1. j.inum \in Nat
        BY <1>1 DEF JobFacts
      <4>2. root < PastEnd(j, 0) /\ root # j.inum
        BY <1>1, <1>3, <3>1, <4>1
      <4> QED
        BY <1>3, <4>2
    <3>6. FileWritten(m)' /\ RootWaits'
      BY <3>1, <3>2, <3>4, <3>5 DEF FileWritten, RootWaits
    <3> QED
      BY <2>1, <2>2, <3>1, <3>2, <3>6 DEF Stage, PastEnd
  <2>3. CASE ~(m <= Len(argv))
    <3>1. m = Len(argv) + 1 /\ j = DirJob /\ DirWritten
      BY <1>1, <1>3, <2>3 DEF StepFacts, Stage
    <3>2. DirJob' = DirJob /\ argv' = argv
      BY SameLayout DEF SameArgs
    <3>3. /\ j.inum = root /\ j.start > root /\ j.start \in Nat /\ Blocks(j.len) \in Nat
          /\ PastEnd(j, 0) = j.start + Blocks(j.len)
      <4>1. At[m] > root
        BY <1>0, <1>1 DEF GoingFacts, OrderFacts
      <4> QED
        BY <1>0, <1>1, <3>1, <4>1 DEF JobFacts, GoingFacts, DirFacts
    <3>4. \A i : EntryAt(i)' = EntryAt(i)
      BY DEF EntryAt
    <3>5. ASSUME NEW k \in 0..Blocks(j.len)-1
          PROVE  disk'[j.start + k] =
                   Dirents([i \in 0..BLKDIRENTS-1 |-> EntryAt(k * BLKDIRENTS + i)'])
      <4>1. k \in Nat /\ k < Blocks(j.len)
        BY <3>3
      <4>2. j.start + k \in Nat /\ j.start + k < PastEnd(j, 0) /\ j.start + k # j.inum
        BY <1>3, <3>3, <4>1
      <4>3. disk'[j.start + k] = disk[j.start + k]
        BY <4>2
      <4>4. disk[j.start + k] =
              Dirents([i \in 0..BLKDIRENTS-1 |-> EntryAt(k * BLKDIRENTS + i)])
        BY <3>1 DEF DirWritten
      <4>5. Dirents([i \in 0..BLKDIRENTS-1 |-> EntryAt(k * BLKDIRENTS + i)']) =
              Dirents([i \in 0..BLKDIRENTS-1 |-> EntryAt(k * BLKDIRENTS + i)])
        BY <3>4
      <4> QED
        BY <4>3, <4>4, <4>5
    <3>6. DirWritten'
      BY <3>1, <3>2, <3>5 DEF DirWritten
    <3> QED
      BY <2>1, <3>1, <3>2, <3>6 DEF Stage, PastEnd
  <2> QED
    BY <2>2, <2>3
<1>5. PICK k \in Nat : k = n + 1
  BY <1>1
<1>6. /\ Stage(j, k, m)'
      /\ \/ k < Extra(Blocks(j.len)) /\ next' = next /\ InFinish' /\ Made' = k
         \/ k = Extra(Blocks(j.len)) /\ Leave(j.inum)
  BY <1>4, <1>5
<1>7. /\ pc \notin {"opendisk", "root", "done"} /\ diskpos' \in Nat /\ diskpos' >= diskpos
      /\ diskpos' < nblocks
  BY <1>1 DEF InFinish
<1>8. job' = j /\ job' \in [inum : 0..nblocks-1, start : 0..nblocks-1, len : Nat]
  BY <1>0, <1>1 DEF GoingFacts, TypeOK
<1> QED
  BY <1>1, <1>2, <1>6, <1>7, <1>8, StageInv

\* Which blocks of pointers a file of each size gets
LEMMA ExtraCases ==
  ASSUME NEW k \in Nat
  PROVE  /\ 0 < Extra(k) => k >= N_DIRECT
         /\ Extra(k) > 1 <=> k >= N_DIRECT + N_INDIRECT
         /\ k >= N_DIRECT + N_INDIRECT => Extra(k) = 2 + N_INDIRECT
         /\ N_DIRECT <= k /\ k < N_DIRECT + N_INDIRECT => Extra(k) = 1
BY Params DEF ParamFacts, Extra

\* What finishinode()'s steps have in common
LEMMA PointerFacts ==
  ASSUME Going, InFinish
  PROVE  /\ StepFacts(job, Made, next)
         /\ JobFacts(job) /\ LaidOut(job, Made) /\ Made \in Nat
         /\ Made < Extra(Blocks(job.len)) /\ Blocks(job.len) \in Nat
         /\ diskpos = PastEnd(job, 0) + Made /\ PastEnd(job, 0) \in Nat /\ diskpos \in Nat
         /\ job.inum \in Nat /\ job.inum < PastEnd(job, 0) /\ job.inum \in 0..nblocks-1
         /\ nblocks \in Nat /\ diskpos < nblocks /\ DOMAIN disk = 0..nblocks-1
         /\ slot \in 0..N_INDIRECT
         /\ N_DIRECT \in Nat /\ N_DIRECT > 0 /\ N_INDIRECT \in Nat /\ N_INDIRECT > 0
<1>0. GoingFacts /\ ParamFacts
  BY GoesOn, Params
<1>1. StepFacts(job, Made, next)
  BY InFinishFacts
<1>2. JobFacts(job) /\ LaidOut(job, Made)
  BY <1>1 DEF StepFacts, Stage
<1>3. slot \in 0..N_INDIRECT /\ DOMAIN disk = 0..nblocks-1 /\ job.inum \in 0..nblocks-1
      /\ nblocks \in Nat
  BY <1>0 DEF GoingFacts, TypeOK, FileFacts
<1> QED
  BY <1>0, <1>1, <1>2, <1>3 DEF StepFacts, JobFacts, GoingFacts, ParamFacts

LEMMA AllocIndirectInv == Going /\ AllocIndirect => IInv'
<1> SUFFICES ASSUME Going, AllocIndirect PROVE IInv'
  OBVIOUS
<1>1. /\ SameArgs /\ pc = "indirect" /\ InFinish /\ Made = 0 /\ ents' = ents /\ lost' = lost
      /\ capacity' = capacity /\ slot' = slot /\ job' = job
      /\ diskpos' = diskpos + 1 /\ diskpos + 1 < nblocks
      /\ GoOn(N_DIRECT + N_INDIRECT, "double")
  BY DEF AllocIndirect, SameArgs, InFinish, Made, Alloc, Fits
<1>2. PICK j, first, m : j = job /\ first = diskpos /\ m = next
  OBVIOUS
<1>3. /\ StepFacts(j, 0, m) /\ JobFacts(j) /\ LaidOut(j, 0)
      /\ 0 < Extra(Blocks(j.len)) /\ Blocks(j.len) \in Nat
      /\ first = PastEnd(j, 0) /\ first \in Nat /\ first < nblocks
      /\ j.inum \in Nat /\ j.inum < first /\ j.inum \in 0..nblocks-1
      /\ nblocks \in Nat /\ DOMAIN disk = 0..nblocks-1
      /\ slot \in 0..N_INDIRECT
      /\ N_DIRECT \in Nat /\ N_INDIRECT \in Nat /\ N_INDIRECT > 0
  BY <1>1, <1>2, PointerFacts
<1>4. disk' = [disk EXCEPT ![j.inum].i_indirect = first,
                           ![first] = Pointers(PointersFrom(j, N_DIRECT, N_INDIRECT))]
  BY <1>2 DEF AllocIndirect
<1>5. /\ DOMAIN disk' = 0..nblocks-1
      /\ disk'[first] = Pointers(PointersFrom(j, N_DIRECT, N_INDIRECT))
      /\ disk'[j.inum] = [disk[j.inum] EXCEPT !.i_indirect = first]
      /\ \A b \in Nat : b < first /\ b # j.inum => disk'[b] = disk[b]
  BY <1>3, <1>4
<1>6. LaidOut(j, 0 + 1)'
  <2>1. disk[j.inum] =
          [kind |-> "inode", i_size |-> j.len, i_direct |-> PointersFrom(j, 0, N_DIRECT),
           i_indirect |-> 0, i_double |-> 0]
    BY <1>3 DEF LaidOut
  <2>2. disk'[j.inum] =
          [kind |-> "inode", i_size |-> j.len, i_direct |-> PointersFrom(j, 0, N_DIRECT),
           i_indirect |-> first, i_double |-> 0]
    BY <1>5, <2>1
  <2>3. \A i \in 0..N_INDIRECT-1 : ~(i + 2 < 1)
    BY <1>3
  <2>4. 0 + 1 = 1
    OBVIOUS
  <2> HIDE <1>4
  <2>5. LaidOut(j, 1)'
    BY <1>3, <1>5, <2>2, <2>3 DEF LaidOut, PastEnd
  <2> QED
    BY <2>4, <2>5
<1>7. \/ 0 + 1 < Extra(Blocks(j.len)) /\ next' = next /\ InFinish' /\ Made' = 0 + 1
      \/ 0 + 1 = Extra(Blocks(j.len)) /\ Leave(j.inum)
  <2>1. CASE Blocks(j.len) >= N_DIRECT + N_INDIRECT
    <3>1. pc' = "double" /\ next' = next
      BY <1>1, <1>2, <2>1 DEF GoOn
    <3>2. 1 < Extra(Blocks(j.len))
      BY <1>3, <2>1, ExtraCases
    <3> QED
      BY <3>1, <3>2 DEF InFinish, Made
  <2>2. CASE ~(Blocks(j.len) >= N_DIRECT + N_INDIRECT)
    <3>1. Leave(j.inum)
      BY <1>1, <1>2, <2>2 DEF GoOn
    <3>2. N_DIRECT <= Blocks(j.len) /\ Blocks(j.len) < N_DIRECT + N_INDIRECT
      BY <1>3, <2>2, ExtraCases
    <3>3. 1 = Extra(Blocks(j.len))
      BY <1>3, <3>2, ExtraCases
    <3> QED
      BY <3>1, <3>3
  <2> QED
    BY <2>1, <2>2
<1>8. PICK n : n = 0
  OBVIOUS
<1> QED
  BY <1>1, <1>2, <1>3, <1>5, <1>6, <1>7, <1>8, PointerStep

LEMMA AllocDoubleInv == Going /\ AllocDouble => IInv'
<1> SUFFICES ASSUME Going, AllocDouble PROVE IInv'
  OBVIOUS
<1>1. /\ SameArgs /\ pc = "double" /\ InFinish /\ Made = 1 /\ ents' = ents /\ lost' = lost
      /\ capacity' = capacity /\ slot' = 0 /\ job' = job /\ next' = next
      /\ diskpos' = diskpos + 1 /\ diskpos + 1 < nblocks /\ pc' = "slots"
  BY DEF AllocDouble, SameArgs, InFinish, Made, Alloc, Fits
<1>2. PICK j, first, m : j = job /\ first = PastEnd(job, 0) /\ m = next
  OBVIOUS
<1>3. /\ StepFacts(j, 1, m) /\ JobFacts(j) /\ LaidOut(j, 1)
      /\ 1 < Extra(Blocks(j.len)) /\ Blocks(j.len) \in Nat
      /\ first \in Nat /\ diskpos = first + 1 /\ first + 1 < nblocks
      /\ j.inum \in Nat /\ j.inum < first /\ j.inum \in 0..nblocks-1
      /\ nblocks \in Nat /\ DOMAIN disk = 0..nblocks-1
      /\ N_DIRECT \in Nat /\ N_INDIRECT \in Nat /\ N_INDIRECT > 0
  BY <1>1, <1>2, PointerFacts
<1>4. disk' = [disk EXCEPT ![j.inum].i_double = first + 1,
                           ![first + 1] = Pointers([i \in 0..N_INDIRECT-1 |-> 0])]
  BY <1>2, <1>3 DEF AllocDouble
<1>5. /\ DOMAIN disk' = 0..nblocks-1
      /\ disk'[first + 1] = Pointers([i \in 0..N_INDIRECT-1 |-> 0])
      /\ disk'[j.inum] = [disk[j.inum] EXCEPT !.i_double = first + 1]
      /\ \A b \in Nat : b <= first /\ b # j.inum => disk'[b] = disk[b]
  <2>1. PICK next1 : next1 = first + 1
    OBVIOUS
  <2>2. /\ next1 \in 0..nblocks-1 /\ next1 # j.inum
        /\ \A b \in Nat : b <= first => b # next1
    BY <1>3, <2>1
  <2>3. DOMAIN disk' = 0..nblocks-1
    BY <1>3, <1>4
  <2>4. disk'[next1] = Pointers([i \in 0..N_INDIRECT-1 |-> 0])
    BY <1>3, <1>4, <2>1, <2>2
  <2>5. disk'[j.inum] = [disk[j.inum] EXCEPT !.i_double = first + 1]
    BY <1>3, <1>4, <2>1, <2>2
  <2>6. ASSUME NEW b \in Nat, b <= first, b # j.inum PROVE disk'[b] = disk[b]
    BY <1>3, <1>4, <2>1, <2>2, <2>6
  <2> QED
    BY <2>1, <2>3, <2>4, <2>5, <2>6
<1>6. LaidOut(j, 1 + 1)'
  <2>1. /\ disk[j.inum] =
             [kind |-> "inode", i_size |-> j.len, i_direct |-> PointersFrom(j, 0, N_DIRECT),
              i_indirect |-> first, i_double |-> 0]
        /\ disk[first] = Pointers(PointersFrom(j, N_DIRECT, N_INDIRECT))
    BY <1>2, <1>3 DEF LaidOut
  <2>2. /\ disk'[j.inum] =
             [kind |-> "inode", i_size |-> j.len, i_direct |-> PointersFrom(j, 0, N_DIRECT),
              i_indirect |-> first, i_double |-> first + 1]
        /\ disk'[first] = disk[first]
    <3>1. disk'[first] = disk[first]
      BY <1>3, <1>5
    <3>2. disk'[j.inum] = [disk[j.inum] EXCEPT !.i_double = first + 1]
      BY <1>5
    <3> QED
      BY <2>1, <3>1, <3>2
  <2>3. \A i \in 0..N_INDIRECT-1 : ~(i + 2 < 2)
    BY <1>3
  <2>4. [i \in 0..N_INDIRECT-1 |-> IF i + 2 < 2 THEN first + 2 + i ELSE 0]
          = [i \in 0..N_INDIRECT-1 |-> 0]
    BY <2>3
  <2>5. PastEnd(j, 0) = first /\ 1 + 1 = 2
    BY <1>2
  <2>6. disk'[first + 1] = Pointers([i \in 0..N_INDIRECT-1 |->
                                       IF i + 2 < 2 THEN first + 2 + i ELSE 0])
    BY <1>5, <2>4
  <2> HIDE <1>4
  <2>7. disk'[j.inum] =
          [kind |-> "inode", i_size |-> j.len, i_direct |-> PointersFrom(j, 0, N_DIRECT),
           i_indirect |-> IF 2 > 0 THEN first ELSE 0,
           i_double |-> IF 2 > 1 THEN first + 1 ELSE 0]
    BY <2>2
  <2>8. disk'[first] = Pointers(PointersFrom(j, N_DIRECT, N_INDIRECT))
    BY <2>1, <2>2
  <2>9. LaidOut(j, 2)'
    BY <2>3, <2>5, <2>6, <2>7, <2>8, Zenon DEF LaidOut
  <2> QED
    BY <2>5, <2>9
<1>7. 1 + 1 < Extra(Blocks(j.len)) /\ next' = next /\ InFinish' /\ Made' = 1 + 1
  <2>1. Extra(Blocks(j.len)) = 2 + N_INDIRECT
    BY <1>3, ExtraCases
  <2> QED
    BY <1>1, <1>3, <2>1 DEF InFinish, Made
<1>8. PICK n : n = 1
  OBVIOUS
<1>9. /\ slot' \in 0..N_INDIRECT /\ first = PastEnd(j, 0)
      /\ \A b \in Nat : b < first /\ b # j.inum => disk'[b] = disk[b]
  BY <1>1, <1>2, <1>3, <1>5
<1> QED
  BY <1>1, <1>2, <1>3, <1>5, <1>6, <1>7, <1>8, <1>9, PointerStep

LEMMA AllocSlotInv == Going /\ AllocSlot => IInv'
<1> SUFFICES ASSUME Going, AllocSlot PROVE IInv'
  OBVIOUS
<1>1. /\ SameArgs /\ pc = "slots" /\ InFinish /\ Made = 2 + slot /\ ents' = ents /\ lost' = lost
      /\ capacity' = capacity /\ slot' = slot + 1 /\ job' = job
      /\ diskpos' = diskpos + 1 /\ diskpos + 1 < nblocks
      /\ IF slot + 1 < N_INDIRECT THEN UNCHANGED <<pc, next>> ELSE Leave(job.inum)
  BY DEF AllocSlot, SameArgs, InFinish, Made, Alloc, Fits
<1>2. PICK j, first, s, m, n : /\ j = job /\ first = PastEnd(job, 0) /\ s = slot /\ m = next
                               /\ n = 2 + slot
  OBVIOUS
<1>3. /\ StepFacts(j, n, m) /\ JobFacts(j) /\ LaidOut(j, n)
      /\ n < Extra(Blocks(j.len)) /\ Blocks(j.len) \in Nat
      /\ first \in Nat /\ diskpos = first + n
      /\ j.inum \in Nat /\ j.inum < first /\ j.inum \in 0..nblocks-1
      /\ nblocks \in Nat /\ DOMAIN disk = 0..nblocks-1 /\ s \in 0..N_INDIRECT
      /\ N_DIRECT \in Nat /\ N_INDIRECT \in Nat /\ N_INDIRECT > 0
  BY <1>1, <1>2, PointerFacts
<1>4. s \in Nat /\ n = 2 + s /\ n \in Nat /\ n + 1 \in Nat /\ s < N_INDIRECT
      /\ Extra(Blocks(j.len)) = 2 + N_INDIRECT
  <2>1. s \in Nat /\ n = 2 + s /\ n \in Nat /\ n > 1
    BY <1>2, <1>3
  <2>2. Extra(Blocks(j.len)) = 2 + N_INDIRECT
    <3>1. Extra(Blocks(j.len)) \in Nat /\ Extra(Blocks(j.len)) > 1
      BY <1>3, <2>1, ExtraType
    <3> QED
      BY <1>3, <3>1, ExtraCases
  <2> QED
    BY <1>3, <2>1, <2>2
<1> DEFINE second == first + 1
           last == first + n
           To(k) == [i \in 0..N_INDIRECT-1 |-> IF i + 2 < k THEN first + 2 + i ELSE 0]
<1>5. /\ disk[j.inum] =
           [kind |-> "inode", i_size |-> j.len, i_direct |-> PointersFrom(j, 0, N_DIRECT),
            i_indirect |-> first, i_double |-> second]
      /\ disk[first] = Pointers(PointersFrom(j, N_DIRECT, N_INDIRECT))
      /\ disk[second] = Pointers(To(n))
      /\ \A i \in 0..N_INDIRECT-1 : i + 2 < n =>
           disk[first + 2 + i] = Pointers(PointersFrom(j, SlotBase(i), N_INDIRECT))
  <2>1. n > 0 /\ n > 1
    BY <1>4
  <2> QED
    BY <1>2, <1>3, <2>1 DEF LaidOut
<1>6. /\ DOMAIN disk' = 0..nblocks-1
      /\ disk'[last] = Pointers(PointersFrom(j, SlotBase(s), N_INDIRECT))
      /\ disk'[second] = [disk[second] EXCEPT !.to[s] = last]
      /\ \A b \in Nat : b < last /\ b # second => disk'[b] = disk[b]
  <2>1. disk' = [disk EXCEPT ![second].to[s] = last,
                             ![last] = Pointers(PointersFrom(j, SlotBase(s), N_INDIRECT))]
    <3>1. disk[job.inum].i_double = second
      BY <1>2, <1>5
    <3> QED
      BY <1>2, <1>3, <3>1 DEF AllocSlot
  <2>2. /\ second \in 0..nblocks-1 /\ last \in 0..nblocks-1 /\ second # last
        /\ second \in Nat /\ last \in Nat
    BY <1>1, <1>3, <1>4
  <2> HIDE DEF second, last
  <2>3. /\ DOMAIN disk' = 0..nblocks-1
        /\ disk'[last] = Pointers(PointersFrom(j, SlotBase(s), N_INDIRECT))
        /\ disk'[second] = [disk[second] EXCEPT !.to[s] = last]
    BY <1>3, <2>1, <2>2
  <2>4. ASSUME NEW b \in Nat, b < last, b # second PROVE disk'[b] = disk[b]
    <3>1. b # last /\ b \in 0..nblocks-1
      BY <1>3, <2>2, <2>4
    <3> QED
      BY <1>3, <2>1, <2>4, <3>1
  <2> QED
    BY <2>3, <2>4
<1>7. To(n + 1) = [To(n) EXCEPT ![s] = last]
  <2>1. ASSUME NEW i \in 0..N_INDIRECT-1
        PROVE  To(n + 1)[i] = IF i = s THEN last ELSE To(n)[i]
    <3>1. CASE i = s
      BY <1>3, <1>4, <3>1
    <3>2. CASE i # s
      <4>1. i + 2 < n + 1 <=> i + 2 < n
        BY <1>3, <1>4, <3>2
      <4> QED
        BY <3>2, <4>1
    <3> QED
      BY <3>1, <3>2
  <2> HIDE DEF last
  <2>2. DOMAIN To(n + 1) = 0..N_INDIRECT-1 /\ DOMAIN To(n) = 0..N_INDIRECT-1
    OBVIOUS
  <2>3. To(n + 1) = [i \in 0..N_INDIRECT-1 |-> IF i = s THEN last ELSE To(n)[i]]
    BY <2>1
  <2> QED
    BY <2>2, <2>3
<1>8. disk'[second] = Pointers(To(n + 1))
  <2> HIDE DEF To, second, last
  <2>1. disk[second] = [kind |-> "pointers", to |-> To(n)]
    BY <1>5 DEF Pointers
  <2> QED
    BY <1>6, <1>7, <2>1 DEF Pointers
<1>9. disk'[j.inum] = disk[j.inum] /\ disk'[first] = disk[first]
  <2>1. j.inum < last /\ j.inum # second /\ first < last /\ first # second
    BY <1>3, <1>4
  <2> HIDE DEF last, second
  <2> QED
    BY <1>3, <1>6, <2>1
<1>10. ASSUME NEW i \in 0..N_INDIRECT-1, i + 2 < n + 1
       PROVE  disk'[first + 2 + i] = Pointers(PointersFrom(j, SlotBase(i), N_INDIRECT))
  <2>1. CASE i = s
    <3>1. first + 2 + i = last
      BY <1>3, <1>4, <2>1
    <3> QED
      BY <1>6, <2>1, <3>1
  <2>2. CASE i # s
    <3>1. i + 2 < n /\ i \in Nat
      BY <1>3, <1>4, <1>10, <2>2
    <3>2. first + 2 + i \in Nat /\ first + 2 + i < last /\ first + 2 + i # second
      BY <1>3, <1>4, <3>1
    <3>3. disk'[first + 2 + i] = disk[first + 2 + i]
      BY <1>6, <3>2
    <3> QED
      BY <1>5, <3>1, <3>3
  <2> QED
    BY <2>1, <2>2
<1>11. PICK k : k = n + 1
  OBVIOUS
<1>12. LaidOut(j, k)'
  <2>1. k > 0 /\ k > 1
    BY <1>4, <1>11
  <2>2. disk'[j.inum] =
          [kind |-> "inode", i_size |-> j.len, i_direct |-> PointersFrom(j, 0, N_DIRECT),
           i_indirect |-> IF k > 0 THEN first ELSE 0,
           i_double |-> IF k > 1 THEN first + 1 ELSE 0]
    BY <1>5, <1>9, <2>1
  <2>3. disk'[first] = Pointers(PointersFrom(j, N_DIRECT, N_INDIRECT))
    BY <1>5, <1>9
  <2>4. disk'[first + 1] = Pointers([i \in 0..N_INDIRECT-1 |->
                                       IF i + 2 < k THEN first + 2 + i ELSE 0])
    BY <1>8, <1>11
  <2>5. \A i \in 0..N_INDIRECT-1 : i + 2 < k =>
          disk'[first + 2 + i] = Pointers(PointersFrom(j, SlotBase(i), N_INDIRECT))
    BY <1>10, <1>11
  <2>6. PastEnd(j, 0) = first
    BY <1>2
  <2> QED
    BY <2>2, <2>3, <2>4, <2>5, <2>6, Zenon DEF LaidOut
<1>13. \/ n + 1 < Extra(Blocks(j.len)) /\ next' = next /\ InFinish' /\ Made' = n + 1
       \/ n + 1 = Extra(Blocks(j.len)) /\ Leave(j.inum)
  <2>1. CASE s + 1 < N_INDIRECT
    <3>1. pc' = "slots" /\ next' = next /\ slot' = s + 1
      BY <1>1, <1>2, <2>1
    <3>2. n + 1 < Extra(Blocks(j.len)) /\ 2 + (s + 1) = n + 1
      BY <1>3, <1>4, <2>1
    <3> QED
      BY <3>1, <3>2 DEF InFinish, Made
  <2>2. CASE ~(s + 1 < N_INDIRECT)
    <3>1. Leave(j.inum)
      BY <1>1, <1>2, <2>2
    <3>2. n + 1 = Extra(Blocks(j.len))
      BY <1>3, <1>4, <2>2
    <3> QED
      BY <3>1, <3>2
  <2> QED
    BY <2>1, <2>2
<1>14. /\ slot' \in 0..N_INDIRECT /\ first = PastEnd(j, 0)
       /\ \A b \in Nat : b < first /\ b # j.inum => disk'[b] = disk[b]
  <2>1. slot' \in 0..N_INDIRECT
    BY <1>1, <1>2, <1>3, <1>4
  <2>2. ASSUME NEW b \in Nat, b < first PROVE disk'[b] = disk[b]
    <3>1. b < last /\ b # second
      BY <1>3, <1>4, <2>2
    <3> QED
      BY <1>6, <3>1
  <2> QED
    BY <1>2, <2>1, <2>2
<1>15. LaidOut(j, n + 1)'
  BY <1>11, <1>12
<1> HIDE DEF second, last, To
<1> QED
  BY <1>1, <1>2, <1>3, <1>6, <1>13, <1>14, <1>15, PointerStep

LEMMA FinishDiskInv == Going /\ FinishDisk => IInv'
<1> SUFFICES ASSUME Going, FinishDisk PROVE IInv'
  OBVIOUS
<1>0. GoingFacts
  BY GoesOn
<1>1. /\ SameArgs /\ pc = "finishdisk" /\ pc' = "done" /\ ents' = ents /\ lost' = lost
      /\ capacity' = capacity /\ slot' = slot /\ job' = job /\ next' = next
      /\ diskpos' = diskpos
  BY DEF FinishDisk, SameArgs
<1>2. /\ nblocks \in Nat /\ nbitblocks \in Nat /\ root = nbitblocks + 1 /\ root \in Nat
      /\ Len(argv) \in Nat /\ DOMAIN disk = 0..nblocks-1
      /\ diskpos \in Nat /\ diskpos < nblocks /\ diskpos > nbitblocks
      /\ disk[0] = Super(root)
  BY <1>0, <1>1 DEF GoingFacts, FileFacts, TypeOK, FrontInv
<1>3. PICK j, n, m : j = DirJob /\ n = Extra(Blocks(DirJob.len)) /\ m = Len(argv) + 1
  OBVIOUS
<1>4. /\ next = m /\ job = j /\ LaidOut(j, n) /\ diskpos = PastEnd(j, n) /\ DirWritten
  BY <1>0, <1>1, <1>2, <1>3 DEF GoingFacts, PlaceInv, Finished, Stage
<1>5. /\ JobFacts(j) /\ j.inum = root /\ j.start = At[m] /\ n \in Nat
      /\ PastEnd(j, 0) \in Nat /\ PastEnd(j, n) = PastEnd(j, 0) + n
      /\ PastEnd(j, 0) = j.start + Blocks(j.len) /\ j.start \in Nat /\ Blocks(j.len) \in Nat
  BY <1>0, <1>3, DirJobs DEF GoingFacts, DirFacts, JobFacts
<1>6. At[m] > root /\ m \in 1..Len(argv)+1
  BY <1>0, <1>2, <1>3 DEF GoingFacts, OrderFacts
<1>7. /\ root' = root /\ nbitblocks' = nbitblocks /\ BitmapBlocks' = BitmapBlocks
      /\ At' = At /\ DirJob' = DirJob /\ argv' = argv
  BY <1>1, SameLayout DEF SameArgs
<1>8. /\ DOMAIN disk' = 0..nblocks-1
      /\ \A b \in 0..nblocks-1 : disk'[b] =
           IF b \in BitmapBlocks
           THEN Bitmap({i \in disk[b].free : ~UsedBits((b - 1) * BLKBITSIZE + i)})
           ELSE disk[b]
  BY DEF FinishDisk
<1>9. ASSUME NEW b \in Nat, b > nbitblocks, b < nblocks PROVE disk'[b] = disk[b]
  <2>1. b \in 0..nblocks-1 /\ b \notin BitmapBlocks
    BY <1>2, <1>9 DEF BitmapBlocks
  <2> QED
    BY <1>8, <2>1
<1>10. FilesInv'
  <2>1. \A f \in 1..m-1 : FileDone(f)
    BY <1>0, <1>1, <1>4 DEF GoingFacts, FilesInv
  <2>2. ASSUME NEW b \in Nat, root < b, b < At[m] PROVE disk'[b] = disk[b]
    <3>1. b > nbitblocks /\ b < nblocks
      BY <1>2, <1>4, <1>5, <2>2
    <3> QED
      BY <1>9, <3>1
  <2>3. \A f \in 1..m-1 : FileDone(f)'
    BY <1>0, <1>1, <1>6, <2>1, <2>2, FilesStay DEF GoingFacts
  <2> QED
    BY <1>1, <1>4, <2>3 DEF FilesInv
<1>11. LaidOut(j, n)'
  <2>1. disk'[j.inum] = disk[j.inum]
    <3>1. root > nbitblocks /\ root < nblocks
      BY <1>2, <1>4, <1>5, <1>6
    <3> QED
      BY <1>2, <1>5, <1>9, <3>1
  <2>2. ASSUME NEW b \in Nat, PastEnd(j, 0) <= b, b < PastEnd(j, 0) + n
        PROVE  disk'[b] = disk[b]
    <3>1. b > nbitblocks /\ b < nblocks
      BY <1>2, <1>4, <1>5, <1>6, <2>2
    <3> QED
      BY <1>9, <3>1
  <2> QED
    BY <1>4, <1>5, <2>1, <2>2, LaidOutStays
<1>12. DirWritten'
  <2>1. \A i : EntryAt(i)' = EntryAt(i)
    BY <1>1 DEF EntryAt
  <2>2. ASSUME NEW k \in 0..Blocks(j.len)-1
        PROVE  disk'[j.start + k] =
                 Dirents([i \in 0..BLKDIRENTS-1 |-> EntryAt(k * BLKDIRENTS + i)'])
    <3>1. k \in Nat /\ k < Blocks(j.len)
      BY <1>5
    <3>2. j.start + k \in Nat /\ j.start + k > nbitblocks /\ j.start + k < nblocks
      <4>1. PICK a, r, t, w, d, q : /\ a = j.start /\ r = nbitblocks /\ t = nblocks
                                    /\ w = Blocks(j.len) /\ d = diskpos /\ q = root
        OBVIOUS
      <4>2. a \in Nat /\ r \in Nat /\ t \in Nat /\ w \in Nat /\ n \in Nat
        BY <1>2, <1>5, <4>1
      <4>3. d = a + w + n /\ d < t /\ q = r + 1 /\ a > q
        <5>1. d = PastEnd(j, 0) + n /\ PastEnd(j, 0) = a + w
          BY <1>4, <1>5, <4>1
        <5> QED
          BY <1>2, <1>5, <1>6, <4>1, <5>1
      <4>4. a + k \in Nat /\ a + k > r /\ a + k < t
        BY <3>1, <4>1, <4>2, <4>3
      <4> QED
        BY <4>1, <4>4
    <3>3. disk'[j.start + k] = disk[j.start + k]
      BY <1>9, <3>2
    <3>4. disk[j.start + k] =
            Dirents([i \in 0..BLKDIRENTS-1 |-> EntryAt(k * BLKDIRENTS + i)])
      BY <1>3, <1>4 DEF DirWritten
    <3>5. Dirents([i \in 0..BLKDIRENTS-1 |-> EntryAt(k * BLKDIRENTS + i)']) =
            Dirents([i \in 0..BLKDIRENTS-1 |-> EntryAt(k * BLKDIRENTS + i)])
      BY <2>1
    <3> QED
      BY <3>3, <3>4, <3>5
  <2> QED
    BY <1>3, <1>7, <2>2 DEF DirWritten
<1>13. PlaceInv'
  <2>1. Stage(j, n, m)'
    BY <1>1, <1>3, <1>4, <1>7, <1>11, <1>12 DEF Stage, PastEnd
  <2>2. Extra(Blocks(job.len))' = n
    BY <1>1, <1>3, <1>4
  <2>3. Stage(job, Extra(Blocks(job.len)), next)'
    BY <1>1, <1>4, <2>1, <2>2 DEF Stage, LaidOut
  <2> QED
    BY <1>1, <1>3, <1>4, <1>7, <2>3 DEF PlaceInv, InFinish, Finished
<1>14. FrontInv'
  <2>1. ASSUME NEW b \in BitmapBlocks
        PROVE  disk'[b] = Bitmap({i \in 0..BLKBITSIZE-1 : ~UsedBits((b - 1) * BLKBITSIZE + i)})
    <3>1. disk[b] = Bitmap(0..BLKBITSIZE-1)
      <4>1. disk[b] = Bitmap({i \in 0..BLKBITSIZE-1 :
                                pc = "done" => ~UsedBits((b - 1) * BLKBITSIZE + i)})
        BY <1>0, <1>1 DEF GoingFacts, FrontInv
      <4>2. {i \in 0..BLKBITSIZE-1 : pc = "done" => ~UsedBits((b - 1) * BLKBITSIZE + i)}
              = 0..BLKBITSIZE-1
        BY <1>1
      <4> QED
        BY <4>1, <4>2
    <3>2. disk[b].free = 0..BLKBITSIZE-1
      BY <3>1 DEF Bitmap
    <3>3. b \in 0..nblocks-1
      BY <1>2 DEF BitmapBlocks
    <3> QED
      BY <1>8, <3>2, <3>3
  <2>2. ASSUME NEW b \in BitmapBlocks'
        PROVE  disk'[b] = Bitmap({i \in 0..BLKBITSIZE-1 :
                                    pc' = "done" => ~UsedBits((b - 1) * BLKBITSIZE + i)'})
    <3>1. \A i : UsedBits(i)' = UsedBits(i)
      BY <1>1 DEF UsedBits
    <3>2. {i \in 0..BLKBITSIZE-1 : pc' = "done" => ~UsedBits((b - 1) * BLKBITSIZE + i)'}
            = {i \in 0..BLKBITSIZE-1 : ~UsedBits((b - 1) * BLKBITSIZE + i)}
      BY <1>1, <3>1
    <3> QED
      BY <1>7, <2>1, <3>2
  <2>3. disk'[0] = disk[0]
    <3>1. 0 \in 0..nblocks-1 /\ 0 \notin BitmapBlocks
      BY <1>2 DEF BitmapBlocks
    <3> QED
      BY <1>8, <3>1
  <2>4. diskpos' > nbitblocks' /\ disk'[0] = Super(root)'
    BY <1>1, <1>2, <1>7, <2>3
  <2> QED
    BY <1>1, <2>2, <2>4 DEF FrontInv
<1>15. EntriesInv'
  <2>1. Len(ents) = (IF Entered THEN next ELSE next - 1)'
    BY <1>0, <1>1 DEF GoingFacts, EntriesInv, Entered, InFinish
  <2> QED
    BY <1>0, <1>1, <2>1, EntriesStay DEF GoingFacts
<1>16. TypeOK'
  BY <1>0, <1>1, <1>2, <1>8 DEF GoingFacts, TypeOK, SameArgs
<1> QED
  BY <1>10, <1>13, <1>14, <1>15, <1>16 DEF IInv

\* The invariant reads nothing but the program's state.
LEMMA StutterInv == IInv /\ UNCHANGED vars => IInv'
<1> SUFFICES ASSUME IInv, UNCHANGED vars PROVE IInv'
  OBVIOUS
<1>1. /\ nblocks' = nblocks /\ argv' = argv /\ diskpos' = diskpos /\ disk' = disk
      /\ ents' = ents /\ lost' = lost /\ capacity' = capacity /\ next' = next /\ job' = job
      /\ slot' = slot /\ pc' = pc /\ SameArgs
  BY DEF vars, SameArgs
<1>2. /\ root' = root /\ nbitblocks' = nbitblocks /\ BitmapBlocks' = BitmapBlocks
      /\ At' = At /\ Capacity' = Capacity /\ MayBeLost' = MayBeLost /\ DirJob' = DirJob
      /\ \A f : FileJob(f)' = FileJob(f) /\ Size(f)' = Size(f)
  BY <1>1, SameLayout
<1>3. TypeOK'
  BY <1>1 DEF IInv, TypeOK
<1>4. SUFFICES ASSUME pc # "panic" PROVE (EntriesInv /\ FrontInv /\ FilesInv /\ PlaceInv)'
  BY <1>1, <1>3 DEF IInv
<1>5. EntriesInv /\ FrontInv /\ FilesInv /\ PlaceInv
  BY <1>4 DEF IInv
<1>6. EntriesInv'
  BY <1>1, <1>2, <1>5 DEF EntriesInv, Entered, InFinish
<1>7. FrontInv'
  <2>1. ASSUME NEW b \in BitmapBlocks'
        PROVE  disk'[b] = Bitmap({i \in 0..BLKBITSIZE-1 :
                                    pc' = "done" => ~UsedBits((b - 1) * BLKBITSIZE + i)'})
               \/ pc = "opendisk"
    BY <1>1, <1>2, <1>5 DEF FrontInv, UsedBits
  <2> QED
    BY <1>1, <1>2, <1>5, <2>1 DEF FrontInv
<1>8. \A j, n : LaidOut(j, n) => LaidOut(j, n)'
  BY <1>1 DEF LaidOut
<1>9. \A f : FileWritten(f) => FileWritten(f)'
  BY <1>1, <1>2 DEF FileWritten
<1>10. DirWritten => DirWritten'
  <2>1. \A i : EntryAt(i)' = EntryAt(i)
    BY <1>1 DEF EntryAt
  <2> QED
    BY <1>1, <1>2, <2>1 DEF DirWritten
<1>11. FilesInv'
  <2>1. ASSUME NEW f, FileDone(f) PROVE FileDone(f)'
    <3>1. PICK j, n : j = FileJob(f) /\ n = Extra(Size(f))
      OBVIOUS
    <3>2. LaidOut(j, n)' /\ FileWritten(f)'
      BY <1>8, <1>9, <2>1, <3>1 DEF FileDone
    <3>3. FileJob(f)' = j /\ Extra(Size(f))' = n
      BY <1>2, <3>1
    <3> QED
      BY <3>2, <3>3 DEF FileDone, LaidOut
  <2> QED
    BY <1>1, <1>5, <2>1 DEF FilesInv
<1>12. PlaceInv'
  <2>1. ASSUME NEW j, NEW n, NEW m, Stage(j, n, m) PROVE Stage(j, n, m)'
    BY <1>1, <1>2, <1>8, <1>9, <1>10, <2>1 DEF Stage, PastEnd, RootWaits
  <2>2. Made' = Made /\ InFinish' = InFinish /\ Finished' = Finished /\ RootWaits' = RootWaits
    BY <1>1, <1>2 DEF Made, InFinish, Finished, RootWaits
  <2>3. ASSUME InFinish PROVE (Made < Extra(Blocks(job.len)) /\ Stage(job, Made, next))'
    <3>1. PICK j, n, m : j = job /\ n = Made /\ m = next
      OBVIOUS
    <3>2. Stage(j, n, m)' /\ n < Extra(Blocks(j.len))
      BY <1>5, <2>1, <2>3, <3>1 DEF PlaceInv
    <3>3. job' = j /\ Made' = n /\ next' = m
      BY <1>1, <2>2, <3>1
    <3> QED
      BY <3>2, <3>3 DEF Stage, LaidOut
  <2>4. ASSUME Finished
        PROVE  (next = Len(argv) + 1 /\ Stage(job, Extra(Blocks(job.len)), next))'
    <3>1. PICK j, n, m : j = job /\ n = Extra(Blocks(job.len)) /\ m = next
      OBVIOUS
    <3>2. Stage(j, n, m)' /\ next = Len(argv) + 1
      BY <1>5, <2>1, <2>4, <3>1 DEF PlaceInv
    <3>3. job' = j /\ Extra(Blocks(job.len))' = n /\ next' = m
      BY <1>1, <3>1
    <3> QED
      BY <1>1, <3>2, <3>3 DEF Stage, LaidOut
  <2> QED
    BY <1>1, <1>2, <1>5, <2>2, <2>3, <2>4 DEF PlaceInv
<1> QED
  BY <1>6, <1>7, <1>11, <1>12

LEMMA StepInv == IInv /\ [Next]_vars => IInv'
<1> SUFFICES ASSUME IInv, [Next]_vars PROVE IInv'
  OBVIOUS
<1>1. CASE UNCHANGED vars
  BY <1>1, StutterInv
<1>2. CASE Next /\ pc # "panic"
  <2> Going
    BY <1>2 DEF Going
  <2>1. CASE OpenDisk
    BY <2>1, OpenDiskInv
  <2>2. CASE MakeRoot
    BY <2>2, MakeRootInv
  <2>3. CASE AddEntry
    BY <2>3, AddEntryInv
  <2>4. CASE ReadFile
    BY <2>4, ReadFileInv
  <2>5. CASE WriteDirectory
    BY <2>5, WriteDirectoryInv
  <2>6. CASE AllocIndirect
    BY <2>6, AllocIndirectInv
  <2>7. CASE AllocDouble
    BY <2>7, AllocDoubleInv
  <2>8. CASE AllocSlot
    BY <2>8, AllocSlotInv
  <2>9. CASE FinishDisk
    BY <2>9, FinishDiskInv
  <2>10. CASE OutOfBlocks
    BY <2>10, OutOfBlocksInv
  <2> QED
    BY <1>2, <2>1, <2>2, <2>3, <2>4, <2>5, <2>6, <2>7, <2>8, <2>9, <2>10 DEF Next
<1>3. CASE Next /\ pc = "panic"
  BY <1>3 DEF Next, OpenDisk, MakeRoot, AddEntry, ReadFile, WriteDirectory,
              AllocIndirect, AllocDouble, AllocSlot, FinishDisk, OutOfBlocks, Working
<1> QED
  BY <1>1, <1>2, <1>3

\* Where every inode, block of a file and block of pointers is follows from the
\* command line alone, in every state the formatter goes through (fsformat.c:237-288).
THEOREM Inductive == Spec => []IInv
<1> QED
  BY InitInv, StepInv, PTL DEF Spec

-----------------------------------------------------------------------------
(* One inode and the blocks it has *)

X(j) == Extra(Blocks(j.len))
First(j) == PastEnd(j, 0)

\* A job as finishinode() leaves it
Good(j) == JobFacts(j) /\ LaidOut(j, X(j)) /\ Blocks(j.len) <= MaxSize /\ j.inum < j.start

Layout(j) ==
  /\ j.inum \in Nat /\ j.start \in Nat /\ j.inum < j.start /\ Blocks(j.len) \in Nat
  /\ Blocks(j.len) <= MaxSize /\ First(j) = j.start + Blocks(j.len) /\ First(j) \in Nat
  /\ X(j) \in Nat /\ PastEnd(j, X(j)) = First(j) + X(j)
  /\ disk[j.inum] =
       [kind |-> "inode", i_size |-> j.len, i_direct |-> PointersFrom(j, 0, N_DIRECT),
        i_indirect |-> IF X(j) > 0 THEN First(j) ELSE 0,
        i_double |-> IF X(j) > 1 THEN First(j) + 1 ELSE 0]

OneBlock(j) ==
  X(j) > 0 => /\ Blocks(j.len) >= N_DIRECT
              /\ disk[First(j)].to = PointersFrom(j, N_DIRECT, N_INDIRECT)

MoreBlocks(j) ==
  X(j) > 1 =>
    /\ X(j) = 2 + N_INDIRECT
    /\ disk[First(j) + 1].to = [i \in 0..N_INDIRECT-1 |-> First(j) + 2 + i]
    /\ \A i \in 0..N_INDIRECT-1 :
         disk[First(j) + 2 + i].to = PointersFrom(j, SlotBase(i), N_INDIRECT)

LEMMA Layouts ==
  ASSUME NEW j, Good(j)
  PROVE  Layout(j) /\ OneBlock(j) /\ MoreBlocks(j)
<1>1. /\ j.inum \in Nat /\ j.start \in Nat /\ j.inum < j.start /\ Blocks(j.len) \in Nat
      /\ Blocks(j.len) <= MaxSize /\ First(j) = j.start + Blocks(j.len)
      /\ X(j) \in Nat /\ PastEnd(j, X(j)) = First(j) + X(j)
  BY DEF Good, JobFacts, First, X
<1>2. First(j) \in Nat
  BY <1>1
<1>3. /\ disk[j.inum] =
           [kind |-> "inode", i_size |-> j.len, i_direct |-> PointersFrom(j, 0, N_DIRECT),
            i_indirect |-> IF X(j) > 0 THEN First(j) ELSE 0,
            i_double |-> IF X(j) > 1 THEN First(j) + 1 ELSE 0]
      /\ X(j) > 0 => disk[First(j)] = Pointers(PointersFrom(j, N_DIRECT, N_INDIRECT))
      /\ X(j) > 1 => disk[First(j) + 1] =
           Pointers([i \in 0..N_INDIRECT-1 |-> IF i + 2 < X(j) THEN First(j) + 2 + i ELSE 0])
      /\ \A i \in 0..N_INDIRECT-1 : i + 2 < X(j) =>
           disk[First(j) + 2 + i] = Pointers(PointersFrom(j, SlotBase(i), N_INDIRECT))
  BY DEF Good, LaidOut, First
<1>4. N_INDIRECT \in Nat /\ N_DIRECT \in Nat
  BY Params DEF ParamFacts
<1>5. OneBlock(j)
  <2> SUFFICES ASSUME X(j) > 0
               PROVE  /\ Blocks(j.len) >= N_DIRECT
                      /\ disk[First(j)].to = PointersFrom(j, N_DIRECT, N_INDIRECT)
    BY DEF OneBlock
  <2>1. Blocks(j.len) >= N_DIRECT
    BY <1>1, ExtraCases DEF X
  <2> QED
    BY <1>3, <2>1 DEF Pointers
<1>6. MoreBlocks(j)
  <2> SUFFICES ASSUME X(j) > 1
               PROVE  /\ X(j) = 2 + N_INDIRECT
                      /\ disk[First(j) + 1].to = [i \in 0..N_INDIRECT-1 |-> First(j) + 2 + i]
                      /\ \A i \in 0..N_INDIRECT-1 :
                           disk[First(j) + 2 + i].to = PointersFrom(j, SlotBase(i), N_INDIRECT)
    BY DEF MoreBlocks
  <2>1. X(j) = 2 + N_INDIRECT
    BY <1>1, ExtraCases DEF X
  <2>2. \A i \in 0..N_INDIRECT-1 : i + 2 < X(j)
    BY <1>4, <2>1
  <2>3. disk[First(j) + 1] = Pointers([i \in 0..N_INDIRECT-1 |-> First(j) + 2 + i])
    <3>1. [i \in 0..N_INDIRECT-1 |-> IF i + 2 < X(j) THEN First(j) + 2 + i ELSE 0]
            = [i \in 0..N_INDIRECT-1 |-> First(j) + 2 + i]
      BY <2>2
    <3> QED
      BY <1>3, <3>1
  <2>4. disk[First(j) + 1].to = [i \in 0..N_INDIRECT-1 |-> First(j) + 2 + i]
    BY <2>3 DEF Pointers
  <2>5. ASSUME NEW i \in 0..N_INDIRECT-1
        PROVE  disk[First(j) + 2 + i].to = PointersFrom(j, SlotBase(i), N_INDIRECT)
    <3>1. disk[First(j) + 2 + i] = Pointers(PointersFrom(j, SlotBase(i), N_INDIRECT))
      BY <1>3, <2>2
    <3> QED
      BY <3>1 DEF Pointers
  <2> QED
    BY <2>1, <2>4, <2>5
<1> QED
  BY <1>1, <1>2, <1>3, <1>5, <1>6 DEF Layout

LEMMA InodeSize ==
  ASSUME NEW j, Good(j)
  PROVE  disk[j.inum].i_size = j.len
<1>1. PICK i, p, d, q :
        disk[j.inum] = [kind |-> "inode", i_size |-> q, i_direct |-> p,
                        i_indirect |-> i, i_double |-> d]
        /\ q = j.len
  BY Layouts, Zenon DEF Layout
<1> QED
  BY <1>1

\* A position of a file behind the direct and indirect pointers, as an entry of the
\* double indirect block and a position in the block that is for
Behind(k) == k - N_DIRECT - N_INDIRECT
Entry(k) == Behind(k) \div N_INDIRECT
Offset(k) == Behind(k) % N_INDIRECT

LEMMA Doubles ==
  ASSUME NEW k \in Nat, k >= N_DIRECT + N_INDIRECT, k < MaxSize
  PROVE  /\ Entry(k) \in 0..N_INDIRECT-1 /\ Offset(k) \in 0..N_INDIRECT-1
         /\ SlotBase(Entry(k)) + Offset(k) = k
<1>1. N_DIRECT \in Nat /\ N_INDIRECT \in Nat /\ N_INDIRECT > 0 /\ N_INDIRECT * N_INDIRECT \in Nat
  BY Params, MaxSizeType DEF ParamFacts
<1>2. PICK a : a = Behind(k)
  OBVIOUS
<1>3. a \in Nat /\ a < N_INDIRECT * N_INDIRECT
  BY <1>1, <1>2 DEF Behind, MaxSize
<1>4. PICK q, r : q = Entry(k) /\ r = Offset(k)
  OBVIOUS
<1>5. q \in Nat /\ r \in 0..N_INDIRECT-1 /\ a = N_INDIRECT * q + r
  <2>1. q = a \div N_INDIRECT /\ r = a % N_INDIRECT
    BY <1>2, <1>4 DEF Entry, Offset
  <2> QED
    BY <1>1, <1>3, <2>1, DivMod
<1>6. q < N_INDIRECT
  <2>1. ASSUME ~(q < N_INDIRECT) PROVE FALSE
    <3>1. PICK d \in Nat : q = N_INDIRECT + d
      <4>1. q - N_INDIRECT \in Nat /\ q = N_INDIRECT + (q - N_INDIRECT)
        BY <1>1, <1>5, <2>1
      <4> QED
        BY <4>1
    <3>2. N_INDIRECT * q = N_INDIRECT * N_INDIRECT + N_INDIRECT * d /\ N_INDIRECT * d \in Nat
      BY <1>1, <3>1
    <3> QED
      BY <1>1, <1>3, <1>5, <3>2
  <2> QED
    BY <2>1
<1>7. SlotBase(q) + r = k
  <2>1. q * N_INDIRECT = N_INDIRECT * q /\ N_INDIRECT * q \in Nat
    BY <1>1, <1>5
  <2> QED
    BY <1>1, <1>2, <1>5, <2>1 DEF SlotBase, Behind
<1>8. q \in 0..N_INDIRECT-1
  BY <1>1, <1>5, <1>6
<1> QED
  BY <1>4, <1>5, <1>7, <1>8

\* The file system finds every block of a file where the formatter put it.
LEMMA BlockRead ==
  ASSUME NEW j, Good(j), NEW k \in Nat, k < Blocks(j.len)
  PROVE  FileBlock(disk[j.inum], k) = j.start + k
<1>0. N_DIRECT \in Nat /\ N_INDIRECT \in Nat /\ N_INDIRECT > 0 /\ MaxSize \in Nat
  BY Params, MaxSizeType DEF ParamFacts
<1>1. Layout(j) /\ OneBlock(j) /\ MoreBlocks(j)
  BY Layouts
<1>2. /\ j.start \in Nat /\ Blocks(j.len) \in Nat /\ k < MaxSize
      /\ First(j) \in Nat /\ First(j) > 0 /\ X(j) \in Nat
  BY <1>0, <1>1 DEF Layout
<1>3. PICK ino : ino = disk[j.inum]
  OBVIOUS
<1>4. /\ ino.i_direct = PointersFrom(j, 0, N_DIRECT)
      /\ ino.i_indirect = IF X(j) > 0 THEN First(j) ELSE 0
      /\ ino.i_double = IF X(j) > 1 THEN First(j) + 1 ELSE 0
  BY <1>1, <1>3 DEF Layout
<1>5. CASE k < N_DIRECT
  <2>1. k - N_DIRECT < 0 /\ ~(k - N_DIRECT >= 0) /\ k \in 0..N_DIRECT-1
    BY <1>0, <1>5
  <2>2. FileBlock(ino, k) = ino.i_direct[k]
    BY <2>1 DEF FileBlock
  <2>3. PointersFrom(j, 0, N_DIRECT)[k] = j.start + k
    BY <1>2, <2>1 DEF PointersFrom
  <2> QED
    BY <1>3, <1>4, <2>2, <2>3
<1>6. CASE k >= N_DIRECT /\ k < N_DIRECT + N_INDIRECT
  <2>1. PICK i : i = k - N_DIRECT
    OBVIOUS
  <2>2. i \in 0..N_INDIRECT-1 /\ i >= 0 /\ i - N_INDIRECT < 0 /\ N_DIRECT + i = k
    BY <1>0, <1>6, <2>1
  <2>3. X(j) > 0
    <3>1. Blocks(j.len) >= N_DIRECT
      BY <1>0, <1>2, <1>6
    <3>2. CASE Blocks(j.len) < N_DIRECT + N_INDIRECT
      BY <1>2, <3>1, <3>2, ExtraCases DEF X
    <3>3. CASE Blocks(j.len) >= N_DIRECT + N_INDIRECT
      BY <1>0, <1>2, <3>3, ExtraCases DEF X
    <3> QED
      BY <1>0, <1>2, <3>2, <3>3
  <2>4. FileBlock(ino, k) = PointerAt(ino.i_indirect, i)
    BY <2>1, <2>2 DEF FileBlock
  <2>5. ino.i_indirect = First(j)
    BY <1>4, <2>3
  <2>6. PointerAt(First(j), i) = PointersFrom(j, N_DIRECT, N_INDIRECT)[i]
    BY <1>1, <1>2, <2>3 DEF PointerAt, OneBlock
  <2>7. PointersFrom(j, N_DIRECT, N_INDIRECT)[i] = j.start + k
    BY <1>0, <1>2, <2>2 DEF PointersFrom
  <2> QED
    BY <1>3, <2>4, <2>5, <2>6, <2>7
<1>7. CASE k >= N_DIRECT + N_INDIRECT
  <2>1. PICK q, r : q = Entry(k) /\ r = Offset(k)
    OBVIOUS
  <2>2. q \in 0..N_INDIRECT-1 /\ r \in 0..N_INDIRECT-1 /\ SlotBase(q) + r = k
    BY <1>2, <1>7, <2>1, Doubles
  <2>3. X(j) > 1
    <3>1. Blocks(j.len) >= N_DIRECT + N_INDIRECT
      BY <1>0, <1>2, <1>7
    <3> QED
      BY <1>0, <1>2, <3>1, ExtraCases DEF X
  <2>4. FileBlock(ino, k) = PointerAt(PointerAt(ino.i_double, q), r)
    <3>1. ~(k - N_DIRECT < 0) /\ ~(k - N_DIRECT - N_INDIRECT < 0)
      BY <1>0, <1>7
    <3> QED
      BY <2>1, <3>1 DEF FileBlock, Behind, Entry, Offset
  <2>5. ino.i_double = First(j) + 1 /\ First(j) + 1 # 0 /\ First(j) + 2 + q # 0
    BY <1>2, <1>4, <2>2, <2>3
  <2>6. PointerAt(First(j) + 1, q) = First(j) + 2 + q
    BY <1>1, <2>2, <2>3, <2>5 DEF PointerAt, MoreBlocks
  <2>7. PointerAt(First(j) + 2 + q, r) = PointersFrom(j, SlotBase(q), N_INDIRECT)[r]
    BY <1>1, <2>2, <2>3, <2>5 DEF PointerAt, MoreBlocks
  <2>8. PointersFrom(j, SlotBase(q), N_INDIRECT)[r] = j.start + k
    <3>1. SlotBase(q) \in Nat
      <4>1. q * N_INDIRECT \in Nat
        BY <1>0, <2>2
      <4> QED
        BY <1>0, <4>1 DEF SlotBase
    <3>2. PointersFrom(j, SlotBase(q), N_INDIRECT)[r] = j.start + SlotBase(q) + r
      BY <1>0, <2>2 DEF PointersFrom
    <3> QED
      BY <1>0, <1>2, <2>2, <3>1, <3>2
  <2> QED
    BY <1>3, <2>4, <2>5, <2>6, <2>7, <2>8
<1> QED
  BY <1>0, <1>5, <1>6, <1>7

-----------------------------------------------------------------------------
(* The finished image *)

Done == IInv /\ pc = "done"

DoneFacts ==
  /\ GoingFacts /\ s_root = root
  /\ Good(DirJob) /\ DirJob.inum = root
  /\ diskpos = PastEnd(DirJob, X(DirJob)) /\ DirWritten
  /\ \A f \in 1..Len(argv) :
       /\ Good(FileJob(f)) /\ FileWritten(f)
       /\ f \notin lost => ents[f] = [name |-> argv[f].name, inum |-> At[f]]
  /\ Len(ents) = Len(argv) /\ lost \subseteq (1..Len(argv)) \cap MayBeLost
  /\ \A b \in BitmapBlocks :
       disk[b].free = {i \in 0..BLKBITSIZE-1 : ~UsedBits((b - 1) * BLKBITSIZE + i)}

LEMMA Ended == Done => DoneFacts
<1> SUFFICES ASSUME Done PROVE DoneFacts
  OBVIOUS
<1>0. GoingFacts /\ pc = "done"
  BY GoesOn DEF Done, Going
<1>1. next = Len(argv) + 1 /\ Stage(job, Extra(Blocks(job.len)), next) /\ Len(argv) \in Nat
  BY <1>0 DEF GoingFacts, PlaceInv, Finished, FileFacts
<1>2. /\ job = DirJob /\ DirWritten /\ LaidOut(DirJob, X(DirJob))
      /\ diskpos = PastEnd(DirJob, X(DirJob))
  <2>1. job = DirJob /\ DirWritten
    BY <1>1 DEF Stage
  <2> QED
    BY <1>1, <2>1 DEF Stage, X
<1>3. Good(DirJob) /\ DirJob.inum = root
  <2>1. /\ DirJob.start = At[Len(argv) + 1] /\ DirJob.inum = root
        /\ Blocks(DirJob.len) <= MaxSize
    BY <1>0 DEF GoingFacts, DirFacts
  <2>2. At[Len(argv) + 1] > root /\ At[Len(argv) + 1] \in Nat /\ root \in Nat
    <3>1. Len(argv) + 1 \in 1..Len(argv)+1
      BY <1>1
    <3> QED
      BY <1>0, <3>1 DEF GoingFacts, OrderFacts, PlaceFacts, FileFacts
  <2>3. JobFacts(DirJob)
    BY <1>0, DirJobs DEF GoingFacts
  <2>4. DirJob.inum < DirJob.start
    BY <2>1, <2>2
  <2> QED
    BY <1>2, <2>1, <2>3, <2>4 DEF Good
<1>4. Len(ents) = Len(argv)
  BY <1>0, <1>1 DEF GoingFacts, EntriesInv, Entered, InFinish
<1>5. ASSUME NEW f \in 1..Len(argv)
      PROVE  /\ Good(FileJob(f)) /\ FileWritten(f)
             /\ f \notin lost => ents[f] = [name |-> argv[f].name, inum |-> At[f]]
  <2>1. FileDone(f)
    BY <1>0, <1>1 DEF GoingFacts, FilesInv
  <2>2. /\ JobFacts(FileJob(f)) /\ FileJob(f).start = At[f] + 1 /\ At[f] \in Nat
        /\ FileJob(f).inum = At[f] /\ Blocks(FileJob(f).len) = Size(f)
    BY <1>0, FileJobs DEF GoingFacts
  <2>3. Size(f) <= MaxSize
    BY <1>0 DEF GoingFacts, FileFacts
  <2>4. LaidOut(FileJob(f), X(FileJob(f))) /\ FileWritten(f)
    BY <2>1, <2>2 DEF FileDone, X
  <2>5. FileJob(f).inum < FileJob(f).start
    BY <2>2
  <2>6. Good(FileJob(f))
    BY <2>2, <2>3, <2>4, <2>5 DEF Good
  <2>7. f \notin lost => ents[f] = [name |-> argv[f].name, inum |-> At[f]]
    BY <1>0, <1>4 DEF GoingFacts, EntriesInv
  <2> QED
    BY <2>4, <2>6, <2>7
<1>6. s_root = root
  <2>1. disk[0] = Super(root)
    BY <1>0 DEF GoingFacts, FrontInv
  <2> QED
    BY <2>1 DEF s_root, Super
<1>7. ASSUME NEW b \in BitmapBlocks
      PROVE  disk[b].free = {i \in 0..BLKBITSIZE-1 : ~UsedBits((b - 1) * BLKBITSIZE + i)}
  <2>1. disk[b] = Bitmap({i \in 0..BLKBITSIZE-1 :
                            pc = "done" => ~UsedBits((b - 1) * BLKBITSIZE + i)})
    BY <1>0 DEF GoingFacts, FrontInv
  <2>2. disk[b] = Bitmap({i \in 0..BLKBITSIZE-1 : ~UsedBits((b - 1) * BLKBITSIZE + i)})
    BY <1>0, <2>1
  <2> QED
    BY <2>2 DEF Bitmap
<1>8. lost \subseteq (1..Len(argv)) \cap MayBeLost
  BY <1>0, <1>4 DEF GoingFacts, EntriesInv
<1> QED
  BY <1>0, <1>2, <1>3, <1>4, <1>5, <1>6, <1>7, <1>8 DEF DoneFacts

\* The directory is the array of entries, with nothing after them.
LEMMA Entries ==
  ASSUME Done
  PROVE  /\ \E n \in Nat : DirPositions = 0..n-1 /\ Len(argv) <= n
         /\ \A n \in DirPositions : DirEntry(n) = EntryAt(n)
         /\ RootDir.i_size % BLKSIZE = 0
<1>0. DoneFacts /\ ParamFacts
  BY Ended, Params
<1> DEFINE D == Blocks(DirJob.len)
<1>1. /\ BLKSIZE \in Nat /\ BLKSIZE > 0 /\ BLKDIRENTS \in Nat /\ BLKDIRENTS > 0
      /\ D \in Nat /\ DirJob.len = D * BLKSIZE /\ Len(argv) <= D * BLKDIRENTS
      /\ Good(DirJob) /\ DirJob.inum = root
  BY <1>0 DEF ParamFacts, DoneFacts, GoingFacts, DirFacts
<1>2. RootDir = disk[root] /\ RootDir.i_size = D * BLKSIZE
  <2>1. RootDir = disk[root]
    BY <1>0 DEF RootDir, DoneFacts
  <2>2. disk[root].i_size = DirJob.len
    BY <1>1, InodeSize
  <2> QED
    BY <1>1, <2>1, <2>2
<1>3. RootDir.i_size \div BLKSIZE = D /\ RootDir.i_size % BLKSIZE = 0
  <2>1. PICK a, z : a = RootDir.i_size /\ z = 0
    OBVIOUS
  <2> HIDE DEF D
  <2>2. a = BLKSIZE * D + z /\ a \in Nat /\ z \in 0..BLKSIZE-1
    <3>1. D * BLKSIZE = BLKSIZE * D /\ BLKSIZE * D \in Nat
      BY <1>1
    <3>2. a = BLKSIZE * D /\ z = 0
      BY <1>2, <2>1, <3>1
    <3> QED
      BY <1>1, <3>1, <3>2
  <2>3. a \div BLKSIZE = D /\ a % BLKSIZE = z
    BY <1>1, <2>2, DivUnique
  <2> QED
    BY <2>1, <2>3
<1>4. D * BLKDIRENTS \in Nat /\ DirPositions = 0..D * BLKDIRENTS - 1
  <2> HIDE DEF D
  <2>1. D * BLKDIRENTS \in Nat
    BY <1>1
  <2> QED
    BY <1>3, <2>1 DEF DirPositions
<1>5. ASSUME NEW n \in DirPositions PROVE DirEntry(n) = EntryAt(n)
  <2>1. PICK q, r : q = n \div BLKDIRENTS /\ r = n % BLKDIRENTS
    OBVIOUS
  <2>2. n \in Nat /\ n < D * BLKDIRENTS
    <3> HIDE DEF D
    <3> QED
      BY <1>4, <1>5
  <2>3. q \in Nat /\ r \in 0..BLKDIRENTS-1 /\ n = BLKDIRENTS * q + r
    BY <1>1, <2>1, <2>2, DivMod
  <2>4. q < D
    <3> HIDE DEF D
    <3>1. ASSUME ~(q < D) PROVE FALSE
      <4>1. PICK d \in Nat : q = D + d
        <5>1. q - D \in Nat /\ q = D + (q - D)
          BY <1>1, <2>3, <3>1
        <5> QED
          BY <5>1
      <4>2. BLKDIRENTS * q = D * BLKDIRENTS + BLKDIRENTS * d /\ BLKDIRENTS * d \in Nat
        BY <1>1, <4>1
      <4> QED
        BY <1>1, <1>4, <2>2, <2>3, <4>2
    <3> QED
      BY <3>1
  <2>5. FileBlock(disk[DirJob.inum], q) = DirJob.start + q
    BY <1>1, <2>3, <2>4, BlockRead
  <2>6. disk[DirJob.start + q] =
          Dirents([i \in 0..BLKDIRENTS-1 |-> EntryAt(q * BLKDIRENTS + i)])
    <3>1. q \in 0..D-1
      BY <1>1, <2>3, <2>4
    <3> QED
      BY <1>0, <3>1 DEF DoneFacts, DirWritten
  <2>7. DirEntry(n) = EntryAt(q * BLKDIRENTS + r)
    <3>1. DirEntry(n) = disk[FileBlock(RootDir, q)].ents[r]
      BY <2>1 DEF DirEntry
    <3>2. disk[FileBlock(RootDir, q)].ents =
            [i \in 0..BLKDIRENTS-1 |-> EntryAt(q * BLKDIRENTS + i)]
      BY <1>1, <1>2, <2>5, <2>6 DEF Dirents
    <3> QED
      BY <2>3, <3>1, <3>2
  <2>8. q * BLKDIRENTS + r = n
    <3>1. q * BLKDIRENTS = BLKDIRENTS * q
      BY <1>1, <2>3
    <3> QED
      BY <2>3, <3>1
  <2> QED
    BY <2>7, <2>8
<1>6. \E n \in Nat : DirPositions = 0..n-1 /\ Len(argv) <= n
  <2>1. PICK n : n = D * BLKDIRENTS
    OBVIOUS
  <2> QED
    BY <1>1, <1>4, <2>1
<1> QED
  BY <1>3, <1>5, <1>6

\* A file that idiradd() did not lose has its own entry.
LEMMA KeptEntry ==
  ASSUME Done, NEW f \in Kept
  PROVE  /\ f \in 1..Len(argv) /\ f - 1 \in DirPositions
         /\ DirEntry(f - 1) = [name |-> argv[f].name, inum |-> At[f]]
<1>0. DoneFacts /\ Len(argv) \in Nat
  BY Ended DEF DoneFacts, GoingFacts, FileFacts
<1>1. f \in 1..Len(argv) /\ f \notin lost
  BY DEF Kept
<1>2. ents[f] = [name |-> argv[f].name, inum |-> At[f]]
  BY <1>0, <1>1 DEF DoneFacts
<1>3. f - 1 \in DirPositions
  <2>1. PICK n \in Nat : DirPositions = 0..n-1 /\ Len(argv) <= n
    BY Entries
  <2> QED
    BY <1>0, <1>1, <2>1
<1>4. DirEntry(f - 1) = EntryAt(f - 1)
  BY <1>3, Entries
<1>5. EntryAt(f - 1) = ents[f]
  <2>1. Len(ents) = Len(argv) /\ f - 1 < Len(argv) /\ (f - 1) + 1 = f
    BY <1>0, <1>1 DEF DoneFacts
  <2> QED
    BY <2>1 DEF EntryAt
<1> QED
  BY <1>1, <1>2, <1>3, <1>4, <1>5

\* Every file comes back whole, whatever its length: what finishinode() writes
\* (fsformat.c:110-147) is what inode_block_walk() reads.
THEOREM FilesComeBack == Spec => []FilesReadBack
<1>1. IInv => FilesReadBack
  <2>0. Done => lost \subseteq MayBeLost
    BY Ended DEF DoneFacts
  <2> SUFFICES ASSUME Done, NEW f \in Kept
               PROVE  /\ DirEntry(f - 1).name = argv[f].name
                      /\ disk[DirEntry(f - 1).inum].i_size = argv[f].len
                      /\ \A k \in 0..Blocks(argv[f].len)-1 :
                           disk[FileBlock(disk[DirEntry(f - 1).inum], k)] = Data(f, k)
    BY <2>0 DEF FilesReadBack, Done
  <2>1. f \in 1..Len(argv) /\ DirEntry(f - 1) = [name |-> argv[f].name, inum |-> At[f]]
    BY KeptEntry
  <2>2. DoneFacts /\ Good(FileJob(f)) /\ FileWritten(f)
    BY <2>1, Ended DEF DoneFacts
  <2>3. /\ FileJob(f).inum = At[f] /\ FileJob(f).start = At[f] + 1
        /\ FileJob(f).len = argv[f].len /\ Blocks(FileJob(f).len) = Size(f) /\ At[f] \in Nat
    BY <2>1, <2>2, FileJobs DEF DoneFacts, GoingFacts
  <2>4. disk[At[f]].i_size = argv[f].len
    BY <2>2, <2>3, InodeSize
  <2>5. ASSUME NEW k \in 0..Blocks(argv[f].len)-1
        PROVE  disk[FileBlock(disk[At[f]], k)] = Data(f, k)
    <3>1. k \in Nat /\ k < Blocks(FileJob(f).len) /\ k \in 0..Size(f)-1
      <4>1. Blocks(argv[f].len) \in Nat
        BY <2>2, <2>3 DEF Good, JobFacts
      <4> QED
        BY <2>3, <4>1
    <3>2. FileBlock(disk[FileJob(f).inum], k) = FileJob(f).start + k
      BY <2>2, <3>1, BlockRead
    <3>3. FileBlock(disk[At[f]], k) = At[f] + 1 + k
      BY <2>3, <3>2
    <3> QED
      BY <2>2, <3>1, <3>3 DEF FileWritten
  <2> QED
    BY <2>1, <2>4, <2>5
<1> QED
  BY <1>1, Inductive, PTL

\* A file's name is that of its own entry, or of one that was lost.
LEMMA NamedEntry ==
  ASSUME Done, NEW n \in DirPositions, NEW f \in 1..Len(argv),
         DirEntry(n).name = argv[f].name
  PROVE  n + 1 \in 1..Len(argv) /\ EntryName(n + 1) = argv[f].name
<1>0. DoneFacts /\ Len(argv) \in Nat /\ argv[f].name # NoName
  BY Ended DEF DoneFacts, GoingFacts, FileFacts
<1>1. n \in Nat /\ DirEntry(n) = EntryAt(n)
  BY Entries
<1>2. n < Len(ents)
  <2>1. CASE ~(n < Len(ents))
    BY <1>0, <1>1, <2>1 DEF EntryAt, NoEntry
  <2> QED
    BY <2>1
<1>3. n + 1 \in 1..Len(argv) /\ DirEntry(n) = ents[n + 1]
  BY <1>0, <1>1, <1>2 DEF DoneFacts, EntryAt
<1>4. (n + 1) - 1 = n
  BY <1>1
<1>5. CASE n + 1 \in lost
  <2>1. PICK g : g = n + 1
    OBVIOUS
  <2>2. EntryName(g) = DirEntry(g - 1).name /\ g - 1 = n
    BY <1>4, <1>5, <2>1 DEF EntryName
  <2> QED
    BY <1>3, <2>1, <2>2
<1>6. CASE n + 1 \notin lost
  <2>1. ents[n + 1] = [name |-> argv[n + 1].name, inum |-> At[n + 1]]
    BY <1>0, <1>3, <1>6 DEF DoneFacts
  <2>2. argv[n + 1].name = argv[f].name
    BY <1>3, <2>1
  <2> QED
    BY <1>3, <1>6, <2>2 DEF EntryName
<1> QED
  BY <1>5, <1>6

\* The directory the formatter writes is one dir.c can look names up in, and add to.
THEOREM DirectoryWorks == Spec => []DirectoryUsable
<1>1. IInv => DirectoryUsable
  <2> SUFFICES ASSUME Done
               PROVE  /\ RootDir.i_size % BLKSIZE = 0
                      /\ \A f \in Kept :
                           (\A g \in 1..f-1 : EntryName(g) # argv[f].name) =>
                             dir_lookup(argv[f].name) = DirEntry(f - 1).inum
                      /\ Cardinality(DirPositions) >= Len(argv)
                      /\ \A n \in DirPositions : n >= Len(argv) => DirEntry(n) = NoEntry
    BY DEF DirectoryUsable, Done
  <2>0. DoneFacts /\ Len(argv) \in Nat
    BY Ended DEF DoneFacts, GoingFacts, FileFacts
  <2>1. RootDir.i_size % BLKSIZE = 0
    BY Entries
  <2>2. PICK size \in Nat : DirPositions = 0..size-1 /\ Len(argv) <= size
    BY Entries
  <2>3. ASSUME NEW f \in Kept, \A g \in 1..f-1 : EntryName(g) # argv[f].name
        PROVE  dir_lookup(argv[f].name) = DirEntry(f - 1).inum
    <3> DEFINE hits == {n \in DirPositions : DirEntry(n).name = argv[f].name}
    <3>1. f \in 1..Len(argv) /\ f - 1 \in hits
      <4>1. /\ f \in 1..Len(argv) /\ f - 1 \in DirPositions
            /\ DirEntry(f - 1) = [name |-> argv[f].name, inum |-> At[f]]
        BY KeptEntry
      <4>2. DirEntry(f - 1).name = argv[f].name
        BY <4>1
      <4>3. PICK n : n = f - 1
        OBVIOUS
      <4>4. n \in hits
        BY <4>1, <4>2, <4>3
      <4> QED
        BY <4>1, <4>3, <4>4
    <3>2. ASSUME NEW n \in hits PROVE f - 1 <= n
      <4>1. n + 1 \in 1..Len(argv) /\ EntryName(n + 1) = argv[f].name /\ n \in Nat
        BY <2>2, <3>1, <3>2, NamedEntry
      <4>2. n + 1 \notin 1..f-1
        BY <2>3, <4>1
      <4> QED
        BY <2>0, <3>1, <4>1, <4>2
    <3>3. hits \subseteq Nat
      BY <2>2
    <3>4. Min(hits) = f - 1
      <4> HIDE DEF hits
      <4>1. \A x \in hits : (\A y \in hits : x <= y) => x = f - 1
        <5> SUFFICES ASSUME NEW x \in hits, \A y \in hits : x <= y PROVE x = f - 1
          OBVIOUS
        <5>1. x <= f - 1 /\ f - 1 <= x /\ x \in Nat /\ f - 1 \in Nat
          BY <3>1, <3>2, <3>3
        <5> QED
          BY <5>1
      <4>2. Min(hits) \in hits /\ \A y \in hits : Min(hits) <= y
        BY <3>1, <3>2 DEF Min
      <4> QED
        BY <4>1, <4>2
    <3>5. hits # {}
      BY <3>1
    <3> QED
      BY <3>4, <3>5 DEF dir_lookup
  <2>4. Cardinality(DirPositions) >= Len(argv)
    <3>1. PICK lo \in Int, hi \in Int : lo = 0 /\ hi = size - 1
      OBVIOUS
    <3>2. Cardinality(lo..hi) = IF lo > hi THEN 0 ELSE hi - lo + 1
      BY FS_Interval
    <3>3. Cardinality(DirPositions) = IF lo > hi THEN 0 ELSE hi - lo + 1
      BY <2>2, <3>1, <3>2
    <3>4. Cardinality(DirPositions) = size
      BY <3>1, <3>3
    <3> QED
      BY <2>2, <3>4
  <2>5. ASSUME NEW n \in DirPositions, n >= Len(argv) PROVE DirEntry(n) = NoEntry
    <3>1. n \in Nat /\ DirEntry(n) = EntryAt(n) /\ Len(ents) = Len(argv)
      BY <2>0, <2>2, Entries DEF DoneFacts
    <3> QED
      BY <2>0, <2>5, <3>1 DEF EntryAt
  <2> QED
    BY <2>1, <2>3, <2>4, <2>5
<1> QED
  BY <1>1, Inductive, PTL

-----------------------------------------------------------------------------
(* Where a block is named *)

\* The blocks of j, and those of them that hold pointers
Area(j) == j.start..PastEnd(j, X(j))-1
PointerArea(j) == First(j)..PastEnd(j, X(j))-1

\* What position i of block b holds when b is the inode or a block of pointers of j
Value(j, b, i) == IF b = j.inum THEN InodePointers(b)[i] ELSE disk[b].to[i]

Spot(j, b, i) ==
  \/ b = j.inum /\ i \in 0..N_DIRECT+1
  \/ b \in PointerArea(j) /\ i \in 0..N_INDIRECT-1

\* The one place that names block v of j
BlockPlace(j, k) ==
  IF k < N_DIRECT THEN <<j.inum, k>>
  ELSE IF k < N_DIRECT + N_INDIRECT THEN <<First(j), k - N_DIRECT>>
  ELSE <<First(j) + 2 + Entry(k), Offset(k)>>
PointerPlace(j, x) == IF x < 2 THEN <<j.inum, N_DIRECT + x>> ELSE <<First(j) + 1, x - 2>>
Place(j, v) == IF v < First(j) THEN BlockPlace(j, v - j.start) ELSE PointerPlace(j, v - First(j))

\* The contents of the inode and of the blocks of pointers
Cells(j) ==
  /\ \A i \in 0..N_DIRECT-1 :
       Value(j, j.inum, i) = IF i < Blocks(j.len) THEN j.start + i ELSE 0
  /\ Value(j, j.inum, N_DIRECT) = IF X(j) > 0 THEN First(j) ELSE 0
  /\ Value(j, j.inum, N_DIRECT + 1) = IF X(j) > 1 THEN First(j) + 1 ELSE 0
  /\ X(j) > 0 => \A i \in 0..N_INDIRECT-1 :
       Value(j, First(j), i) =
         IF N_DIRECT + i < Blocks(j.len) THEN j.start + N_DIRECT + i ELSE 0
  /\ X(j) > 1 => \A i \in 0..N_INDIRECT-1 : Value(j, First(j) + 1, i) = First(j) + 2 + i
  /\ X(j) > 1 => \A s, i \in 0..N_INDIRECT-1 :
       Value(j, First(j) + 2 + s, i) =
         IF SlotBase(s) + i < Blocks(j.len) THEN j.start + SlotBase(s) + i ELSE 0

LEMMA CellValues ==
  ASSUME NEW j, Good(j)
  PROVE  Cells(j)
<1>0. N_DIRECT \in Nat /\ N_DIRECT > 0 /\ N_INDIRECT \in Nat /\ N_INDIRECT > 0
  BY Params DEF ParamFacts
<1>1. Layout(j) /\ OneBlock(j) /\ MoreBlocks(j)
  BY Layouts
<1>2. /\ j.start \in Nat /\ Blocks(j.len) \in Nat /\ First(j) \in Nat /\ j.inum \in Nat
      /\ j.inum < First(j) /\ X(j) \in Nat
  BY <1>1 DEF Layout
<1>3. PICK ino : ino = disk[j.inum]
  OBVIOUS
<1>4. /\ ino.i_direct = PointersFrom(j, 0, N_DIRECT)
      /\ ino.i_indirect = IF X(j) > 0 THEN First(j) ELSE 0
      /\ ino.i_double = IF X(j) > 1 THEN First(j) + 1 ELSE 0
  BY <1>1, <1>3 DEF Layout
<1>5. \A i \in 0..N_DIRECT+1 :
        Value(j, j.inum, i) = CASE i < N_DIRECT -> ino.i_direct[i]
                                [] i = N_DIRECT -> ino.i_indirect
                                [] OTHER -> ino.i_double
  BY <1>3 DEF Value, InodePointers
<1>6. ASSUME NEW i \in 0..N_DIRECT-1
      PROVE  Value(j, j.inum, i) = IF i < Blocks(j.len) THEN j.start + i ELSE 0
  <2>1. i \in 0..N_DIRECT+1 /\ i < N_DIRECT /\ i # N_DIRECT
    BY <1>0
  <2>2. Value(j, j.inum, i) = ino.i_direct[i]
    BY <1>5, <2>1
  <2>3. PointersFrom(j, 0, N_DIRECT)[i] = IF i < Blocks(j.len) THEN j.start + i ELSE 0
    BY <1>2 DEF PointersFrom
  <2> QED
    BY <1>4, <2>2, <2>3
<1>7. Value(j, j.inum, N_DIRECT) = IF X(j) > 0 THEN First(j) ELSE 0
  <2>1. N_DIRECT \in 0..N_DIRECT+1 /\ ~(N_DIRECT < N_DIRECT)
    BY <1>0
  <2> QED
    BY <1>4, <1>5, <2>1
<1>8. Value(j, j.inum, N_DIRECT + 1) = IF X(j) > 1 THEN First(j) + 1 ELSE 0
  <2>1. N_DIRECT + 1 \in 0..N_DIRECT+1 /\ ~(N_DIRECT + 1 < N_DIRECT) /\ N_DIRECT + 1 # N_DIRECT
    BY <1>0
  <2> QED
    BY <1>4, <1>5, <2>1
<1>9. ASSUME X(j) > 0, NEW i \in 0..N_INDIRECT-1
      PROVE  Value(j, First(j), i) =
               IF N_DIRECT + i < Blocks(j.len) THEN j.start + N_DIRECT + i ELSE 0
  <2>1. First(j) # j.inum
    BY <1>2
  <2>2. Value(j, First(j), i) = PointersFrom(j, N_DIRECT, N_INDIRECT)[i]
    BY <1>1, <1>9, <2>1 DEF Value, OneBlock
  <2> QED
    BY <2>2 DEF PointersFrom
<1>10. ASSUME X(j) > 1, NEW i \in 0..N_INDIRECT-1
       PROVE  Value(j, First(j) + 1, i) = First(j) + 2 + i
  <2>1. First(j) + 1 # j.inum
    BY <1>2
  <2> QED
    BY <1>1, <1>10, <2>1 DEF Value, MoreBlocks
<1>11. ASSUME X(j) > 1, NEW s \in 0..N_INDIRECT-1, NEW i \in 0..N_INDIRECT-1
       PROVE  Value(j, First(j) + 2 + s, i) =
                IF SlotBase(s) + i < Blocks(j.len) THEN j.start + SlotBase(s) + i ELSE 0
  <2>1. First(j) + 2 + s # j.inum
    BY <1>0, <1>2
  <2>2. Value(j, First(j) + 2 + s, i) = PointersFrom(j, SlotBase(s), N_INDIRECT)[i]
    BY <1>1, <1>11, <2>1 DEF Value, MoreBlocks
  <2> QED
    BY <2>2 DEF PointersFrom
<1> QED
  BY <1>6, <1>7, <1>8, <1>9, <1>10, <1>11 DEF Cells

\* An entry of the double indirect block and a position in its block make a position
\* of the file, and no other entry and position make the same.
LEMMA SlotsApart ==
  ASSUME NEW s \in 0..N_INDIRECT-1, NEW i \in 0..N_INDIRECT-1
  PROVE  /\ SlotBase(s) + i \in Nat /\ SlotBase(s) + i >= N_DIRECT + N_INDIRECT
         /\ SlotBase(s) \in Nat
         /\ Entry(SlotBase(s) + i) = s /\ Offset(SlotBase(s) + i) = i
<1>0. N_DIRECT \in Nat /\ N_INDIRECT \in Nat /\ N_INDIRECT > 0 /\ s \in Nat
  BY Params DEF ParamFacts
<1>1. s * N_INDIRECT = N_INDIRECT * s /\ N_INDIRECT * s \in Nat
  BY <1>0
<1>2. PICK a : a = Behind(SlotBase(s) + i)
  OBVIOUS
<1>3. a = N_INDIRECT * s + i
  BY <1>0, <1>1, <1>2 DEF Behind, SlotBase
<1>4. a \in Nat
  BY <1>0, <1>1, <1>3
<1>5. a \div N_INDIRECT = s /\ a % N_INDIRECT = i
  BY <1>0, <1>3, <1>4, DivUnique
<1>6. Entry(SlotBase(s) + i) = s /\ Offset(SlotBase(s) + i) = i
  BY <1>2, <1>5 DEF Entry, Offset
<1>7. SlotBase(s) + i \in Nat /\ SlotBase(s) \in Nat /\ SlotBase(s) + i >= N_DIRECT + N_INDIRECT
  BY <1>0, <1>1 DEF SlotBase
<1> QED
  BY <1>6, <1>7

\* The blocks of pointers: one for the file's, the double one, and one for each entry
LEMMA PointerBlockCases ==
  ASSUME NEW j, Good(j), NEW b \in PointerArea(j)
  PROVE  \/ b = First(j) /\ X(j) > 0
         \/ b = First(j) + 1 /\ X(j) > 1
         \/ X(j) > 1 /\ \E s \in 0..N_INDIRECT-1 : b = First(j) + 2 + s
<1>1. Layout(j) /\ MoreBlocks(j) /\ N_INDIRECT \in Nat
  BY Layouts, Params DEF ParamFacts
<1>2. First(j) \in Nat /\ X(j) \in Nat /\ PastEnd(j, X(j)) = First(j) + X(j)
  BY <1>1 DEF Layout
<1>3. b \in First(j)..First(j)+X(j)-1
  BY <1>2 DEF PointerArea
<1>4. b \in Nat /\ b >= First(j) /\ b < First(j) + X(j)
  BY <1>2, <1>3
<1>5. CASE b = First(j)
  BY <1>2, <1>4, <1>5
<1>6. CASE b = First(j) + 1
  BY <1>2, <1>4, <1>6
<1>7. CASE b > First(j) + 1
  <2>1. X(j) > 1
    BY <1>2, <1>4, <1>7
  <2>2. X(j) = 2 + N_INDIRECT
    BY <1>1, <2>1 DEF MoreBlocks
  <2>3. PICK s : s = b - First(j) - 2
    OBVIOUS
  <2>4. s \in 0..N_INDIRECT-1 /\ b = First(j) + 2 + s
    BY <1>1, <1>2, <1>4, <1>7, <2>2, <2>3
  <2> QED
    BY <2>1, <2>4
<1> QED
  BY <1>2, <1>4, <1>5, <1>6, <1>7

LEMMA LayoutNumbers ==
  ASSUME NEW j, Good(j)
  PROVE  /\ j.start \in Nat /\ Blocks(j.len) \in Nat /\ First(j) \in Nat /\ j.inum \in Nat
         /\ j.inum < j.start /\ j.inum < First(j) /\ X(j) \in Nat
         /\ First(j) = j.start + Blocks(j.len)
         /\ PastEnd(j, X(j)) = First(j) + X(j) /\ Blocks(j.len) <= MaxSize
<1>1. /\ j.start \in Nat /\ Blocks(j.len) \in Nat /\ First(j) \in Nat /\ j.inum \in Nat
      /\ j.inum < j.start /\ X(j) \in Nat
      /\ First(j) = j.start + Blocks(j.len)
      /\ PastEnd(j, X(j)) = First(j) + X(j) /\ Blocks(j.len) <= MaxSize
  BY Layouts DEF Layout
<1>2. j.inum < First(j)
  BY <1>1
<1> QED
  BY <1>1, <1>2

LEMMA DataPlaces ==
  ASSUME NEW j, Good(j), NEW k \in Nat, k < Blocks(j.len)
  PROVE  j.start + k \in Area(j) /\ Place(j, j.start + k) = BlockPlace(j, k)
<1>1. /\ j.start \in Nat /\ Blocks(j.len) \in Nat /\ First(j) = j.start + Blocks(j.len)
      /\ X(j) \in Nat /\ PastEnd(j, X(j)) = First(j) + X(j) /\ First(j) \in Nat
  BY Layouts DEF Layout
<1>2. j.start + k < First(j) /\ (j.start + k) - j.start = k
  BY <1>1
<1>3. j.start + k \in j.start..First(j)+X(j)-1
  BY <1>1, <1>2
<1> QED
  BY <1>1, <1>2, <1>3 DEF Area, Place

LEMMA PointerPlaces ==
  ASSUME NEW j, Good(j), NEW x \in Nat, x < X(j)
  PROVE  /\ First(j) + x \in Area(j) /\ First(j) + x \in PointerArea(j)
         /\ Place(j, First(j) + x) = PointerPlace(j, x)
<1>1. /\ j.start \in Nat /\ Blocks(j.len) \in Nat /\ First(j) = j.start + Blocks(j.len)
      /\ X(j) \in Nat /\ PastEnd(j, X(j)) = First(j) + X(j) /\ First(j) \in Nat
  BY Layouts DEF Layout
<1>2. ~(First(j) + x < First(j)) /\ (First(j) + x) - First(j) = x
  BY <1>1
<1>3. First(j) + x \in j.start..First(j)+X(j)-1 /\ First(j) + x \in First(j)..First(j)+X(j)-1
  BY <1>1
<1> QED
  BY <1>1, <1>2, <1>3 DEF Area, PointerArea, Place

\* Whatever block of j a place names, it is the place of that block.
LEMMA NamedInPlace ==
  ASSUME NEW j, Good(j), NEW b, NEW i, Spot(j, b, i), Value(j, b, i) # 0
  PROVE  Value(j, b, i) \in Area(j) /\ Place(j, Value(j, b, i)) = <<b, i>>
<1>0. N_DIRECT \in Nat /\ N_DIRECT > 0 /\ N_INDIRECT \in Nat /\ N_INDIRECT > 0
  BY Params DEF ParamFacts
<1>1. Cells(j) /\ MoreBlocks(j)
  BY CellValues, Layouts
<1>2. /\ j.start \in Nat /\ Blocks(j.len) \in Nat /\ First(j) \in Nat /\ j.inum \in Nat
      /\ j.inum < First(j) /\ X(j) \in Nat
  BY LayoutNumbers
<1>3. CASE b = j.inum /\ i \in 0..N_DIRECT-1
  <2>1. i \in Nat /\ i < N_DIRECT
    BY <1>0, <1>3
  <2>2. i < Blocks(j.len) /\ Value(j, b, i) = j.start + i
    BY <1>1, <1>3 DEF Cells
  <2>3. BlockPlace(j, i) = <<b, i>>
    BY <1>3, <2>1 DEF BlockPlace
  <2> QED
    BY <2>1, <2>2, <2>3, DataPlaces
<1>4. CASE b = j.inum /\ i = N_DIRECT
  <2>1. X(j) > 0 /\ Value(j, b, i) = First(j)
    BY <1>1, <1>4 DEF Cells
  <2>2. PICK x \in Nat : x = 0
    OBVIOUS
  <2>3. x < X(j) /\ Value(j, b, i) = First(j) + x /\ PointerPlace(j, x) = <<b, i>>
    BY <1>0, <1>2, <1>4, <2>1, <2>2 DEF PointerPlace
  <2> QED
    BY <2>3, PointerPlaces
<1>5. CASE b = j.inum /\ i = N_DIRECT + 1
  <2>1. X(j) > 1 /\ Value(j, b, i) = First(j) + 1
    BY <1>1, <1>5 DEF Cells
  <2>2. PICK x \in Nat : x = 1
    OBVIOUS
  <2>3. x < X(j) /\ Value(j, b, i) = First(j) + x /\ PointerPlace(j, x) = <<b, i>>
    BY <1>0, <1>2, <1>5, <2>1, <2>2 DEF PointerPlace
  <2> QED
    BY <2>3, PointerPlaces
<1>6. CASE b = First(j) /\ X(j) > 0 /\ i \in 0..N_INDIRECT-1
  <2>1. N_DIRECT + i < Blocks(j.len) /\ Value(j, b, i) = j.start + N_DIRECT + i
    BY <1>1, <1>6 DEF Cells
  <2>2. PICK k : k = N_DIRECT + i
    OBVIOUS
  <2>3. k \in Nat /\ Value(j, b, i) = j.start + k /\ k < Blocks(j.len)
    BY <1>0, <1>2, <1>6, <2>1, <2>2
  <2>4. BlockPlace(j, k) = <<b, i>>
    <3>1. ~(k < N_DIRECT) /\ k < N_DIRECT + N_INDIRECT /\ k - N_DIRECT = i
      BY <1>0, <1>6, <2>2
    <3> QED
      BY <1>6, <3>1 DEF BlockPlace
  <2> QED
    BY <2>3, <2>4, DataPlaces
<1>7. CASE b = First(j) + 1 /\ X(j) > 1 /\ i \in 0..N_INDIRECT-1
  <2>1. Value(j, b, i) = First(j) + 2 + i /\ X(j) = 2 + N_INDIRECT
    BY <1>1, <1>7 DEF Cells, MoreBlocks
  <2>2. PICK x : x = 2 + i
    OBVIOUS
  <2>3. x \in Nat /\ x < X(j) /\ Value(j, b, i) = First(j) + x
    BY <1>0, <1>2, <1>7, <2>1, <2>2
  <2>4. PointerPlace(j, x) = <<b, i>>
    <3>1. ~(x < 2) /\ x - 2 = i
      BY <1>0, <1>7, <2>2
    <3> QED
      BY <1>7, <3>1 DEF PointerPlace
  <2> QED
    BY <2>3, <2>4, PointerPlaces
<1>8. ASSUME NEW s \in 0..N_INDIRECT-1, b = First(j) + 2 + s, X(j) > 1, i \in 0..N_INDIRECT-1
      PROVE  Value(j, b, i) \in Area(j) /\ Place(j, Value(j, b, i)) = <<b, i>>
  <2>1. SlotBase(s) + i < Blocks(j.len) /\ Value(j, b, i) = j.start + SlotBase(s) + i
    BY <1>1, <1>8 DEF Cells
  <2>2. PICK k : k = SlotBase(s) + i
    OBVIOUS
  <2>3. k \in Nat /\ k >= N_DIRECT + N_INDIRECT /\ Entry(k) = s /\ Offset(k) = i
        /\ SlotBase(s) \in Nat /\ i \in Nat
    BY <1>8, <2>2, SlotsApart
  <2>4. Value(j, b, i) = j.start + k /\ k < Blocks(j.len)
    BY <1>2, <2>1, <2>2, <2>3
  <2>5. BlockPlace(j, k) = <<b, i>>
    <3>1. ~(k < N_DIRECT) /\ ~(k < N_DIRECT + N_INDIRECT)
      BY <1>0, <2>3
    <3> QED
      BY <1>8, <2>3, <3>1 DEF BlockPlace
  <2> QED
    BY <2>3, <2>4, <2>5, DataPlaces
<1>9. b = j.inum /\ i \in 0..N_DIRECT+1 =>
        i \in 0..N_DIRECT-1 \/ i = N_DIRECT \/ i = N_DIRECT + 1
  BY <1>0
<1>10. CASE b = j.inum /\ i \in 0..N_DIRECT+1
  BY <1>3, <1>4, <1>5, <1>9, <1>10
<1>11. CASE b \in PointerArea(j) /\ i \in 0..N_INDIRECT-1
  BY <1>6, <1>7, <1>8, <1>11, PointerBlockCases
<1> QED
  BY <1>10, <1>11 DEF Spot

\* Every block of j is named at its place.
LEMMA PlaceNames ==
  ASSUME NEW j, Good(j), NEW v \in Area(j)
  PROVE  \E b, i : Place(j, v) = <<b, i>> /\ Spot(j, b, i) /\ Value(j, b, i) = v
<1>0. N_DIRECT \in Nat /\ N_DIRECT > 0 /\ N_INDIRECT \in Nat /\ N_INDIRECT > 0 /\ MaxSize \in Nat
  BY Params, MaxSizeType DEF ParamFacts
<1>1. Cells(j) /\ MoreBlocks(j)
  BY CellValues, Layouts
<1>2. /\ j.start \in Nat /\ Blocks(j.len) \in Nat /\ First(j) \in Nat /\ j.inum \in Nat
      /\ j.inum < First(j) /\ X(j) \in Nat /\ First(j) = j.start + Blocks(j.len)
      /\ PastEnd(j, X(j)) = First(j) + X(j) /\ Blocks(j.len) <= MaxSize
  BY LayoutNumbers
<1>3. v \in Nat /\ j.start <= v /\ v < First(j) + X(j)
  <2>1. v \in j.start..First(j)+X(j)-1
    BY <1>2 DEF Area
  <2> QED
    BY <1>2, <2>1
<1>4. CASE v < First(j)
  <2>1. PICK k : k = v - j.start
    OBVIOUS
  <2>2. k \in Nat /\ v = j.start + k /\ k < Blocks(j.len)
    BY <1>2, <1>3, <1>4, <2>1
  <2>3. Place(j, v) = BlockPlace(j, k)
    BY <2>2, DataPlaces
  <2>4. CASE k < N_DIRECT
    <3>1. k \in 0..N_DIRECT-1 /\ k \in 0..N_DIRECT+1
      BY <1>0, <2>2, <2>4
    <3>2. Value(j, j.inum, k) = v
      BY <1>1, <2>2, <3>1 DEF Cells
    <3>3. Place(j, v) = <<j.inum, k>>
      BY <2>3, <2>4 DEF BlockPlace
    <3> QED
      BY <3>1, <3>2, <3>3 DEF Spot
  <2>5. CASE k >= N_DIRECT /\ k < N_DIRECT + N_INDIRECT
    <3>1. PICK i : i = k - N_DIRECT
      OBVIOUS
    <3>2. i \in 0..N_INDIRECT-1 /\ N_DIRECT + i = k /\ ~(k < N_DIRECT)
      BY <1>0, <2>2, <2>5, <3>1
    <3>3. X(j) > 0
      <4>1. Blocks(j.len) >= N_DIRECT
        BY <1>0, <1>2, <2>2, <2>5
      <4>2. CASE Blocks(j.len) < N_DIRECT + N_INDIRECT
        BY <1>2, <4>1, <4>2, ExtraCases DEF X
      <4>3. CASE Blocks(j.len) >= N_DIRECT + N_INDIRECT
        BY <1>0, <1>2, <4>3, ExtraCases DEF X
      <4> QED
        BY <1>0, <1>2, <4>2, <4>3
    <3>4. Value(j, First(j), i) = j.start + N_DIRECT + i
      BY <1>1, <2>2, <3>2, <3>3 DEF Cells
    <3>5. Value(j, First(j), i) = v
      BY <1>0, <1>2, <2>2, <3>2, <3>4
    <3>6. Place(j, v) = <<First(j), i>>
      BY <2>3, <2>5, <3>1, <3>2 DEF BlockPlace
    <3>7. First(j) \in PointerArea(j)
      <4>1. First(j) \in First(j)..First(j)+X(j)-1
        BY <1>2, <3>3
      <4> QED
        BY <1>2, <4>1 DEF PointerArea
    <3> QED
      BY <3>2, <3>5, <3>6, <3>7 DEF Spot
  <2>6. CASE k >= N_DIRECT + N_INDIRECT
    <3>1. k < MaxSize
      BY <1>0, <1>2, <2>2
    <3>2. PICK s, i : s = Entry(k) /\ i = Offset(k)
      OBVIOUS
    <3>3. s \in 0..N_INDIRECT-1 /\ i \in 0..N_INDIRECT-1 /\ SlotBase(s) + i = k
      BY <2>2, <2>6, <3>1, <3>2, Doubles
    <3>4. X(j) > 1 /\ X(j) = 2 + N_INDIRECT
      <4>1. Blocks(j.len) >= N_DIRECT + N_INDIRECT
        BY <1>0, <1>2, <2>2, <2>6
      <4>2. X(j) > 1
        BY <1>2, <4>1, ExtraCases DEF X
      <4> QED
        BY <1>1, <4>2 DEF MoreBlocks
    <3>5. Value(j, First(j) + 2 + s, i) = j.start + SlotBase(s) + i
      BY <1>1, <2>2, <3>3, <3>4 DEF Cells
    <3>6. Value(j, First(j) + 2 + s, i) = v
      <4>1. SlotBase(s) \in Nat /\ i \in Nat
        BY <3>3, SlotsApart
      <4> QED
        BY <1>2, <2>2, <3>3, <3>5, <4>1
    <3>7. Place(j, v) = <<First(j) + 2 + s, i>>
      <4>1. ~(k < N_DIRECT) /\ ~(k < N_DIRECT + N_INDIRECT)
        BY <1>0, <2>2, <2>6
      <4> QED
        BY <2>3, <3>2, <4>1 DEF BlockPlace
    <3>8. First(j) + 2 + s \in PointerArea(j)
      <4>1. PICK x : x = 2 + s
        OBVIOUS
      <4>2. x \in Nat /\ x < X(j) /\ First(j) + 2 + s = First(j) + x
        BY <1>0, <1>2, <3>3, <3>4, <4>1
      <4> QED
        BY <4>2, PointerPlaces
    <3> QED
      BY <3>3, <3>6, <3>7, <3>8 DEF Spot
  <2> QED
    BY <1>0, <2>2, <2>4, <2>5, <2>6
<1>5. CASE ~(v < First(j))
  <2>1. PICK x : x = v - First(j)
    OBVIOUS
  <2>2. x \in Nat /\ v = First(j) + x /\ x < X(j)
    BY <1>2, <1>3, <1>5, <2>1
  <2>3. Place(j, v) = PointerPlace(j, x)
    BY <2>2, PointerPlaces
  <2>4. CASE x = 0
    <3>1. Place(j, v) = <<j.inum, N_DIRECT>>
      BY <1>0, <2>3, <2>4 DEF PointerPlace
    <3>2. Value(j, j.inum, N_DIRECT) = v /\ N_DIRECT \in 0..N_DIRECT+1
      BY <1>0, <1>1, <1>2, <2>2, <2>4 DEF Cells
    <3> QED
      BY <3>1, <3>2 DEF Spot
  <2>5. CASE x = 1
    <3>1. Place(j, v) = <<j.inum, N_DIRECT + 1>>
      BY <2>3, <2>5 DEF PointerPlace
    <3>2. Value(j, j.inum, N_DIRECT + 1) = v /\ N_DIRECT + 1 \in 0..N_DIRECT+1
      BY <1>0, <1>1, <1>2, <2>2, <2>5 DEF Cells
    <3> QED
      BY <3>1, <3>2 DEF Spot
  <2>6. CASE x >= 2
    <3>1. PICK i : i = x - 2
      OBVIOUS
    <3>2. X(j) > 1 /\ X(j) = 2 + N_INDIRECT
      BY <1>1, <1>2, <2>2, <2>6 DEF MoreBlocks
    <3>3. i \in 0..N_INDIRECT-1 /\ v = First(j) + 2 + i /\ ~(x < 2)
      BY <1>0, <1>2, <2>2, <2>6, <3>1, <3>2
    <3>4. Place(j, v) = <<First(j) + 1, i>>
      BY <2>3, <3>1, <3>3 DEF PointerPlace
    <3>5. Value(j, First(j) + 1, i) = v
      BY <1>1, <3>2, <3>3 DEF Cells
    <3>6. First(j) + 1 \in PointerArea(j)
      <4>1. PICK y \in Nat : y = 1
        OBVIOUS
      <4> QED
        BY <3>2, <4>1, PointerPlaces
    <3> QED
      BY <3>3, <3>4, <3>5, <3>6 DEF Spot
  <2> QED
    BY <2>2, <2>4, <2>5, <2>6
<1> QED
  BY <1>4, <1>5

-----------------------------------------------------------------------------
(* The whole image *)

Top(j) == PastEnd(j, X(j))

\* The inodes that can be reached: the directory's and those with an entry
Reached == (1..Len(argv)) \ lost
Jobs == {DirJob} \cup {FileJob(f) : f \in Reached}

LEMMA FileBounds ==
  ASSUME Done, NEW f \in 1..Len(argv)
  PROVE  /\ Good(FileJob(f)) /\ FileJob(f).inum = At[f] /\ FileJob(f).start = At[f] + 1
         /\ Top(FileJob(f)) = At[f + 1]
         /\ At[f] \in Nat /\ At[f + 1] \in Nat /\ At[f] > root /\ At[f + 1] <= At[Len(argv) + 1]
<1>0. DoneFacts
  BY Ended
<1>1. Good(FileJob(f)) /\ Len(argv) \in Nat /\ Running
  BY <1>0 DEF DoneFacts, GoingFacts, FileFacts
<1>2. /\ FileJob(f).inum = At[f] /\ FileJob(f).start = At[f] + 1
      /\ Blocks(FileJob(f).len) = Size(f)
      /\ At[f] \in Nat /\ At[f + 1] \in Nat /\ At[f] > root
      /\ At[f + 1] = PastEnd(FileJob(f), Extra(Size(f)))
  BY <1>1, FileJobs
<1>3. Top(FileJob(f)) = At[f + 1]
  BY <1>2 DEF Top, X
<1>4. At[f + 1] <= At[Len(argv) + 1]
  <2>1. f \in 1..Len(argv)+1 /\ Len(argv) + 1 \in 1..Len(argv)+1 /\ f < Len(argv) + 1
    BY <1>1
  <2> QED
    BY <1>0, <2>1 DEF DoneFacts, GoingFacts, OrderFacts
<1> QED
  BY <1>1, <1>2, <1>3, <1>4

LEMMA DirBounds ==
  ASSUME Done
  PROVE  /\ Good(DirJob) /\ DirJob.inum = root /\ DirJob.start = At[Len(argv) + 1]
         /\ Top(DirJob) = diskpos /\ At[Len(argv) + 1] \in Nat /\ At[Len(argv) + 1] > root
         /\ At[Len(argv) + 1] <= diskpos
         /\ root \in Nat /\ diskpos \in Nat /\ diskpos < nblocks /\ nblocks \in Nat
         /\ Len(argv) \in Nat
<1>0. DoneFacts
  BY Ended
<1>1. /\ Good(DirJob) /\ DirJob.inum = root /\ Top(DirJob) = diskpos
      /\ Len(argv) \in Nat /\ root \in Nat /\ nblocks \in Nat
      /\ diskpos \in Nat /\ diskpos < nblocks
      /\ DirJob.start = At[Len(argv) + 1] /\ DirJob.start \in Nat
  BY <1>0 DEF DoneFacts, GoingFacts, FileFacts, DirFacts, Top
<1>2. At[Len(argv) + 1] > root
  <2>1. Len(argv) + 1 \in 1..Len(argv)+1
    BY <1>1
  <2> QED
    BY <1>0, <2>1 DEF DoneFacts, GoingFacts, OrderFacts
<1>3. At[Len(argv) + 1] <= diskpos
  <2>1. /\ Top(DirJob) = First(DirJob) + X(DirJob) /\ X(DirJob) \in Nat
        /\ First(DirJob) = DirJob.start + Blocks(DirJob.len) /\ Blocks(DirJob.len) \in Nat
    BY <1>1, LayoutNumbers DEF Top
  <2> QED
    BY <1>1, <2>1
<1> QED
  BY <1>1, <1>2, <1>3

\* Nothing of one inode is of another, and nothing is before the root.
LEMMA JobsApart ==
  ASSUME Done
  PROVE  /\ \A j \in Jobs :
              /\ Good(j) /\ root <= j.inum /\ Area(j) \subseteq Nat
              /\ \A v \in Area(j) : root < v /\ v < diskpos
         /\ \A j, k \in Jobs :
              /\ j.inum = k.inum => j = k
              /\ Area(j) \cap Area(k) # {} => j = k
              /\ k.inum \notin Area(j)
<1>0. Len(argv) \in Nat /\ root \in Nat /\ diskpos \in Nat
      /\ At[Len(argv) + 1] \in Nat /\ At[Len(argv) + 1] > root /\ At[Len(argv) + 1] <= diskpos
  BY DirBounds
<1> DEFINE Low(j) == IF j = DirJob THEN At[Len(argv) + 1] ELSE j.inum
<1>1. ASSUME NEW f \in 1..Len(argv)
      PROVE  /\ FileJob(f) # DirJob /\ Low(FileJob(f)) = At[f]
             /\ \A v \in Area(FileJob(f)) : v \in Nat /\ At[f] < v /\ v < At[f + 1]
  <2>1. /\ FileJob(f).inum = At[f] /\ FileJob(f).start = At[f] + 1
        /\ Top(FileJob(f)) = At[f + 1] /\ At[f] \in Nat /\ At[f + 1] \in Nat /\ At[f] > root
    BY FileBounds
  <2>2. FileJob(f) # DirJob
    <3>1. DirJob.inum = root
      BY DirBounds
    <3> QED
      BY <1>0, <2>1, <3>1
  <2>3. Area(FileJob(f)) = At[f]+1..At[f + 1]-1
    BY <2>1 DEF Area, Top
  <2> QED
    BY <2>1, <2>2, <2>3
<1>2. \A v \in Area(DirJob) : v \in Nat /\ At[Len(argv) + 1] <= v /\ v < diskpos
  <2>1. Area(DirJob) = At[Len(argv) + 1]..diskpos-1
    BY DirBounds DEF Area, Top
  <2> QED
    BY <1>0, <2>1
<1>3. \A f, g \in 1..Len(argv) : f < g => At[f + 1] <= At[g]
  <2>1. \A f \in 1..Len(argv) : f \in 1..Len(argv)+1
    BY <1>0
  <2> QED
    BY <2>1, Ended DEF DoneFacts, GoingFacts, OrderFacts
<1>4. ASSUME NEW j \in Jobs
      PROVE  j = DirJob \/ \E f \in 1..Len(argv) : j = FileJob(f)
  BY DEF Jobs, Reached
<1>5. ASSUME NEW j \in Jobs
      PROVE  /\ Good(j) /\ root <= j.inum /\ Area(j) \subseteq Nat
             /\ \A v \in Area(j) : root < v /\ v < diskpos
  <2>1. CASE j = DirJob
    <3>1. Good(j) /\ root <= j.inum
      BY <1>0, <2>1, DirBounds
    <3>2. \A v \in Area(j) : v \in Nat /\ root < v /\ v < diskpos
      BY <1>0, <1>2, <2>1
    <3> QED
      BY <3>1, <3>2
  <2>2. ASSUME NEW f \in 1..Len(argv), j = FileJob(f)
        PROVE  /\ Good(j) /\ root <= j.inum /\ Area(j) \subseteq Nat
               /\ \A v \in Area(j) : root < v /\ v < diskpos
    <3>1. /\ Good(j) /\ j.inum = At[f] /\ At[f] \in Nat /\ At[f] > root
          /\ At[f + 1] \in Nat /\ At[f + 1] <= At[Len(argv) + 1]
      BY <2>2, FileBounds
    <3>2. \A v \in Area(j) : v \in Nat /\ At[f] < v /\ v < At[f + 1]
      BY <1>1, <2>2
    <3>3. \A v \in Area(j) : v \in Nat /\ root < v /\ v < diskpos
      BY <1>0, <3>1, <3>2
    <3> QED
      BY <1>0, <3>1, <3>3
  <2> QED
    BY <1>4, <2>1, <2>2
<1> DEFINE Apart(j, k) == /\ j.inum # k.inum /\ Area(j) \cap Area(k) = {}
                          /\ k.inum \notin Area(j) /\ j.inum \notin Area(k)
<1>6. ASSUME NEW f \in 1..Len(argv)
      PROVE  /\ At[f] \in Nat /\ At[f + 1] \in Nat /\ At[f] < At[f + 1]
             /\ FileJob(f).inum = At[f]
  <2>1. /\ FileJob(f).start = At[f] + 1 /\ Top(FileJob(f)) = At[f + 1] /\ Good(FileJob(f))
        /\ At[f] \in Nat /\ At[f + 1] \in Nat /\ FileJob(f).inum = At[f]
    BY FileBounds
  <2>2. PICK j : j = FileJob(f)
    OBVIOUS
  <2>3. /\ j.start \in Nat /\ Blocks(j.len) \in Nat /\ X(j) \in Nat
        /\ Top(j) = j.start + Blocks(j.len) + X(j)
    BY <2>1, <2>2, LayoutNumbers DEF Top
  <2> QED
    BY <2>1, <2>2, <2>3
<1>7. ASSUME NEW f \in 1..Len(argv)
      PROVE  Apart(DirJob, FileJob(f))
  <2>1. /\ FileJob(f).inum = At[f] /\ At[f] \in Nat /\ At[f] > root
        /\ At[f + 1] \in Nat /\ At[f + 1] <= At[Len(argv) + 1] /\ DirJob.inum = root
    BY FileBounds, DirBounds
  <2>2. \A v \in Area(FileJob(f)) : v \in Nat /\ At[f] < v /\ v < At[f + 1]
    BY <1>1
  <2>3. At[f] < At[Len(argv) + 1]
    BY <1>0, <1>6, <2>1
  <2> QED
    BY <1>0, <1>2, <2>1, <2>2, <2>3
<1>8. ASSUME NEW f \in 1..Len(argv), NEW g \in 1..Len(argv), f < g
      PROVE  Apart(FileJob(f), FileJob(g))
  <2>1. \A v \in Area(FileJob(f)) : v \in Nat /\ At[f] < v /\ v < At[f + 1]
    BY <1>1
  <2>2. \A v \in Area(FileJob(g)) : v \in Nat /\ At[g] < v
    BY <1>1
  <2>3. At[f] < At[g] /\ At[f + 1] <= At[g]
    BY <1>3, <1>6, <1>8
  <2> QED
    BY <1>6, <2>1, <2>2, <2>3
<1>9. ASSUME NEW j \in Jobs
       PROVE  j.inum \notin Area(j)
  <2>1. CASE j = DirJob
    BY <1>5, <2>1, DirBounds
  <2>2. ASSUME NEW f \in 1..Len(argv), j = FileJob(f)
        PROVE  j.inum \notin Area(j)
    BY <1>1, <1>6, <2>2
  <2> QED
    BY <1>4, <2>1, <2>2
<1>10. ASSUME NEW j \in Jobs, NEW k \in Jobs, j # k
       PROVE  Apart(j, k)
  <2>1. CASE j = DirJob
    <3>1. PICK g \in 1..Len(argv) : k = FileJob(g)
      BY <1>4, <1>10, <2>1
    <3>2. Apart(DirJob, FileJob(g))
      BY <1>7
    <3> HIDE DEF Apart
    <3> QED
      BY <2>1, <3>1, <3>2
  <2>2. CASE k = DirJob
    <3>1. PICK g \in 1..Len(argv) : j = FileJob(g)
      BY <1>4, <1>10, <2>2
    <3>2. Apart(FileJob(g), DirJob)
      BY <1>7
    <3> HIDE DEF Apart
    <3> QED
      BY <2>2, <3>1, <3>2
  <2>3. CASE j # DirJob /\ k # DirJob
    <3>1. PICK f \in 1..Len(argv) : j = FileJob(f)
      BY <1>4, <2>3
    <3>2. PICK g \in 1..Len(argv) : k = FileJob(g)
      BY <1>4, <2>3
    <3>3. f # g
      BY <1>10, <3>1, <3>2
    <3>4. Apart(FileJob(f), FileJob(g))
      <4>1. CASE f < g
        BY <1>8, <4>1
      <4>2. CASE g < f
        <5>1. Apart(FileJob(g), FileJob(f))
          BY <1>8, <4>2
        <5> QED
          BY <5>1
      <4> QED
        BY <3>3, <4>1, <4>2
    <3> HIDE DEF Apart
    <3> QED
      BY <3>1, <3>2, <3>4
  <2> QED
    BY <2>1, <2>2, <2>3
<1> QED
  BY <1>5, <1>9, <1>10
\* What has an inode: the directory, and each file that an entry names.
LEMMA InodesAre ==
  ASSUME Done
  PROVE  Inodes = {j.inum : j \in Jobs}
<1>0. DoneFacts
  BY Ended
<1>1. s_root = root /\ DirJob.inum = root /\ Len(ents) = Len(argv) /\ Len(argv) \in Nat
  BY <1>0, DirBounds DEF DoneFacts
<1>2. PICK n \in Nat : DirPositions = 0..n-1 /\ Len(argv) <= n
  BY Entries
<1>3. \A x \in DirPositions : DirEntry(x) = EntryAt(x)
  BY Entries
<1>4. \A f \in Reached : /\ ents[f].inum = At[f] /\ FileJob(f).inum = At[f]
                         /\ f \in 1..Len(argv) /\ f \notin lost /\ At[f] # 0
  <2>1. ASSUME NEW f \in Reached PROVE ents[f].inum = At[f]
    <3>1. f \in 1..Len(argv) /\ f \notin lost
      BY DEF Reached
    <3>2. ents[f] = [name |-> argv[f].name, inum |-> At[f]]
      BY <1>0, <3>1 DEF DoneFacts
    <3> QED
      BY <3>2
  <2>2. \A f \in Reached : FileJob(f).inum = At[f]
    BY FileBounds DEF Reached
  <2>3. \A f \in 1..Len(argv) : At[f] # 0
    <3>1. ASSUME NEW f \in 1..Len(argv) PROVE At[f] # 0
      <4>1. f \in 1..Len(argv)+1 /\ root \in Nat
        BY <1>0, <1>1 DEF DoneFacts, GoingFacts, FileFacts
      <4>2. At[f] \in Nat /\ At[f] > root
        BY <1>0, <4>1 DEF DoneFacts, GoingFacts, PlaceFacts, OrderFacts
      <4> QED
        BY <4>1, <4>2
    <3> QED
      BY <3>1
  <2> QED
    BY <2>1, <2>2, <2>3 DEF Reached
<1>5. ASSUME NEW x \in DirPositions, x + 1 \notin lost, DirEntry(x).inum # 0
      PROVE  \E j \in Jobs : j.inum = DirEntry(x).inum
  <2>1. x \in Nat
    BY <1>2
  <2>2. x < Len(ents)
    BY <1>3, <1>5 DEF EntryAt, NoEntry
  <2>3. PICK f : f = x + 1
    OBVIOUS
  <2>4. f \in 1..Len(argv)
    BY <1>1, <2>1, <2>2, <2>3
  <2>5. DirEntry(x) = ents[f]
    BY <1>3, <2>2, <2>3 DEF EntryAt
  <2>6. f \in Reached
    BY <1>5, <2>3, <2>4 DEF Reached
  <2> QED
    BY <1>4, <2>5, <2>6 DEF Jobs
<1>6. ASSUME NEW f \in Reached
      PROVE  \E x \in DirPositions : /\ x + 1 \notin lost
                                     /\ DirEntry(x).inum = FileJob(f).inum
                                     /\ DirEntry(x).inum # 0
  <2>1. f \in 1..Len(argv)
    BY <1>4
  <2>2. PICK x : x = f - 1
    OBVIOUS
  <2>3. x \in 0..n-1 /\ x < Len(ents) /\ x + 1 = f
    BY <1>1, <1>2, <2>1, <2>2
  <2>4. DirEntry(x) = ents[f]
    BY <1>2, <1>3, <2>3 DEF EntryAt
  <2>5. f \notin lost /\ ents[f].inum = FileJob(f).inum /\ ents[f].inum # 0
    BY <1>4
  <2>6. x \in DirPositions /\ x + 1 \notin lost
    BY <1>2, <2>3, <2>5
  <2> QED
    BY <2>4, <2>5, <2>6
<1>7. ASSUME NEW b \in Inodes PROVE \E j \in Jobs : j.inum = b
  <2>1. CASE b = s_root
    BY <1>1, <2>1 DEF Jobs
  <2>2. CASE b # s_root
    <3>1. PICK x \in DirPositions : x + 1 \notin lost /\ b = DirEntry(x).inum /\ b # 0
      BY <2>2 DEF Inodes
    <3> QED
      BY <1>5, <3>1
  <2> QED
    BY <2>1, <2>2
<1>8. ASSUME NEW j \in Jobs PROVE j.inum \in Inodes
  <2>1. CASE j = DirJob
    BY <1>1, <2>1 DEF Inodes
  <2>2. CASE j # DirJob
    <3>1. PICK f \in Reached : j = FileJob(f)
      BY <2>2 DEF Jobs
    <3> QED
      BY <1>6, <3>1 DEF Inodes
  <2> QED
    BY <2>1, <2>2
<1> QED
  BY <1>7, <1>8

\* The blocks of pointers are those that finishinode() took for one of these.
LEMMA PointerBlocksAre ==
  ASSUME Done
  PROVE  PointerBlocks = UNION {PointerArea(j) : j \in Jobs}
<1> DEFINE Singles == {disk[b].i_indirect : b \in Inodes} \ {0}
           Doubled == {disk[b].i_double : b \in Inodes} \ {0}
           Slots == {disk[d].to[i] : d \in Doubled, i \in 0..N_INDIRECT-1} \ {0}
<1>1. PointerBlocks = Singles \cup Doubled \cup Slots
  BY DEF PointerBlocks
<1>2. Inodes = {j.inum : j \in Jobs} /\ N_INDIRECT \in Nat
  BY InodesAre, Params DEF ParamFacts
<1>3. ASSUME NEW j \in Jobs
      PROVE  /\ disk[j.inum].i_indirect = IF X(j) > 0 THEN First(j) ELSE 0
             /\ disk[j.inum].i_double = IF X(j) > 1 THEN First(j) + 1 ELSE 0
             /\ X(j) > 1 => /\ X(j) = 2 + N_INDIRECT
                            /\ \A i \in 0..N_INDIRECT-1 :
                                 disk[First(j) + 1].to[i] = First(j) + 2 + i
             /\ First(j) \in Nat /\ First(j) > 0 /\ X(j) \in Nat
             /\ \A x \in Nat : x < X(j) => First(j) + x \in PointerArea(j)
             /\ \A b \in PointerArea(j) :
                  \/ b = First(j) /\ X(j) > 0
                  \/ b = First(j) + 1 /\ X(j) > 1
                  \/ X(j) > 1 /\ \E s \in 0..N_INDIRECT-1 : b = First(j) + 2 + s
  <2>0. Good(j)
    BY JobsApart
  <2>1. /\ disk[j.inum].i_indirect = IF X(j) > 0 THEN First(j) ELSE 0
        /\ disk[j.inum].i_double = IF X(j) > 1 THEN First(j) + 1 ELSE 0
    <3> HIDE DEF Singles, Doubled, Slots
    <3>1. Layout(j)
      BY <2>0, Layouts
    <3>2. PICK p, d : /\ p = (IF X(j) > 0 THEN First(j) ELSE 0)
                      /\ d = (IF X(j) > 1 THEN First(j) + 1 ELSE 0)
      OBVIOUS
    <3>3. disk[j.inum] =
            [kind |-> "inode", i_size |-> j.len, i_direct |-> PointersFrom(j, 0, N_DIRECT),
             i_indirect |-> p, i_double |-> d]
      BY <3>1, <3>2 DEF Layout
    <3>4. disk[j.inum].i_indirect = p /\ disk[j.inum].i_double = d
      BY <3>3
    <3> QED
      BY <3>2, <3>4
  <2>2. X(j) > 1 => /\ X(j) = 2 + N_INDIRECT
                    /\ \A i \in 0..N_INDIRECT-1 : disk[First(j) + 1].to[i] = First(j) + 2 + i
    BY <2>0, Layouts DEF MoreBlocks
  <2>3. First(j) \in Nat /\ j.inum \in Nat /\ j.inum < First(j) /\ X(j) \in Nat
    BY <2>0, LayoutNumbers
  <2>4. \A x \in Nat : x < X(j) => First(j) + x \in PointerArea(j)
    BY <2>0, PointerPlaces
  <2>5. \A b \in PointerArea(j) :
          \/ b = First(j) /\ X(j) > 0
          \/ b = First(j) + 1 /\ X(j) > 1
          \/ X(j) > 1 /\ \E s \in 0..N_INDIRECT-1 : b = First(j) + 2 + s
    BY <2>0, PointerBlockCases
  <2> QED
    BY <2>1, <2>2, <2>3, <2>4, <2>5
<1>4. ASSUME NEW b \in Singles PROVE \E j \in Jobs : b \in PointerArea(j)
  <2>1. PICK j \in Jobs : b = disk[j.inum].i_indirect /\ b # 0
    BY <1>2
  <2>2. b = First(j) + 0 /\ 0 < X(j) /\ 0 \in Nat
    BY <1>3, <2>1
  <2> QED
    BY <1>3, <2>2
<1>5. ASSUME NEW d \in Doubled
      PROVE  \E j \in Jobs : d = First(j) + 1 /\ X(j) > 1 /\ d \in PointerArea(j)
  <2>1. PICK j \in Jobs : d = disk[j.inum].i_double /\ d # 0
    BY <1>2
  <2>2. d = First(j) + 1 /\ 1 < X(j) /\ 1 \in Nat
    BY <1>3, <2>1
  <2> QED
    BY <1>3, <2>2
<1>6. ASSUME NEW b \in Slots PROVE \E j \in Jobs : b \in PointerArea(j)
  <2>1. PICK d \in Doubled, i \in 0..N_INDIRECT-1 : b = disk[d].to[i]
    OBVIOUS
  <2>2. PICK j \in Jobs : d = First(j) + 1 /\ X(j) > 1
    BY <1>5
  <2>3. PICK x : x = 2 + i
    OBVIOUS
  <2>4. /\ b = First(j) + 2 + i /\ X(j) = 2 + N_INDIRECT /\ First(j) \in Nat
    BY <1>3, <2>1, <2>2
  <2>5. x \in Nat /\ x < X(j) /\ b = First(j) + x
    BY <1>2, <2>3, <2>4
  <2> QED
    BY <1>3, <2>5
<1>7. ASSUME NEW j \in Jobs, NEW b \in PointerArea(j)
      PROVE  b \in Singles \cup Doubled \cup Slots
  <2>1. CASE b = First(j) /\ X(j) > 0
    <3>1. disk[j.inum].i_indirect = b /\ b # 0 /\ j.inum \in Inodes
      BY <1>2, <1>3, <2>1
    <3> QED
      BY <3>1
  <2>2. ASSUME X(j) > 1
        PROVE  First(j) + 1 \in Doubled
    <3>1. disk[j.inum].i_double = First(j) + 1 /\ First(j) + 1 # 0 /\ j.inum \in Inodes
      BY <1>2, <1>3, <2>2
    <3> QED
      BY <3>1
  <2>3. CASE X(j) > 1 /\ \E s \in 0..N_INDIRECT-1 : b = First(j) + 2 + s
    <3>1. PICK s \in 0..N_INDIRECT-1 : b = First(j) + 2 + s
      BY <2>3
    <3>2. b = disk[First(j) + 1].to[s] /\ b # 0
      BY <1>2, <1>3, <2>3, <3>1
    <3> QED
      BY <2>2, <2>3, <3>2
  <2> QED
    BY <1>3, <2>1, <2>2, <2>3
<1> HIDE DEF Singles, Doubled, Slots
<1> QED
  BY <1>1, <1>4, <1>5, <1>6, <1>7

-----------------------------------------------------------------------------
(* Every place and what it names *)

Target(l) == PointersIn(l[1])[l[2]]

\* In an inode and in a block of pointers, the positions are those of the model.
LEMMA Positions ==
  ASSUME Done, NEW j \in Jobs
  PROVE  /\ DOMAIN PointersIn(j.inum) = 0..N_DIRECT+1
         /\ \A i : PointersIn(j.inum)[i] = Value(j, j.inum, i)
         /\ \A b \in PointerArea(j) :
              /\ b \notin Inodes /\ DOMAIN PointersIn(b) = 0..N_INDIRECT-1
              /\ \A i : PointersIn(b)[i] = Value(j, b, i)
<1>0. Good(j)
  BY JobsApart
<1>1. j.inum \in Inodes /\ Inodes = {k.inum : k \in Jobs}
  BY InodesAre
<1>2. PointersIn(j.inum) = InodePointers(j.inum)
  BY <1>1 DEF PointersIn
<1>3. DOMAIN PointersIn(j.inum) = 0..N_DIRECT+1
  BY <1>2 DEF InodePointers
<1>4. \A i : PointersIn(j.inum)[i] = Value(j, j.inum, i)
  BY <1>2 DEF Value
<1>5. ASSUME NEW b \in PointerArea(j)
      PROVE  /\ b \notin Inodes /\ DOMAIN PointersIn(b) = 0..N_INDIRECT-1
             /\ \A i : PointersIn(b)[i] = Value(j, b, i)
  <2>1. b \in Area(j)
    <3>1. /\ j.start \in Nat /\ Blocks(j.len) \in Nat /\ First(j) \in Nat /\ X(j) \in Nat
          /\ First(j) = j.start + Blocks(j.len) /\ PastEnd(j, X(j)) = First(j) + X(j)
      BY <1>0, LayoutNumbers
    <3>2. b \in First(j)..First(j)+X(j)-1
      BY <3>1 DEF PointerArea
    <3>3. b \in j.start..First(j)+X(j)-1
      BY <3>1, <3>2
    <3> QED
      BY <3>1, <3>3 DEF Area
  <2>2. b \notin Inodes
    BY <1>1, <2>1, JobsApart
  <2>3. PointersIn(b) = disk[b].to
    BY <2>2 DEF PointersIn
  <2>4. \A i : PointersIn(b)[i] = Value(j, b, i)
    BY <1>1, <2>2, <2>3 DEF Value
  <2>5. OneBlock(j) /\ MoreBlocks(j)
    BY <1>0, Layouts
  <2>6. DOMAIN disk[b].to = 0..N_INDIRECT-1
    <3>1. CASE b = First(j) /\ X(j) > 0
      BY <2>5, <3>1 DEF OneBlock, PointersFrom
    <3>2. CASE b = First(j) + 1 /\ X(j) > 1
      BY <2>5, <3>2 DEF MoreBlocks
    <3>3. ASSUME X(j) > 1, NEW s \in 0..N_INDIRECT-1, b = First(j) + 2 + s
          PROVE  DOMAIN disk[b].to = 0..N_INDIRECT-1
      BY <2>5, <3>3 DEF MoreBlocks, PointersFrom
    <3> QED
      BY <1>0, <3>1, <3>2, <3>3, PointerBlockCases
  <2> QED
    BY <2>2, <2>3, <2>4, <2>6
<1> QED
  BY <1>3, <1>4, <1>5

\* Each place that names a block is the one the block has, and each block of an
\* inode has one.
LEMMA LinksAre ==
  ASSUME Done
  PROVE  /\ \A l \in Links : \E j \in Jobs : Target(l) \in Area(j) /\ Place(j, Target(l)) = l
         /\ \A j \in Jobs : \A v \in Area(j) : Place(j, v) \in Links /\ Target(Place(j, v)) = v
<1>1. ASSUME NEW j \in Jobs, NEW b, NEW i, Spot(j, b, i)
      PROVE  /\ b \in Inodes \cup PointerBlocks /\ i \in DOMAIN PointersIn(b)
             /\ PointersIn(b)[i] = Value(j, b, i)
  <2>1. CASE b = j.inum /\ i \in 0..N_DIRECT+1
    BY <2>1, Positions, InodesAre
  <2>2. CASE b \in PointerArea(j) /\ i \in 0..N_INDIRECT-1
    BY <2>2, Positions, PointerBlocksAre
  <2> QED
    BY <1>1, <2>1, <2>2 DEF Spot
<1>2. ASSUME NEW b \in Inodes \cup PointerBlocks, NEW i \in DOMAIN PointersIn(b)
      PROVE  \E j \in Jobs : Spot(j, b, i)
  <2>1. CASE b \in Inodes
    <3>1. PICK j \in Jobs : b = j.inum
      BY <2>1, InodesAre
    <3>2. DOMAIN PointersIn(b) = 0..N_DIRECT+1
      BY <3>1, Positions
    <3> QED
      BY <3>1, <3>2 DEF Spot
  <2>2. CASE b \notin Inodes
    <3>1. PICK j \in Jobs : b \in PointerArea(j)
      BY <2>2, PointerBlocksAre
    <3>2. DOMAIN PointersIn(b) = 0..N_INDIRECT-1
      BY <3>1, Positions
    <3> QED
      BY <3>1, <3>2 DEF Spot
  <2> QED
    BY <2>1, <2>2
<1>3. ASSUME NEW l \in Links
      PROVE  \E j \in Jobs : Target(l) \in Area(j) /\ Place(j, Target(l)) = l
  <2>1. PICK c \in Inodes \cup PointerBlocks : l \in {c} \X DOMAIN PointersIn(c)
    BY DEF Links
  <2>2. PICK b, i : b = l[1] /\ i = l[2]
    OBVIOUS
  <2>3. l = <<b, i>> /\ b \in Inodes \cup PointerBlocks /\ i \in DOMAIN PointersIn(b)
    BY <2>1, <2>2
  <2>4. Target(l) # 0 /\ Target(l) = PointersIn(b)[i]
    BY <2>2 DEF Links, Target
  <2>5. PICK j \in Jobs : Spot(j, b, i)
    BY <1>2, <2>3
  <2>6. Target(l) = Value(j, b, i) /\ Good(j)
    BY <1>1, <2>4, <2>5, JobsApart
  <2>7. Value(j, b, i) \in Area(j) /\ Place(j, Value(j, b, i)) = <<b, i>>
    BY <2>4, <2>5, <2>6, NamedInPlace
  <2> QED
    BY <2>3, <2>6, <2>7
<1>4. ASSUME NEW j \in Jobs, NEW v \in Area(j)
      PROVE  Place(j, v) \in Links /\ Target(Place(j, v)) = v
  <2>1. Good(j) /\ v # 0
    <3>1. Good(j) /\ root < v /\ v \in Nat
      BY JobsApart
    <3> QED
      BY <3>1, DirBounds
  <2>2. PICK b, i : Place(j, v) = <<b, i>> /\ Spot(j, b, i) /\ Value(j, b, i) = v
    BY <2>1, PlaceNames
  <2>3. b \in Inodes \cup PointerBlocks /\ i \in DOMAIN PointersIn(b) /\ PointersIn(b)[i] = v
    BY <1>1, <2>2
  <2>4. Target(<<b, i>>) = v
    BY <2>3 DEF Target
  <2>5. <<b, i>> \in {b} \X DOMAIN PointersIn(b)
    BY <2>3
  <2>6. <<b, i>> \in Links
    BY <2>1, <2>3, <2>4, <2>5 DEF Links, Target
  <2> QED
    BY <2>2, <2>4, <2>6
<1> QED
  BY <1>3, <1>4
-----------------------------------------------------------------------------
(* The bitmap *)

\* The bit of a block is clear when the block has been allocated.
LEMMA BitsFollow ==
  ASSUME Done, NEW b \in Nat, b < nblocks
  PROVE  block_is_free(b) <=> ~(b < diskpos)
<1>0. DoneFacts /\ nblocks \in Nat /\ diskpos \in Nat
  BY Ended, DirBounds
<1>1. BLKBITSIZE \in Nat /\ BLKBITSIZE > 0
  BY Params DEF ParamFacts
<1>2. PICK q, r, a : /\ q = b \div BLKBITSIZE /\ r = b % BLKBITSIZE
                     /\ a = (nblocks + BLKBITSIZE - 1) % BLKBITSIZE
  OBVIOUS
<1>3. q \in Nat /\ r \in 0..BLKBITSIZE-1 /\ b = BLKBITSIZE * q + r
  BY <1>1, <1>2, DivMod
<1>4. /\ nbitblocks \in Nat /\ a \in 0..BLKBITSIZE-1
      /\ nblocks + BLKBITSIZE - 1 = BLKBITSIZE * nbitblocks + a
  <2>1. nblocks + BLKBITSIZE - 1 \in Nat
    BY <1>0, <1>1
  <2> QED
    BY <1>1, <1>2, <2>1, DivMod DEF nbitblocks
<1>5. PICK n : n = nbitblocks
  OBVIOUS
<1>6. BLKBITSIZE * q \in Nat /\ BLKBITSIZE * n \in Nat /\ n \in Nat
  BY <1>1, <1>3, <1>4, <1>5
<1>7. BLKBITSIZE * q < BLKBITSIZE * n
  BY <1>0, <1>1, <1>3, <1>4, <1>5, <1>6
<1>8. q < n
  <2>1. CASE q = n
    BY <1>6, <1>7, <2>1
  <2>2. CASE n < q
    <3>1. BLKBITSIZE * n + BLKBITSIZE <= BLKBITSIZE * q
      BY <1>1, <1>3, <1>6, <2>2, ProductLess
    <3> QED
      BY <1>1, <1>6, <1>7, <3>1
  <2> QED
    BY <1>3, <1>6, <2>1, <2>2
<1>9. PICK c : c = 1 + q
  OBVIOUS
<1>10. c \in BitmapBlocks /\ c - 1 = q
  <2>1. c \in 1..n
    BY <1>3, <1>6, <1>8, <1>9
  <2> QED
    BY <1>3, <1>5, <1>9, <2>1 DEF BitmapBlocks
<1>11. disk[c].free = {i \in 0..BLKBITSIZE-1 : ~UsedBits((c - 1) * BLKBITSIZE + i)}
  BY <1>0, <1>10 DEF DoneFacts
<1>12. (c - 1) * BLKBITSIZE + r = b
  <2>1. q * BLKBITSIZE = BLKBITSIZE * q
    BY <1>1, <1>3
  <2> QED
    BY <1>3, <1>10, <2>1
<1>13. r \in disk[c].free <=> ~UsedBits((c - 1) * BLKBITSIZE + r)
  BY <1>3, <1>11
<1>14. block_is_free(b) <=> r \in disk[c].free
  BY <1>2, <1>9 DEF block_is_free
<1> QED
  BY <1>12, <1>13, <1>14 DEF UsedBits

LEMMA LinkedAre ==
  ASSUME Done
  PROVE  /\ Linked = UNION {Area(j) : j \in Jobs}
         /\ Cardinality(Linked) = Cardinality(Links)
<1>1. Linked = {Target(l) : l \in Links}
  BY DEF Linked, Target
<1>2. \A l \in Links : \E j \in Jobs : Target(l) \in Area(j) /\ Place(j, Target(l)) = l
  BY LinksAre
<1>3. \A j \in Jobs : \A v \in Area(j) : Place(j, v) \in Links /\ Target(Place(j, v)) = v
  BY LinksAre
<1>4. Linked = UNION {Area(j) : j \in Jobs}
  <2>1. ASSUME NEW v \in Linked PROVE \E j \in Jobs : v \in Area(j)
    BY <1>1, <1>2
  <2>2. ASSUME NEW j \in Jobs, NEW v \in Area(j) PROVE v \in Linked
    BY <1>1, <1>3
  <2> QED
    BY <2>1, <2>2
<1>5. ASSUME NEW l \in Links, NEW m \in Links, Target(l) = Target(m)
      PROVE  l = m
  <2>1. PICK j \in Jobs : Target(l) \in Area(j) /\ Place(j, Target(l)) = l
    BY <1>2
  <2>2. PICK k \in Jobs : Target(m) \in Area(k) /\ Place(k, Target(m)) = m
    BY <1>2
  <2>3. Area(j) \cap Area(k) # {}
    BY <1>5, <2>1, <2>2
  <2>4. j = k
    BY <2>3, JobsApart
  <2> QED
    BY <1>5, <2>1, <2>2, <2>4
<1>6. IsFiniteSet(Linked)
  <2>1. diskpos \in Nat /\ root \in Nat
    BY DirBounds
  <2>2. IsFiniteSet(0..diskpos)
    BY <2>1, FS_Interval
  <2>3. ASSUME NEW v \in Linked PROVE v \in 0..diskpos
    <3>1. PICK j \in Jobs : v \in Area(j)
      BY <1>4
    <3>2. v \in Nat /\ v < diskpos
      BY <3>1, JobsApart
    <3> QED
      BY <2>1, <3>2
  <2>4. Linked \in SUBSET (0..diskpos)
    BY <2>3
  <2> QED
    BY <2>2, <2>4, FS_Subset
<1>7. Cardinality(Linked) = Cardinality(Links)
  <2> DEFINE F == [l \in Links |-> Target(l)]
  <2> HIDE DEF Target
  <2>1. F \in [Links -> Linked]
    BY <1>1
  <2>2. F \in Injection(Links, Linked)
    BY <1>5, <2>1 DEF Injection, IsInjective
  <2>3. F \in Surjection(Links, Linked)
    BY <1>1, <2>1 DEF Surjection
  <2> HIDE DEF F
  <2>4. PICK f \in Injection(Links, Linked) : f \in Surjection(Links, Linked)
    BY <2>2, <2>3
  <2> QED
    BY <1>6, <2>4, FS_Injection
<1> QED
  BY <1>4, <1>7

\* Below the end of what is allocated is nothing but what is in use, when every
\* file still has its entry.
LEMMA NothingLeaks ==
  ASSUME Done, lost = {},
         NEW b \in Nat, b < diskpos
  PROVE  b \in {0} \cup BitmapBlocks \cup Inodes \cup UNION {Area(j) : j \in Jobs}
<1>0. DoneFacts
  BY Ended
<1>1. /\ Len(argv) \in Nat /\ root \in Nat /\ diskpos \in Nat /\ root = nbitblocks + 1
      /\ nbitblocks \in Nat /\ At[Len(argv) + 1] \in Nat /\ Len(ents) = Len(argv)
      /\ \A m \in 1..Len(argv)+1, c \in Nat :
           root < c /\ c < At[m] => \E f \in 1..m-1 : At[f] <= c /\ c < At[f + 1]
  BY <1>0, DirBounds DEF DoneFacts, GoingFacts, FileFacts, OrderFacts
<1>2. \A f \in 1..Len(argv) : FileJob(f) \in Jobs
  BY <1>1 DEF Jobs, Reached
<1>3. CASE b = 0
  BY <1>3
<1>4. CASE 0 < b /\ b < root
  <2>1. b \in 1..nbitblocks
    BY <1>1, <1>4
  <2> QED
    BY <2>1 DEF BitmapBlocks
<1>5. CASE b = root
  <2>1. DirJob \in Jobs /\ DirJob.inum = root
    BY DirBounds DEF Jobs
  <2> QED
    BY <1>5, <2>1, InodesAre
<1>6. CASE root < b /\ b < At[Len(argv) + 1]
  <2>1. PICK m \in 1..Len(argv)+1 : m = Len(argv) + 1
    BY <1>1
  <2>2. PICK f \in 1..m-1 : At[f] <= b /\ b < At[f + 1]
    BY <1>1, <1>6, <2>1
  <2>3. f \in 1..Len(argv)
    BY <1>1, <2>1, <2>2
  <2>4. /\ FileJob(f).inum = At[f] /\ FileJob(f).start = At[f] + 1
        /\ Top(FileJob(f)) = At[f + 1] /\ At[f] \in Nat /\ At[f + 1] \in Nat
    BY <2>3, FileBounds
  <2>5. CASE b = At[f]
    BY <1>2, <2>3, <2>4, <2>5, InodesAre
  <2>6. CASE At[f] < b
    <3>1. b \in At[f]+1..At[f + 1]-1
      BY <2>2, <2>4, <2>6
    <3>2. b \in Area(FileJob(f))
      BY <2>4, <3>1 DEF Area, Top
    <3> QED
      BY <1>2, <2>3, <3>2
  <2> QED
    BY <2>2, <2>4, <2>5, <2>6
<1>7. CASE At[Len(argv) + 1] <= b
  <2>1. Area(DirJob) = At[Len(argv) + 1]..diskpos-1
    BY DirBounds DEF Area, Top
  <2>2. b \in Area(DirJob)
    BY <1>1, <1>7, <2>1
  <2> QED
    BY <2>2 DEF Jobs
<1> QED
  BY <1>1, <1>3, <1>4, <1>5, <1>6, <1>7

LEMMA BitmapFollows == IInv => BitmapExact
<1> DEFINE used == {b \in 0..nblocks-1 : ~block_is_free(b)}
           Areas == UNION {Area(j) : j \in Jobs}
<1>1. IInv => TypeOK
  BY DEF IInv
<1>2. ASSUME Done
      PROVE  /\ Cardinality(Linked) = Cardinality(Links)
             /\ Linked \cap ({0} \cup BitmapBlocks \cup Inodes) = {}
             /\ InUse \subseteq used
             /\ lost = {} => used \subseteq InUse
  <2>1. /\ diskpos \in Nat /\ diskpos < nblocks /\ nblocks \in Nat /\ root \in Nat
        /\ nbitblocks \in Nat /\ root = nbitblocks + 1
        /\ Len(argv) \in Nat /\ At[Len(argv) + 1] \in Nat
        /\ root < At[Len(argv) + 1] /\ At[Len(argv) + 1] <= diskpos
    BY <1>2, Ended, DirBounds DEF DoneFacts, GoingFacts, FileFacts
  <2>2. Linked = Areas /\ Cardinality(Linked) = Cardinality(Links)
    BY <1>2, LinkedAre
  <2>3. Inodes = {j.inum : j \in Jobs}
    BY <1>2, InodesAre
  <2>4. used = {b \in Nat : b < diskpos}
    <3>1. \A b \in 0..nblocks-1 : block_is_free(b) <=> ~(b < diskpos)
      <4>1. \A b \in Nat : b < nblocks => (block_is_free(b) <=> ~(b < diskpos))
        BY <1>2, BitsFollow
      <4> QED
        BY <2>1, <4>1
    <3>2. \A b : b \in 0..nblocks-1 /\ b < diskpos <=> b \in Nat /\ b < diskpos
      BY <2>1
    <3> QED
      BY <3>1, <3>2
  <2>5. BitmapBlocks = 1..nbitblocks
    BY DEF BitmapBlocks
  <2>6. ASSUME NEW v \in Areas
        PROVE  v \in Nat /\ root < v /\ v < diskpos /\ v \notin Inodes
    <3>1. PICK j \in Jobs : v \in Area(j)
      OBVIOUS
    <3>2. v \in Nat /\ root < v /\ v < diskpos
      BY <1>2, <3>1, JobsApart
    <3>3. \A k \in Jobs : k.inum # v
      BY <1>2, <3>1, JobsApart
    <3> QED
      BY <2>3, <3>2, <3>3
  <2>7. ASSUME NEW j \in Jobs PROVE j.inum \in Nat /\ j.inum < diskpos
    <3>1. CASE j = DirJob
      BY <1>2, <2>1, <3>1, DirBounds
    <3>2. CASE j # DirJob
      <4>1. PICK f \in 1..Len(argv) : j = FileJob(f)
        BY <3>2 DEF Jobs, Reached
      <4>2. /\ Good(j) /\ j.inum = At[f] /\ j.start = At[f] + 1 /\ Top(j) = At[f + 1]
            /\ At[f] \in Nat /\ At[f + 1] \in Nat /\ At[f + 1] <= At[Len(argv) + 1]
        BY <1>2, <4>1, FileBounds
      <4>3. /\ j.start \in Nat /\ Blocks(j.len) \in Nat /\ X(j) \in Nat
            /\ Top(j) = j.start + Blocks(j.len) + X(j)
        BY <4>2, LayoutNumbers DEF Top
      <4> QED
        BY <2>1, <4>2, <4>3
    <3> QED
      BY <3>1, <3>2
  <2>8. Linked \cap ({0} \cup BitmapBlocks \cup Inodes) = {}
    <3>1. ASSUME NEW v \in Areas PROVE v # 0 /\ v \notin BitmapBlocks
      <4> HIDE DEF Areas, used
      <4>1. v \in Nat /\ root < v
        BY <2>6
      <4>2. root \in Nat /\ nbitblocks \in Nat /\ root = nbitblocks + 1
        BY <2>1
      <4>3. v # 0 /\ v \notin 1..nbitblocks
        BY <4>1, <4>2
      <4> QED
        BY <2>5, <4>3
    <3> QED
      BY <2>2, <2>6, <3>1
  <2>9. InUse \subseteq used
    <3>1. 0 \in used
      BY <2>1, <2>4
    <3>2. \A b \in BitmapBlocks : b \in used
      BY <2>1, <2>4, <2>5
    <3>3. \A b \in Inodes : b \in used
      BY <2>3, <2>4, <2>7
    <3>4. \A b \in Linked : b \in used
      BY <2>2, <2>4, <2>6
    <3> QED
      BY <3>1, <3>2, <3>3, <3>4 DEF InUse
  <2>10. ASSUME lost = {}
         PROVE  used \subseteq InUse
    <3>1. ASSUME NEW b \in Nat, b < diskpos
          PROVE  b \in {0} \cup BitmapBlocks \cup Inodes \cup Areas
      BY <1>2, <2>10, <3>1, NothingLeaks
    <3> QED
      BY <2>2, <2>4, <3>1 DEF InUse
  <2> QED
    BY <2>2, <2>8, <2>9, <2>10
<1>3. ASSUME IInv, pc = "done" PROVE Done
  BY <1>3 DEF Done
<1> QED
  BY <1>1, <1>2, <1>3 DEF BitmapExact

\* In every image that is finished, each block in use is named from one place and
\* has one use, the bitmap has every such block as used and, if no entry was lost,
\* no other: alloc() and finishdisk() fit together whatever the files are, and
\* whatever a lost entry holds.
THEOREM BitmapAlwaysExact == Spec => []BitmapExact
<1> QED
  BY Inductive, BitmapFollows, PTL
=============================================================================
