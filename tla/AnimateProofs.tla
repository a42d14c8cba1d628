---------------------------- MODULE AnimateProofs -----------------------------
(* Proof that the search of memshow_virtual_animate() ends on a process, for   *)
(* any size of the table, any width of the counter and any boots.              *)
EXTENDS Animate, TLAPS, WellFoundedInduction

(* What the search rests on, besides the types: there is a process.            *)
RingInv == TypeOK /\ live # {}

LEMMA Sizes == NPROC \in Nat /\ NPROC >= 2 /\ HZ \in Nat /\ TickMod \in Nat \ {0}
<1>1. PICK n \in Boots : TRUE
  BY AnimateAssumption
<1>2. n \in 1..NPROC-1
  BY <1>1, AnimateAssumption
<1> QED
  BY <1>2, AnimateAssumption

LEMMA LiveSlots ==
  ASSUME RingInv
  PROVE  live \subseteq 1..NPROC-1
  BY Sizes DEF RingInv, TypeOK, Slots

LEMMA BootedRing ==
  ASSUME NEW n \in Boots
  PROVE  1..n \subseteq Slots \ {0} /\ 1..n # {}
<1>1. n \in 1..NPROC-1 /\ NPROC \in Nat
  BY AnimateAssumption
<1>2. 1 \in 1..n
  BY <1>1
<1>3. 1..n \subseteq Slots \ {0}
  BY <1>1 DEF Slots
<1> QED
  BY <1>2, <1>3

LEMMA LeastNatural ==
  ASSUME NEW T, T \subseteq Nat, T # {}
  PROVE  \E x \in T : \A y \in T : ~(y < x)
<1>1. \E x \in T : \A y \in T : ~(<<y, x>> \in OpToRel(<, Nat))
  BY NatLessThanWellFounded, WFMin, Zenon
<1>2. \A x, y \in Nat : y < x => <<y, x>> \in OpToRel(<, Nat)
  BY DEF OpToRel
<1> QED
  BY <1>1, <1>2

(* From any slot of the first round, one turn of the ring meets every slot.    *)
LEMMA MeetsSlot ==
  ASSUME NEW s \in 0..NPROC, NEW p \in 1..NPROC-1
  PROVE  \E t \in s..2*NPROC-1 : t % NPROC = p
<1>1. NPROC \in Nat /\ NPROC >= 2
  BY Sizes
<1>2. p % NPROC = p /\ (p + NPROC) % NPROC = p
  BY <1>1
<1>3. CASE s <= p
  <2>1. p \in s..2*NPROC-1
    BY <1>1, <1>3
  <2> QED
    BY <1>2, <2>1
<1>4. CASE s > p
  <2>1. p + NPROC \in s..2*NPROC-1
    BY <1>1, <1>4
  <2> QED
    BY <1>2, <2>1
<1> QED
  BY <1>1, <1>3, <1>4

(* The loop over free slots ends before it has gone round twice, on a process. *)
LEMMA SearchSucceeds ==
  ASSUME RingInv, NEW s \in 0..NPROC
  PROVE  InRing(NextLive(s)) \in live
<1>1. NPROC \in Nat /\ NPROC >= 2
  BY Sizes
<1> DEFINE hits == {t \in s..2*NPROC-1 : t % NPROC \in live}
           ends(t) == /\ t > 2*NPROC \/ t % NPROC \in live
                      /\ \A u \in s..t-1 : u % NPROC \notin live
<1>2. hits # {} /\ hits \subseteq Nat
  <2>1. PICK p \in live : TRUE
    BY DEF RingInv
  <2>2. p \in 1..NPROC-1
    BY <2>1, LiveSlots
  <2>3. PICK t \in s..2*NPROC-1 : t % NPROC = p
    BY <2>2, MeetsSlot
  <2> QED
    BY <1>1, <2>1, <2>3
<1>3. PICK t \in hits : \A u \in hits : ~(u < t)
  BY <1>2, LeastNatural
<1>4. t \in s..2*NPROC-1 /\ t % NPROC \in live
  BY <1>3
<1>5. \A u \in s..t-1 : u % NPROC \notin live
  <2>1. SUFFICES ASSUME NEW u \in s..t-1, u % NPROC \in live PROVE FALSE
    OBVIOUS
  <2>2. u \in s..2*NPROC-1 /\ u < t
    BY <1>1, <1>4
  <2>3. u \in hits
    BY <2>1, <2>2
  <2> HIDE DEF hits
  <2> QED
    BY <1>3, <2>2, <2>3
<1>6. t \in s..2*NPROC+1 /\ ends(t)
  BY <1>1, <1>4, <1>5
<1>7. NextLive(s) \in s..2*NPROC+1 /\ ends(NextLive(s))
  <2>1. NextLive(s) = CHOOSE x \in s..2*NPROC+1 : ends(x)
    BY DEF NextLive
  <2> HIDE DEF ends
  <2> QED
    BY <1>6, <2>1
<1>8. ~(NextLive(s) > 2*NPROC)
  <2>1. SUFFICES ASSUME NextLive(s) > 2*NPROC PROVE FALSE
    OBVIOUS
  <2>2. NextLive(s) \in Int /\ t \in s..NextLive(s)-1
    BY <1>1, <1>4, <1>7, <2>1
  <2> QED
    BY <1>4, <1>7, <2>2
<1> QED
  BY <1>7, <1>8 DEF InRing

LEMMA DrawsLive ==
  ASSUME RingInv, Draw
  PROVE  showing' \in live /\ drawn' = showing'
<1>1. Advanced \in 0..NPROC
  BY Sizes DEF RingInv, TypeOK, Slots, Advanced
<1>2. showing' \in live
  BY <1>1, SearchSucceeds DEF Draw
<1> QED
  BY <1>2 DEF Draw

LEMMA RingKept == RingInv /\ [Next]_vars => RingInv'
<1> SUFFICES ASSUME RingInv, [Next]_vars PROVE RingInv'
  OBVIOUS
<1>1. ASSUME Draw, live' = live
      PROVE  /\ last_ticks' \in 0..TickMod-1 /\ showing' \in Slots
             /\ drawn' \in Slots /\ live' # {} /\ live' \subseteq Slots \ {0}
  <2>1. showing' \in live /\ drawn' = showing'
    BY <1>1, DrawsLive
  <2>2. last_ticks' \in 0..TickMod-1
    BY <1>1 DEF Draw, RingInv, TypeOK
  <2> QED
    BY <1>1, <2>1, <2>2 DEF RingInv, TypeOK
<1>2. CASE Trap
  BY <1>1, <1>2 DEF Trap, RingInv, TypeOK
<1>3. CASE TimerTrap
  <2>1. ticks' \in 0..TickMod-1
    BY <1>3, Sizes DEF TimerTrap, RingInv, TypeOK
  <2> QED
    BY <1>1, <1>3, <2>1 DEF TimerTrap, RingInv, TypeOK
<1>4. CASE SoftReboot
  BY <1>4, BootedRing DEF SoftReboot, RingInv, TypeOK
<1>5. CASE UNCHANGED vars
  BY <1>5 DEF vars, RingInv, TypeOK
<1> QED
  BY <1>2, <1>3, <1>4, <1>5 DEF Next

LEMMA RingBegins == Init => RingInv
<1>1. {0, 1} \subseteq Slots /\ 0 \in 0..TickMod-1
  BY Sizes DEF Slots
<1> QED
  BY <1>1, BootedRing DEF Init, RingInv, TypeOK

(* Every trap draws a process that exists, whatever reboots have left in the   *)
(* two static variables.                                                       *)
THEOREM AlwaysAPicture == Spec => AlwaysDraws
<1>1. RingInv /\ [Next]_vars => [Trap \/ TimerTrap => drawn' \in live /\ drawn' = showing']_vars
  BY DrawsLive DEF Trap, TimerTrap
<1> QED
  BY <1>1, RingBegins, RingKept, PTL DEF Spec, AlwaysDraws
=============================================================================
