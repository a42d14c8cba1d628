------------------------------ MODULE Animate -------------------------------
(***************************************************************************)
(* The picture of a process's memory that every trap redraws               *)
(* (memshow_virtual_animate() in src/lab4/kernel.c): which process it      *)
(* shows.  The process table and the tick counter are the kernel's, kept   *)
(* here as far as the picture depends on them.                             *)
(***************************************************************************)
EXTENDS Integers

CONSTANTS
  NPROC,    \* process descriptors; slot 0 is never used
  HZ,       \* timer interrupts in a second
  TickMod,  \* 2^32: `ticks` and `last_ticks` are unsigned
  Boots     \* how many processes, 1 to n, a boot may set up

ASSUME AnimateAssumption ==
  /\ NPROC \in Nat /\ HZ \in Nat /\ HZ >= 2
  /\ TickMod \in Nat /\ TickMod > HZ
  /\ Boots \subseteq 1..NPROC-1 /\ Boots # {}

Slots == 0..NPROC-1

VARIABLES
  ticks,       \* the kernel's tick counter
  live,        \* slots whose p_state is not P_FREE
  last_ticks,  \* static, in memshow_virtual_animate()
  showing,     \* static, in memshow_virtual_animate()
  drawn,       \* the process in the last picture, or 0
  stopped      \* no process can run: nothing traps

vars == <<ticks, live, last_ticks, showing, drawn, stopped>>

TypeOK ==
  /\ ticks \in 0..TickMod-1 /\ last_ticks \in 0..TickMod-1
  /\ live \subseteq Slots \ {0}
  /\ showing \in Slots /\ drawn \in Slots /\ stopped \in BOOLEAN

Init ==
  /\ ticks = 0 /\ last_ticks = 0 /\ showing = 1 /\ drawn = 0
  /\ stopped = FALSE
  /\ \E n \in Boots : live = 1..n

\* Unsigned subtraction
Elapsed == (ticks - last_ticks + TickMod) % TickMod

Due == last_ticks = 0 \/ Elapsed >= HZ \div 2

\* Variation: two steps at once
TwiceAdvanced == IF Due THEN showing + 2 ELSE showing

Advanced == IF Due THEN showing + 1 ELSE showing

\* Variation: one round is thought to be enough
NextLiveOneRound(s) ==
  CHOOSE t \in s..2*NPROC+1 :
    /\ t >= NPROC \/ t % NPROC \in live
    /\ \A u \in s..t-1 : u < NPROC /\ u % NPROC \notin live

\* Where the loop over free slots stops when it starts at s
NextLive(s) ==
  CHOOSE t \in s..2*NPROC+1 :
    /\ t > 2*NPROC \/ t % NPROC \in live
    /\ \A u \in s..t-1 : u % NPROC \notin live

InRing(s) == s % NPROC

\* memshow_virtual_animate()
Draw ==
  /\ last_ticks' = IF Due THEN ticks ELSE last_ticks
  /\ showing' = InRing(NextLive(Advanced))
  /\ drawn' = IF showing' \in live THEN showing' ELSE drawn

\* Any trap draws first; a timer interrupt then counts.  After the fault of the
\* last process, or a panic, there are no more traps.
Trap ==
  /\ ~stopped /\ Draw
  /\ stopped' \in BOOLEAN
  /\ UNCHANGED <<ticks, live>>

TimerTrap ==
  /\ ~stopped /\ Draw
  /\ ticks' = (ticks + 1) % TickMod
  /\ UNCHANGED <<live, stopped>>

\* A soft reboot clears the process table and no static variable; when a trap
\* polled the keyboard, it has drawn already.
SoftReboot ==
  /\ stopped' = FALSE
  /\ \E n \in Boots : live' = 1..n
  /\ UNCHANGED <<ticks, last_ticks, showing, drawn>>

Next == Trap \/ TimerTrap \/ SoftReboot

\* The timer goes on interrupting processes as long as there are any to run.
Spec == Init /\ [][Next]_vars /\ WF_vars(TimerTrap)

-----------------------------------------------------------------------------
(* Properties *)

\* There is always something to draw: the search, which begins anywhere in the
\* ring and in the middle of one round, never ends on a free slot while there is
\* a process, whatever reboots have done to the table since the last picture.
AlwaysDraws == [][Trap \/ TimerTrap => drawn' \in live /\ drawn' = showing']_vars

\* Every process gets its turn, over the wrap-around of the counter and of the
\* table, as long as the machine runs and the process is not rebooted away.
EveryoneDrawn ==
  \A p \in Slots : []<>(drawn = p) \/ []<>(p \notin live) \/ []<>stopped
=============================================================================
