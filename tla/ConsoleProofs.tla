---------------------------- MODULE ConsoleProofs ----------------------------
(***************************************************************************)
(* Proof that the shared cursor of Console.tla stays on the screen and     *)
(* comes back from the rows kept for panics, for any screen, any words and *)
(* any number of processes.                                                *)
(***************************************************************************)
EXTENDS Console, SequenceTheorems, TLAPS

-----------------------------------------------------------------------------
(* Positions on the screen *)

\* The next row begins on the screen or at its end.
LEMMA RowEnds ==
  ASSUME NEW at \in 0 .. Size - 1
  PROVE  at + Cols - CCOL(at) \in 0 .. Size
<1> DEFINE r == at \div Cols
           c == at % Cols
<1>1. Cols \in Nat /\ Cols > 0 /\ Rows \in Nat /\ at \in Nat /\ at < Rows * Cols
  BY ConsoleAssumption DEF Size
<1>2. r \in Nat /\ c \in 0 .. Cols - 1 /\ at = Cols * r + c
  BY <1>1
<1> HIDE DEF r, c
<1>3. r < Rows
  <2> SUFFICES ASSUME r >= Rows PROVE FALSE
    BY <1>1, <1>2
  <2>1. PICK k \in Nat : r = Rows + k
    <3>1. r - Rows \in Nat /\ r = Rows + (r - Rows)
      BY <1>1, <1>2
    <3> QED
      BY <3>1
  <2>2. Cols * r = Rows * Cols + Cols * k
    BY <1>1, <2>1
  <2>3. Cols * k >= 0
    BY <1>1, <2>1
  <2> QED
    BY <1>1, <1>2, <2>2, <2>3
<1>4. PICK k \in Nat : Rows = r + 1 + k
  <2>1. Rows - r - 1 \in Nat /\ Rows = r + 1 + (Rows - r - 1)
    BY <1>1, <1>2, <1>3
  <2> QED
    BY <2>1
<1>5. Rows * Cols = Cols * r + Cols + Cols * k
  BY <1>1, <1>2, <1>4
<1>6. Cols * k >= 0 /\ Cols * r >= 0 /\ Cols * r \in Nat /\ Cols * k \in Nat
  BY <1>1, <1>2, <1>4
<1>7. at + Cols - c = Cols * r + Cols
  BY <1>1, <1>2, <1>6
<1> QED
  BY <1>1, <1>2, <1>5, <1>6, <1>7 DEF Size, CCOL, c

\* The top of the screen is above the rows kept for panics, and these are on it.
LEMMA RowsInOrder ==
  /\ Size \in Nat /\ Size > 0 /\ MessagePos \in 0 .. Size
  /\ ~(CROW(0) >= MessageRow)
<1>1. Cols \in Nat /\ Cols > 0 /\ Rows \in Nat /\ Rows >= 3
  BY ConsoleAssumption
<1>2. PICK k \in Nat : Rows = 3 + k
  <2>1. Rows - 3 \in Nat /\ Rows = 3 + (Rows - 3)
    BY <1>1
  <2> QED
    BY <2>1
<1>3. Rows * Cols = 3 * Cols + k * Cols /\ (Rows - 2) * Cols = Cols + k * Cols
  BY <1>1, <1>2
<1>4. k * Cols \in Nat
  BY <1>1, <1>2
<1>5. 0 \div Cols = 0
  BY <1>1
<1> QED
  BY <1>1, <1>3, <1>4, <1>5 DEF Size, MessagePos, MessageRow, CROW

LEMMA PutcOnScreen ==
  ASSUME NEW at \in 0 .. Size, NEW screen, NEW c
  PROVE  console_putc([at |-> at, cells |-> screen], c).at \in 0 .. Size
<1> DEFINE from == IF at >= Size THEN 0 ELSE at
<1>1. from \in 0 .. Size - 1
  BY RowsInOrder
<1>2. from + Cols - CCOL(from) \in 0 .. Size
  BY <1>1, RowEnds
<1>3. from + 1 \in 0 .. Size
  BY <1>1, RowsInOrder
<1>4. console_putc([at |-> at, cells |-> screen], c).at
        = IF c = NL THEN from + Cols - CCOL(from) ELSE from + 1
  BY DEF console_putc
<1> QED
  BY <1>2, <1>3, <1>4

-----------------------------------------------------------------------------
(* The invariant *)

Process ==
  [pc : {"idle", "print", "panic", "wrap", "broken"}, at : 0 .. Size, left : Seq(Nat), calls : Int]

\* CursorReturns alone is not inductive: a process about to wrap may look at the
\* position it stored itself, not at the one another process has stored since.
\* Then that other process, still before its test, is the one to take it back.
CursorInv ==
  /\ cursorpos \in 0 .. Size
  /\ proc \in [Procs -> Process]
  /\ CROW(cursorpos) >= MessageRow =>
       \E p \in Procs : proc[p].pc = "wrap" /\ proc[p].at = cursorpos

LEMMA PanicTextType ==
  ASSUME NEW w \in Words
  PROVE  PanicText(w) \in Seq(Nat)
<1>1. w \in Seq(Nat) /\ PANIC \in Seq(Nat) /\ Colon \in Seq(Nat) /\ <<NL>> \in Seq(Nat)
       /\ <<>> \in Seq(Nat)
  BY ConsoleAssumption DEF PANIC, Colon, NL
<1>2. \A s, t \in Seq(Nat) : s \o t \in Seq(Nat)
  BY ConcatProperties
<1> QED
  BY <1>1, <1>2 DEF PanicText, Line

LEMMA CursorInvStep ==
  ASSUME CursorInv, [ConsoleNext]_consoleVars
  PROVE  CursorInv'
<1> USE DEF CursorInv
<1>1. ASSUME NEW p \in Procs, NEW w \in Words, app_printf(p, w)
      PROVE  CursorInv'
  <2>1. Clipped(cursorpos) \in 0 .. Size /\ w \in Seq(Nat) /\ proc[p].calls + 1 \in Int
    BY RowsInOrder, ConsoleAssumption DEF Clipped, Process
  <2>2. proc' \in [Procs -> Process]
    BY <1>1, <2>1 DEF app_printf, Process
  <2>3. \A q \in Procs : proc[q].pc = "wrap" => proc'[q] = proc[q]
    BY <1>1 DEF app_printf
  <2> QED
    BY <1>1, <2>2, <2>3 DEF app_printf
<1>2. ASSUME NEW p \in Procs, NEW w \in Words, UserPanic(p, w)
      PROVE  CursorInv'
  <2>1. MaxPrints \in Int /\ MessagePos \in 0 .. Size /\ PanicText(w) \in Seq(Nat)
    BY RowsInOrder, PanicTextType, ConsoleAssumption
  <2>2. proc' \in [Procs -> Process]
    BY <1>2, <2>1 DEF UserPanic, Process
  <2>3. \A q \in Procs : proc[q].pc = "wrap" => proc'[q] = proc[q]
    BY <1>2 DEF UserPanic
  <2> QED
    BY <1>2, <2>2, <2>3 DEF UserPanic
<1>3. ASSUME NEW p \in Procs, Putc(p)
      PROVE  CursorInv'
  <2> DEFINE con == console_putc([at |-> proc[p].at, cells |-> cells], Head(proc[p].left))
  <2>1. con.at \in 0 .. Size
    BY PutcOnScreen DEF Process
  <2>2. Tail(proc[p].left) \in Seq(Nat)
    BY <1>3 DEF Putc, Process
  <2>3. proc' = [proc EXCEPT ![p].at = con.at, ![p].left = Tail(@)] /\ cursorpos' = cursorpos
    BY <1>3 DEF Putc
  <2> HIDE DEF con
  <2>4. proc' \in [Procs -> Process]
    BY <2>1, <2>2, <2>3 DEF Process
  <2>5. \A q \in Procs : proc[q].pc = "wrap" => proc'[q] = proc[q]
    BY <1>3, <2>3 DEF Putc
  <2> QED
    BY <2>3, <2>4, <2>5
<1>4. ASSUME NEW p \in Procs, StoreCursor(p)
      PROVE  CursorInv'
  <2>1. proc' \in [Procs -> Process] /\ proc'[p].pc = "wrap" /\ proc'[p].at = proc[p].at
    BY <1>4 DEF StoreCursor, Process
  <2>2. cursorpos' = proc[p].at /\ proc[p].at \in 0 .. Size
    BY <1>4 DEF StoreCursor, Process
  <2> QED
    BY <2>1, <2>2
<1>5. ASSUME NEW p \in Procs, WrapCursor(p)
      PROVE  CursorInv'
  <2>1. PICK pos \in {cursorpos, proc[p].at} :
          cursorpos' = IF CROW(pos) >= MessageRow THEN 0 ELSE cursorpos
    BY <1>5 DEF WrapCursor
  <2>2. proc' \in [Procs -> Process]
    BY <1>5 DEF WrapCursor, Process
  <2>3. \A q \in Procs : q # p => proc'[q] = proc[q]
    BY <1>5 DEF WrapCursor
  <2>4. CASE CROW(pos) >= MessageRow
    BY <2>1, <2>2, <2>4, RowsInOrder
  <2>5. CASE ~(CROW(pos) >= MessageRow)
    <3>1. cursorpos' = cursorpos
      BY <2>1, <2>5
    <3>2. ASSUME CROW(cursorpos) >= MessageRow
          PROVE  \E q \in Procs : proc'[q].pc = "wrap" /\ proc'[q].at = cursorpos
      <4>1. PICK q \in Procs : proc[q].pc = "wrap" /\ proc[q].at = cursorpos
        BY <3>2
      <4>2. pos = proc[p].at /\ proc[p].at # cursorpos
        BY <2>1, <2>5, <3>2
      <4> QED
        BY <2>3, <4>1, <4>2
    <3> QED
      BY <2>2, <3>1, <3>2
  <2> QED
    BY <2>4, <2>5
<1>6. ASSUME NEW p \in Procs, SysPanic(p)
      PROVE  CursorInv'
  BY <1>6 DEF SysPanic
<1>7. ASSUME NEW w \in Words, KernelPanic(w)
      PROVE  CursorInv'
  BY <1>7 DEF KernelPanic
<1>8. CASE SoftReboot
  BY <1>8, RowsInOrder DEF SoftReboot, Idle, Process
<1>9. CASE UNCHANGED consoleVars
  BY <1>9 DEF consoleVars
<1>10. ASSUME NEW p \in Procs, ClearLastRow(p)
       PROVE  CursorInv'
  BY <1>10 DEF ClearLastRow
<1>11. ASSUME NEW p \in Procs, NEW w \in Words, PageFault(p, w)
       PROVE  CursorInv'
  <2>1. proc' \in [Procs -> Process] /\ cursorpos' = cursorpos
    BY <1>11 DEF PageFault, Process
  <2>2. \A q \in Procs : proc[q].pc = "wrap" => proc'[q] = proc[q]
    BY <1>11 DEF PageFault
  <2> QED
    BY <2>1, <2>2
<1> QED
  BY <1>1, <1>2, <1>3, <1>4, <1>5, <1>6, <1>7, <1>8, <1>9, <1>10, <1>11 DEF ConsoleNext

\* However processes are interrupted or broken, the kernel panics or the machine is
\* restarted, the shared cursor (process.c:17-31) never points past the end of
\* the screen, and is in the rows for panics only while a process that will take
\* it back is between its store and its test.
THEOREM CursorAlwaysReturns == ConsoleSpec => []CursorReturns
<1>1. ConsoleInit => CursorInv
  BY RowsInOrder DEF ConsoleInit, CursorInv, Idle, Process
<1>2. CursorInv /\ [ConsoleNext]_consoleVars => CursorInv'
  BY CursorInvStep
<1>3. CursorInv => CursorReturns
  BY DEF CursorInv, CursorReturns, CursorsOnScreen, Process
<1> QED
  BY <1>1, <1>2, <1>3, PTL DEF ConsoleSpec
=============================================================================
