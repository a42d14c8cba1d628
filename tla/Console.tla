------------------------------ MODULE Console -------------------------------
(***************************************************************************)
(* The CGA console of lab4 and its writers: console_putc() and             *)
(* console_vprintf() in lib.c, app_printf() and panic() of the processes   *)
(* in process.c, the line p-forkexit.c clears, panic() of the kernel in    *)
(* k-hardware.c and the page fault message in kernel.c.  The screen and    *)
(* `cursorpos' are mapped into every process.  A timer interrupt may come  *)
(* between any two characters of a process, and between the store of       *)
(* cursorpos and the test that wraps it; the kernel prints without         *)
(* interruption.                                                           *)
(***************************************************************************)
EXTENDS Integers, Sequences, SequencesExt

CONSTANTS
  Procs,       \* the processes
  Rows, Cols,  \* CONSOLE_ROWS, CONSOLE_COLUMNS
  Words,       \* what app_printf(), panic() and a page fault print, formatted
  MaxPrints    \* bound: calls of a process between two boots

ASSUME ConsoleAssumption ==
  /\ Rows \in Nat /\ Rows >= 3 /\ Cols \in Nat \ {0} /\ MaxPrints \in Nat
  /\ Words \subseteq Seq(Nat)

VARIABLES
  cells,      \* console[]
  cursorpos,  \* shared by the kernel and every process
  proc,       \* what each process is at: see Idle
  panicked,   \* the kernel is in fail()
  log,        \* what panic() wrote to the log since the kernel started
  said        \* history: a panic's author and text; the author is "none"
              \* before there is one, and once another process or a page fault
              \* message has written over the text

consoleVars == <<cells, cursorpos, proc, panicked, log, said>>
Nobody == [by |-> "none", text |-> <<>>]

Size == Rows * Cols
Cells == 0 .. Size - 1
CROW(cpos) == cpos \div Cols
CCOL(cpos) == cpos % Cols
MessageRow == Rows - 2           \* row 23 of 25
MessagePos == MessageRow * Cols  \* CPOS(23, 0)
FaultPos == (Rows - 1) * Cols    \* CPOS(24, 0)

NL    == 10
Blank == 32
PANIC == <<80, 33>>              \* stands for "PANIC"
Colon == <<58>>                  \* stands for ": "

-----------------------------------------------------------------------------
\* lib.c.

\* A character at the cursor, or blanks to the end of its row.
console_putc(con, c) ==
  LET at  == IF con.at >= Size THEN 0 ELSE con.at
      end == IF c = NL THEN at + Cols - CCOL(at) ELSE at + 1
  IN  [at |-> end,
       cells |-> [i \in Cells |-> IF i \in at .. end - 1 THEN IF c = NL THEN Blank ELSE c
                                  ELSE con.cells[i]]]

\* console_vprintf() before its first character.
Clipped(cpos) == IF cpos < 0 \/ cpos >= Size THEN 0 ELSE cpos

\* A whole call.
console_printf(screen, cpos, word) ==
  FoldLeft(console_putc, [at |-> Clipped(cpos), cells |-> screen], word)

-----------------------------------------------------------------------------
\* process.c.

\* A panic's text as it was, unless this step writes into its rows
SaidUnlessCovered ==
  IF \E i \in Cells : i >= MessagePos /\ cells'[i] # cells[i] THEN Nobody ELSE said

Idle == [pc |-> "idle", at |-> 0, left |-> <<>>, calls |-> 0]

\* app_printf(): takes the shared cursor ...
app_printf(p, w) ==
  /\ ~panicked /\ proc[p].pc = "idle" /\ proc[p].calls < MaxPrints
  /\ proc' = [proc EXCEPT ![p] = [pc |-> "print", at |-> Clipped(cursorpos),
                                  left |-> w, calls |-> @.calls + 1]]
  /\ UNCHANGED <<cells, cursorpos, panicked, log, said>>

\* ... a process writes a character ...
Putc(p) ==
  /\ ~panicked /\ proc[p].pc \in {"print", "panic"} /\ proc[p].left # <<>>
  /\ LET con == console_putc([at |-> proc[p].at, cells |-> cells], Head(proc[p].left))
     IN  /\ cells' = con.cells
         /\ proc' = [proc EXCEPT ![p].at = con.at, ![p].left = Tail(@)]
         /\ said' = IF p = said.by THEN said ELSE SaidUnlessCovered
  /\ UNCHANGED <<cursorpos, panicked, log>>

\* ... stores the cursor ...
StoreCursor(p) ==
  /\ ~panicked /\ proc[p].pc = "print" /\ proc[p].left = <<>>
  /\ cursorpos' = proc[p].at
  /\ proc' = [proc EXCEPT ![p].pc = "wrap"]
  /\ UNCHANGED <<cells, panicked, log, said>>

(* Mutant: only a cursor past the screen is wrapped.                           *)
WrapAtEnd(p) ==
  /\ ~panicked /\ proc[p].pc = "wrap"
  /\ cursorpos' = IF cursorpos >= Size THEN 0 ELSE cursorpos
  /\ proc' = [proc EXCEPT ![p].pc = "idle"]
  /\ UNCHANGED <<cells, panicked, log, said>>

\* ... and wraps it.  The test may use the value stored or read it again.
WrapCursor(p) ==
  /\ ~panicked /\ proc[p].pc = "wrap"
  /\ \E pos \in {cursorpos, proc[p].at} :
       cursorpos' = IF CROW(pos) >= MessageRow THEN 0 ELSE cursorpos
  /\ proc' = [proc EXCEPT ![p].pc = "idle"]
  /\ UNCHANGED <<cells, panicked, log, said>>

\* A newline is added unless there is one.
Line(w) == w \o (IF w # <<>> /\ Last(w) = NL THEN <<>> ELSE <<NL>>)

\* What a process's panic() prints.
PanicText(w) == PANIC \o Colon \o Line(w)

\* panic(): prints its own message, then calls the kernel's.
UserPanic(p, w) ==
  /\ ~panicked /\ proc[p].pc = "idle" /\ proc[p].calls < MaxPrints
  /\ proc' = [proc EXCEPT ![p] = [pc |-> "panic", at |-> MessagePos,
                                  left |-> PanicText(w), calls |-> MaxPrints]]
  /\ said' = IF said = Nobody THEN [by |-> p, text |-> PanicText(w)] ELSE said
  /\ UNCHANGED <<cells, cursorpos, panicked, log>>

\* p-forkexit.c: a process that got a page clears the last row, which is never 0.
ClearLastRow(p) ==
  /\ ~panicked /\ proc[p].pc = "idle"
  /\ cells' = console_printf(cells, FaultPos, <<NL>>).cells
  /\ said' = SaidUnlessCovered
  /\ UNCHANGED <<cursorpos, proc, panicked, log>>

-----------------------------------------------------------------------------
\* kernel.c, exception(): a process faults, in its own code or on an argument of
\* its printf; the kernel says so in the last row and never runs it again.
PageFault(p, w) ==
  /\ ~panicked /\ proc[p].pc \in {"idle", "print"}
  /\ cells' = console_printf(cells, FaultPos, Line(w)).cells
  /\ proc' = [proc EXCEPT ![p].pc = "broken"]
  /\ said' = SaidUnlessCovered
  /\ UNCHANGED <<cursorpos, panicked, log>>

-----------------------------------------------------------------------------
\* k-hardware.c: the kernel's panic(), to screen and log.

(* Mutant: panic(NULL) ends its line.                                          *)
BarePanicLine(screen) ==
  [cells |-> console_printf(screen, MessagePos, PANIC \o <<NL>>).cells, log |-> PANIC]

\* panic(NULL): the process has said the rest.
bare_panic(screen) ==
  [cells |-> console_printf(screen, MessagePos, PANIC).cells, log |-> PANIC]

\* panic(format): the line is ended unless it just did.
kernel_panic(screen, w) ==
  LET head == console_printf(screen, MessagePos, PANIC \o Colon)
      body == console_printf(head.cells, head.at, w)
      end  == IF CCOL(body.at) # 0 THEN <<NL>> ELSE <<>>
  IN  [cells |-> console_printf(body.cells, body.at, end).cells,
       log |-> PANIC \o Colon \o w \o end]

\* INT_SYS_PANIC, the last thing a process's panic() does.
SysPanic(p) ==
  /\ ~panicked /\ proc[p].pc = "panic" /\ proc[p].left = <<>>
  /\ cells' = bare_panic(cells).cells
  /\ log' = bare_panic(cells).log
  /\ panicked' = TRUE
  /\ said' = IF said.by = p THEN said ELSE Nobody
  /\ UNCHANGED <<cursorpos, proc>>

\* A failed assertion or an unexpected exception.
KernelPanic(w) ==
  /\ ~panicked
  /\ cells' = kernel_panic(cells, w).cells
  /\ log' = kernel_panic(cells, w).log
  /\ said' = [by |-> "kernel", text |-> log']
  /\ panicked' = TRUE
  /\ UNCHANGED <<cursorpos, proc>>

\* kernel() clears the console; fail() is left this way too.
SoftReboot ==
  /\ cells' = [i \in Cells |-> Blank] /\ cursorpos' = 0
  /\ proc' = [p \in Procs |-> Idle]
  /\ panicked' = FALSE /\ log' = <<>> /\ said' = Nobody

ConsoleInit ==
  /\ cells = [i \in Cells |-> Blank] /\ cursorpos = 0
  /\ proc = [p \in Procs |-> Idle]
  /\ panicked = FALSE /\ log = <<>> /\ said = Nobody

ConsoleNext ==
  \/ \E p \in Procs :
       \/ \E w \in Words : app_printf(p, w) \/ UserPanic(p, w) \/ PageFault(p, w)
       \/ Putc(p) \/ StoreCursor(p) \/ WrapCursor(p) \/ SysPanic(p) \/ ClearLastRow(p)
  \/ \E w \in Words : KernelPanic(w)
  \/ SoftReboot

ConsoleSpec == ConsoleInit /\ [][ConsoleNext]_consoleVars

-----------------------------------------------------------------------------
\* Properties.

\* Every cursor, the shared one and those of calls under way, is on the screen
\* or just past it; console_show_cursor() asks for no more.
CursorsOnScreen ==
  /\ cursorpos \in 0 .. Size
  /\ \A p \in Procs : proc[p].at \in 0 .. Size

\* The shared cursor is below the rows kept for panics, or a process that put
\* it there is about to take it back, whoever else stores it meanwhile.
CursorReturns ==
  /\ CursorsOnScreen
  /\ CROW(cursorpos) >= MessageRow => \E p \in Procs : proc[p].pc = "wrap"

\* Printing the text where panics print would change nothing.
Shows(text) == cells = console_printf(cells, MessagePos, text).cells

\* A text that stays in the rows from there on.
Fits(text) == MessagePos + Len(text) <= Size

\* Once the kernel has stopped the screen says so, and shows the whole message
\* unless, before it stopped, another process or a page fault message has written
\* over it: the text the kernel stops with, cut to a bare "PANIC" for a process,
\* does not cover the process's message.
PanicShows ==
  panicked => /\ Shows(PANIC) /\ SubSeq(log, 1, Len(PANIC)) = PANIC
              /\ (Fits(said.text) => Shows(said.text))
=============================================================================
