------------------------------ MODULE LogDump -------------------------------
(***************************************************************************)
(* The memory dumps that a TICK_LIMIT build of the kernel writes to its    *)
(* log (memdump_physical(), memdump_virtual_all() in kernel.c), and the    *)
(* analyser that reads the log afterwards (parse_log.py).  The analyser    *)
(* rejects a log in which a tick occurs twice, one whose last dump is not  *)
(* the one before the limit, and one with a dump that breaks either of the *)
(* invariants below; only then does it look for the stages of the lab.     *)
(***************************************************************************)
EXTENDS Kernel, Sequences

CONSTANTS
  HZ,        \* timer interrupts between two dumps
  CGAPage,   \* the console's page
  MaxDumps   \* bound: dumps kept, when a machine that restarts writes more

\* A run that nobody restarts fits below the bound.
ASSUME DumpAssumption ==
  /\ HZ \in Nat \ {0} /\ CGAPage \in ReservedPages
  /\ MaxDumps \in Nat /\ TickLimit <= MaxDumps * HZ

VARIABLES
  dumps,     \* the log: each dump's tick, and whether its invariants hold
  restarted  \* whether the machine has entered kernel() again

dumpVars == <<vars, dumps, restarted>>

-----------------------------------------------------------------------------
\* The contents of a dump.

\* Owners and counts are printed as unsigned bytes.
Byte(x) == x % 256

\* memdump_virtual(): what is printed of page va.
VMEntry(va) ==
  IF kmap[va].pn < 0 THEN [owner |-> 0, refcount |-> 0, perm |-> {}]
  ELSE [owner |-> Byte(pageinfo[kmap[va].pn].owner),
        refcount |-> Byte(pageinfo[kmap[va].pn].refcount), perm |-> kmap[va].perm]

\* memdump_virtual_all()
Dumped == {p \in PIDs : p_state[p] # "P_FREE"}

\* parse_log.py: processes start at KERNEL_LIMIT, 1 MiB, which is where
\* PROC_START_ADDR is.  An owner 0 is none.
CheckOwnershipInvariant ==
  \A p \in Dumped : \A va \in VPages :
    va >= ProcStart /\ VMEntry(va).owner = p /\ p # 0 => "U" \in VMEntry(va).perm

CheckCGAAccessInvariant == \A p \in Dumped : "U" \in VMEntry(CGAPage).perm

-----------------------------------------------------------------------------
\* When a dump is written.

(* Mutant: the dump comes after the tick it belongs to.                        *)
DumpNextTick ==
  IF TickLimit > 0 /\ (ticks + 1) % HZ = 0 /\ Len(dumps) < MaxDumps
  THEN Append(dumps, [tick |-> ticks + 1,
                      ok |-> CheckOwnershipInvariant /\ CheckCGAAccessInvariant])
  ELSE dumps

\* At a timer interrupt, before it is counted.
Dump ==
  IF TickLimit > 0 /\ ticks % HZ = 0 /\ Len(dumps) < MaxDumps
  THEN Append(dumps, [tick |-> ticks,
                      ok |-> CheckOwnershipInvariant /\ CheckCGAAccessInvariant])
  ELSE dumps

(* Mutant: every trap dumps.                                                   *)
TrapDumps ==
  /\ SysGetpid \/ SysYield \/ SysPageAlloc \/ PageFault
  /\ dumps' = Dump /\ UNCHANGED restarted

\* Any other trap of the process.
OtherTrap ==
  /\ SysGetpid \/ SysYield \/ SysPageAlloc \/ PageFault
  /\ UNCHANGED <<dumps, restarted>>

TimerTrap == TimerInterrupt /\ dumps' = Dump /\ UNCHANGED restarted

\* The keyboard is polled after the dump, if the trap was the timer's.
KeyTyped ==
  /\ (\E c \in KeyCommands : SoftReboot(c)) \/ QuitKey
  /\ dumps' \in IF mode = "user" THEN {dumps, Dump} ELSE {dumps}
  /\ restarted' = (restarted \/ mode' = "setup")

Reset == ResetVectorFault /\ restarted' = TRUE /\ UNCHANGED dumps

Between ==
  /\ \/ ProcessSetup \/ RunFirst \/ SchedStep \/ UserStep \/ TickLimitPoweroff
     \/ \E v \in Vectors : TrapPanics(v)
  /\ UNCHANGED <<dumps, restarted>>

DumpInit == Init /\ dumps = <<>> /\ restarted = FALSE

DumpNext == OtherTrap \/ TimerTrap \/ KeyTyped \/ Reset \/ Between

DumpSpec == DumpInit /\ [][DumpNext]_dumpVars /\ Fairness

-----------------------------------------------------------------------------
\* Properties.

\* Every dump passes the analyser's invariants, whatever pages the processes
\* have asked for by then.
DumpsAccepted == \A i \in 1 .. Len(dumps) : dumps[i].ok

\* Unless the machine is restarted (by a key, or by a process's fault), the log
\* has the dumps of ticks 0, HZ, 2 HZ, ... in order, each once: the analyser,
\* which asserts that no tick comes twice, can read it.
LogReadable ==
  /\ DumpsAccepted
  /\ ~restarted => \A i \in 1 .. Len(dumps) : dumps[i].tick = (i - 1) * HZ

\* The run that the tick limit ends has left its last dump one period before
\* the limit: parse_log.py expects 900 of a limit of 1000.
LastDumpExpected ==
  [][TickLimitPoweroff /\ ~restarted /\ TickLimit % HZ = 0 =>
       dumps # <<>> /\ dumps[Len(dumps)].tick = TickLimit - HZ]_dumpVars
=============================================================================
