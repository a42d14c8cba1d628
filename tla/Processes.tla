----------------------------- MODULE Processes ------------------------------
(***************************************************************************)
(* What WeensyOS promises its processes, with no CPU, scheduler, trap or   *)
(* reference count in sight: each process computes as if it were alone,    *)
(* and every page a process is given was free and stays its own until the  *)
(* machine is booted again.  Kernel.tla is shown to implement this.        *)
(***************************************************************************)
EXTENDS Integers

CONSTANTS
  PIDs,           \* process numbers
  Pages,          \* physical pages
  Registers,      \* register contexts, records with fields rax and rdi
  ZeroRegisters,  \* the context a process starts with
  InitialOwner,   \* the owner of each page after boot; 0 is nobody
  Footprint       \* the pages a process gets when it is loaded, by command
                  \* and process number

VARIABLES
  phase,      \* "loading", "up" or "down"
  program,    \* the command the machine was booted with
  live,       \* processes that may take steps
  context,    \* each process's registers
  owner       \* each page's owner

avars == <<phase, program, live, context, owner>>

NoProcesses ==
  /\ live = {}
  /\ context = [p \in PIDs |-> ZeroRegisters]
  /\ owner = InitialOwner

AInit == phase = "loading" /\ program = "none" /\ NoProcesses

\* A boot, cold or soft, with command c.
Boot(c) == phase' = "loading" /\ program' = c /\ NoProcesses'

\* A process is loaded: all of its pages are free, and become its own.
Load(p) ==
  /\ phase = "loading" /\ p \notin live
  /\ \A pn \in Footprint[program][p] : pn \in Pages /\ owner[pn] = 0
  /\ owner' = [pn \in Pages |-> IF pn \in Footprint[program][p] THEN p
                                                                ELSE owner[pn]]
  /\ live' = live \cup {p}
  /\ context' = [context EXCEPT ![p] = ZeroRegisters]
  /\ UNCHANGED <<phase, program>>

Start == phase = "loading" /\ phase' = "up" /\ UNCHANGED <<program, live, context, owner>>

\* A live process computes, or a system call of its own returns.
Compute(p) ==
  /\ phase = "up" /\ p \in live
  /\ \E r \in Registers : context' = [context EXCEPT ![p] = r]
  /\ UNCHANGED <<phase, program, live, owner>>

\* sys_page_alloc(): the page is free and the address exact, or the call fails.
PageAlloc(p) ==
  /\ phase = "up" /\ p \in live
  /\ LET addr == context[p].rdi
     IN /\ addr.aligned /\ addr.pn \in Pages /\ owner[addr.pn] = 0
        /\ owner' = [owner EXCEPT ![addr.pn] = p]
        /\ context' = [context EXCEPT ![p].rax = 0]
  /\ UNCHANGED <<phase, program, live>>

\* A fault ends a process; its pages stay its own.
Break(p) ==
  /\ phase = "up" /\ p \in live
  /\ live' = live \ {p}
  /\ UNCHANGED <<phase, program, context, owner>>

\* Panic or power-off: there are no processes until the next boot.
GoDown == phase' = "down" /\ UNCHANGED program /\ NoProcesses'

ANext ==
  \/ \E p \in PIDs : Load(p) \/ Compute(p) \/ PageAlloc(p) \/ Break(p)
  \/ Start \/ GoDown
  \/ \E c \in DOMAIN Footprint : Boot(c)

ASpec == AInit /\ [][ANext]_avars
=============================================================================
