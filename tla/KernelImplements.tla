-------------------------- MODULE KernelImplements --------------------------
(***************************************************************************)
(* The kernel implements the promise of Processes.tla, under the           *)
(* refinement mapping defined here.                                        *)
(***************************************************************************)
EXTENDS Kernel

Down == mode \in {"panic", "off"}

\* What program_load() and process_setup() claim for a process.
Footprint ==
  [c \in Commands |-> [pid \in PIDs |->
     IF pid \in 1..LastSetup(c) THEN Image(ProgramFor(c, pid)) \cup {StackPage(pid)}
                                ELSE {}]]

InitialOwner == [pn \in Pages |-> PageinfoInit[pn].owner]

\* The refinement mapping: what the kernel's state is to its processes.
AbsPhase == IF Down THEN "down" ELSE IF mode = "setup" THEN "loading" ELSE "up"
AbsLive == IF Down THEN {} ELSE {p \in PIDs : p_state[p] = "P_RUNNABLE"}
AbsContext == [p \in PIDs |-> IF Down THEN ZeroRegisters ELSE Context(p)]
AbsOwner == IF Down THEN InitialOwner ELSE [pn \in Pages |-> pageinfo[pn].owner]

Promise == INSTANCE Processes WITH
  phase <- AbsPhase, program <- command, live <- AbsLive,
  context <- AbsContext, owner <- AbsOwner

\* Every behaviour of the kernel is one the processes were promised: traps,
\* scheduling and switching are stutters, a loaded process finds all its pages
\* free, and no page changes hands before the next boot.
KeepsPromise == Promise!ASpec
=============================================================================
