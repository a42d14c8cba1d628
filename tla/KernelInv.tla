----------------------------- MODULE KernelInv ------------------------------
(***************************************************************************)
(* The inductive invariant behind the safety properties of Kernel.tla.     *)
(***************************************************************************)
EXTENDS Kernel

\* The machine is neither stopped nor in fail()'s loop.
Alive == mode \in {"setup", "user", "sched"}

\* How many processes exist; they have the numbers 1 to NSetUp.
NSetUp == IF mode = "setup" THEN setup - 1 ELSE LastSetup(command)
SetUp == 1..NSetUp

\* The pages process_setup() claims for process pid
Claim(pid) == Image(ProgramFor(command, pid)) \cup {StackPage(pid)}

\* The process table is filled from slot 1 up and never emptied.
ProcsInv ==
  /\ \A p \in PIDs : p_state[p] # "P_FREE" <=> p \in SetUp
  /\ \A p \in SetUp : p_pagetable[p] = kernel_pagetable
  /\ mode = "setup" =>
       /\ setup <= LastSetup(command) + 1
       /\ \A p \in SetUp : p_state[p] = "P_RUNNABLE"
  /\ Running => current \in SetUp
  /\ mode = "user" => p_state[current] = "P_RUNNABLE"

\* References to the kernel's page table: its own, and one for each process.
TableInv == pageinfo[kernel_pagetable].refcount = 1 + NSetUp

\* Owners exist, and until the first process runs nothing but its own claim has
\* been given to any of them.
OwnersInv ==
  \A pn \in Pages : pageinfo[pn].owner > 0 =>
    /\ pageinfo[pn].owner \in SetUp
    /\ mode = "setup" => pn \in Claim(pageinfo[pn].owner)

ClaimsInv ==
  \A pid \in SetUp : \A pn \in Claim(pid) :
    pn \in Pages /\ pageinfo[pn].owner = pid

\* What holds of every page in every mode.
PageInv ==
  \A pn \in Pages :
    /\ pn \in ReservedPages =>
         pageinfo[pn].owner = PO_RESERVED /\ pageinfo[pn].refcount = 1
    /\ pn \in KernelPages =>
         /\ pageinfo[pn].owner = PO_KERNEL
         /\ pn = kernel_pagetable \/ pageinfo[pn].refcount = 1
         /\ pageinfo[pn].refcount > 0
    /\ pn \notin ReservedPages \cup KernelPages =>
         \/ pageinfo[pn].owner = PO_FREE /\ pageinfo[pn].refcount = 0
         \/ pageinfo[pn].owner \in PIDs \ {0} /\ pageinfo[pn].refcount = 1

\* The inductive invariant: it relates the process table, the reference counts
\* and the owners, none of which bounds the others by itself.
IInv ==
  /\ TypeOK
  /\ PageInv
  /\ kmap = KernelMap
  /\ Alive => ProcsInv /\ TableInv /\ OwnersInv /\ ClaimsInv
=============================================================================
