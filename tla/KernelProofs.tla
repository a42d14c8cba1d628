---------------------------- MODULE KernelProofs ----------------------------
(***************************************************************************)
(* Proofs about Kernel.tla, for every number of processes and pages, every *)
(* layout and every set of images the assumptions allow: its invariants,   *)
(* then traps, the scheduler and the tick limit, then that every step of   *)
(* it is, under the mapping of KernelImplements.tla, a step Processes.tla  *)
(* promised, or no step at all; last, the log of LogDump.tla.              *)
(***************************************************************************)
EXTENDS KernelInv, KernelImplements, LogDump, FiniteSetTheorems, TLAPS

ParamFacts ==
  /\ NPROC \in Nat /\ NPages \in Nat /\ NVPages \in Nat
  /\ ProcStart \in Nat /\ ProcSize \in Nat /\ ProcSize > 0
  /\ NAlloc \in Nat /\ NAlloc > 0 /\ NAlloc < NPROC
  /\ Pages \subseteq VPages
  /\ 0 \in Pages /\ 0 \in PIDs /\ 1 \in PIDs
  /\ kernel_pagetable \in Pages /\ kernel_pagetable \in KernelPages
  /\ KernelPages \subseteq Pages /\ ReservedPages \subseteq Pages
  /\ TickMod \in Nat /\ 0 \in 0..TickMod-1
  /\ ZeroRegisters \in Registers

\* The assumptions, in the form the proofs use.
LEMMA Params == ParamFacts
<1>1. 0 \in Pages
  BY SizeAssumption, LayoutAssumption DEF Pages, NULL
<1>2. kernel_pagetable \in KernelPages /\ kernel_pagetable \in Pages
  BY LayoutAssumption
<1>3. ZeroRegisters \in Registers
  BY SizeAssumption, AddressAssumption DEF ZeroRegisters, Registers, PIDs
<1>4. TickMod \in Nat /\ 0 \in 0..TickMod-1
  BY BuildAssumption
<1>5. Pages \subseteq VPages
  BY SizeAssumption DEF Pages, VPages
<1> QED
  BY <1>1, <1>2, <1>3, <1>4, <1>5, SizeAssumption, LayoutAssumption
  DEF ParamFacts, PIDs

\* How many processes a command sets up.
LEMMA LastSetupRange ==
  ASSUME NEW c
  PROVE  LastSetup(c) \in 1..NAlloc
BY Params DEF LastSetup, ParamFacts

\* The page information and the mapping after boot.
LEMMA AfterBoot ==
  /\ PageinfoInit \in [Pages -> [owner : -2..NPROC-1, refcount : 0..NPROC]]
  /\ KernelMap \in [VPages -> PTE]
  /\ \A pn \in Pages :
       /\ pn \in ReservedPages => PageinfoInit[pn] = [owner |-> PO_RESERVED, refcount |-> 1]
       /\ pn \in KernelPages => PageinfoInit[pn] = [owner |-> PO_KERNEL, refcount |-> 1]
       /\ pn \notin ReservedPages \cup KernelPages
            => PageinfoInit[pn] = [owner |-> PO_FREE, refcount |-> 0]
<1>1. PageinfoInit \in [Pages -> [owner : -2..NPROC-1, refcount : 0..NPROC]]
  BY Params DEF ParamFacts, PageinfoInit, PO_FREE, PO_RESERVED, PO_KERNEL
<1>2. KernelMap \in [VPages -> PTE]
  BY Params DEF ParamFacts, KernelMap, UserPTE, NotMapped, PTE
<1>3. ASSUME NEW pn \in Pages
      PROVE  /\ pn \in ReservedPages => PageinfoInit[pn] = [owner |-> PO_RESERVED, refcount |-> 1]
             /\ pn \in KernelPages => PageinfoInit[pn] = [owner |-> PO_KERNEL, refcount |-> 1]
             /\ pn \notin ReservedPages \cup KernelPages
                  => PageinfoInit[pn] = [owner |-> PO_FREE, refcount |-> 0]
  BY LayoutAssumption DEF PageinfoInit
<1> QED
  BY <1>1, <1>2, <1>3

\* Mapping physical pages onto themselves leaves the identity map as it is.
LEMMA MapPagesIdentity ==
  ASSUME NEW S, S \subseteq Pages
  PROVE  MapPages(KernelMap, S) = KernelMap
BY Params DEF ParamFacts, MapPages, KernelMap

-----------------------------------------------------------------------------
(* The inductive invariant *)

LEMMA InitInv == Init => IInv
<1> SUFFICES ASSUME Init PROVE IInv
  OBVIOUS
<1> USE Params DEF ParamFacts
<1>1. TypeOK
  BY AfterBoot DEF Init, TypeOK, Modes, Commands, ProcState, NULL
<1>2. PageInv
  BY AfterBoot DEF Init, PageInv, PO_FREE, PO_RESERVED, PO_KERNEL
<1>3. SetUp = {} /\ NSetUp = 0
  BY DEF Init, SetUp, NSetUp
<1>4. ProcsInv
  BY <1>3, LastSetupRange DEF Init, ProcsInv, Running
<1>5. TableInv /\ OwnersInv /\ ClaimsInv
  <2>1. pageinfo[kernel_pagetable].refcount = 1
    BY AfterBoot DEF Init
  <2>2. \A pn \in Pages : ~(pageinfo[pn].owner > 0)
    BY AfterBoot DEF Init, PO_FREE, PO_RESERVED, PO_KERNEL
  <2> QED
    BY <1>3, <2>1, <2>2 DEF TableInv, OwnersInv, ClaimsInv
<1> QED
  BY <1>1, <1>2, <1>4, <1>5 DEF IInv, Init

\* A boot, whatever the state before it.
LEMMA BootInv ==
  ASSUME NEW c \in Commands, KernelInit(c), current' \in PIDs, ticks' \in 0..TickMod-1
  PROVE  IInv'
<1> USE Params DEF ParamFacts
<1>1. TypeOK'
  BY AfterBoot DEF KernelInit, TypeOK, Modes, ProcState, NULL
<1>2. PageInv'
  BY AfterBoot DEF KernelInit, PageInv, PO_FREE, PO_RESERVED, PO_KERNEL
<1>3. SetUp' = {} /\ NSetUp' = 0
  BY DEF KernelInit, SetUp, NSetUp
<1>4. ProcsInv'
  BY <1>3, LastSetupRange DEF KernelInit, ProcsInv, Running
<1>5. (TableInv /\ OwnersInv /\ ClaimsInv)'
  <2>1. pageinfo'[kernel_pagetable].refcount = 1
    BY AfterBoot DEF KernelInit
  <2>2. \A pn \in Pages : ~(pageinfo'[pn].owner > 0)
    BY AfterBoot DEF KernelInit, PO_FREE, PO_RESERVED, PO_KERNEL
  <2> QED
    BY <1>3, <2>1, <2>2 DEF TableInv, OwnersInv, ClaimsInv
<1> QED
  BY <1>1, <1>2, <1>4, <1>5 DEF IInv, KernelInit

\* Steps that leave memory and the process table's shape alone.
LEMMA QuietStep ==
  ASSUME IInv, TypeOK',
         UNCHANGED <<memory, command, p_pagetable>>,
         \A p \in PIDs : (p_state[p] = "P_FREE") <=> (p_state'[p] = "P_FREE"),
         Alive' => Alive /\ NSetUp' = NSetUp,
         mode' = "setup" => mode = "setup" /\ UNCHANGED <<setup, p_state>>,
         Running' => current' \in SetUp,
         mode' = "user" => p_state'[current'] = "P_RUNNABLE"
  PROVE  IInv'
<1> USE DEF memory
<1>1. PageInv' /\ (kmap = KernelMap)'
  BY DEF IInv, PageInv, KernelMap
<1>2. ASSUME Alive'
      PROVE  (ProcsInv /\ TableInv /\ OwnersInv /\ ClaimsInv)'
  <2>1. Alive /\ SetUp' = SetUp /\ NSetUp' = NSetUp
    BY <1>2 DEF SetUp
  <2>2. \A pid : Claim(pid)' = Claim(pid)
    BY DEF Claim
  <2>3. ProcsInv /\ TableInv /\ OwnersInv /\ ClaimsInv
    BY <2>1 DEF IInv
  <2>4. ProcsInv'
    BY <2>1, <2>3 DEF ProcsInv, Running
  <2>5. TableInv'
    BY <2>1, <2>3 DEF TableInv
  <2>6. OwnersInv'
    BY <2>1, <2>2, <2>3 DEF OwnersInv
  <2>7. ClaimsInv'
    BY <2>1, <2>2, <2>3 DEF ClaimsInv
  <2> QED
    BY <2>4, <2>5, <2>6, <2>7
<1> QED
  BY <1>1, <1>2 DEF IInv

\* Processes that exist have descriptors, and number 0 is not among them.
LEMMA SetUpPIDs ==
  ASSUME IInv, Alive
  PROVE  /\ NSetUp \in 0..NAlloc
         /\ SetUp \subseteq PIDs \ {0}
         /\ Running => NSetUp = LastSetup(command) /\ current \in SetUp
<1>1. NSetUp \in 0..NAlloc
  BY LastSetupRange, Params DEF IInv, TypeOK, NSetUp, ParamFacts
<1> QED
  BY <1>1, Params DEF IInv, Alive, ProcsInv, SetUp, NSetUp, Running, PIDs, ParamFacts

LEMMA RunFirstInv ==
  ASSUME IInv, RunFirst
  PROVE  IInv'
<1> USE Params DEF ParamFacts
<1>1. Alive /\ NSetUp = LastSetup(command) /\ NSetUp' = NSetUp
  <2>1. mode = "setup" /\ Alive /\ mode' = "user" /\ command' = command
    BY DEF RunFirst, Run, Alive
  <2>2. LastSetup(command) \in 1..NAlloc /\ setup \in Nat /\ setup > LastSetup(command)
    BY LastSetupRange DEF IInv, TypeOK, RunFirst
  <2>3. setup = LastSetup(command) + 1
    BY <2>1, <2>2 DEF IInv, ProcsInv
  <2> QED
    BY <2>1, <2>2, <2>3 DEF NSetUp
<1>2. 1 \in SetUp /\ p_state[1] = "P_RUNNABLE"
  BY <1>1, LastSetupRange DEF IInv, ProcsInv, SetUp, RunFirst
<1>3. TypeOK'
  BY DEF IInv, TypeOK, RunFirst, Run, procs, memory, Modes, PIDs
<1> QED
  BY <1>1, <1>2, <1>3, QuietStep DEF RunFirst, Run, Running, procs

LEMMA SchedStepInv ==
  ASSUME IInv, SchedStep
  PROVE  IInv'
<1> USE Params DEF ParamFacts
<1> DEFINE pid == NextSlot(scan)
<1>1. pid \in PIDs
  BY DEF IInv, TypeOK, NextSlot, PIDs
<1>2. TypeOK'
  BY <1>1 DEF IInv, TypeOK, SchedStep, Run, procs, memory, Modes
<1>3. Alive /\ Running /\ NSetUp' = NSetUp
  BY DEF Alive, Running, SchedStep, Run, NSetUp
<1>4. CASE p_state[pid] = "P_RUNNABLE"
  <2>1. pid \in SetUp
    BY <1>1, <1>3, <1>4 DEF IInv, ProcsInv
  <2> QED
    BY <1>2, <1>3, <1>4, <2>1, QuietStep DEF SchedStep, Run, procs
<1>5. CASE p_state[pid] # "P_RUNNABLE"
  BY <1>2, <1>3, <1>5, QuietStep, SetUpPIDs DEF SchedStep, procs
<1> QED
  BY <1>4, <1>5

\* The trap frame and a result are registers.
LEMMA SavedType ==
  ASSUME TypeOK
  PROVE  /\ SavedRegisters \in [PIDs -> Registers]
         /\ \A rax \in {-1} \cup PIDs :
              [SavedRegisters EXCEPT ![current].rax = rax] \in [PIDs -> Registers]
BY DEF TypeOK, SavedRegisters, Registers

\* Leaving exception() through schedule().
LEMMA ScheduleInv ==
  ASSUME IInv, mode = "user", Schedule, p_registers' = SavedRegisters,
         ticks' \in 0..TickMod-1, p_state' \in [PIDs -> ProcState],
         \A p \in PIDs : (p_state[p] = "P_FREE") <=> (p_state'[p] = "P_FREE"),
         UNCHANGED <<command, setup, p_pagetable, memory>>
  PROVE  IInv'
<1>1. TypeOK'
  BY SavedType, Params DEF IInv, TypeOK, Schedule, memory, Modes, ParamFacts
<1>2. Alive /\ Running /\ NSetUp' = NSetUp
  BY DEF Alive, Running, Schedule, NSetUp
<1> QED
  BY <1>1, <1>2, QuietStep, SetUpPIDs DEF Schedule

\* Leaving exception() for the process that trapped, memory unchanged.
LEMMA ReturnInv ==
  ASSUME IInv, mode = "user", NEW rax \in {-1} \cup PIDs, ReturnWith(rax),
         UNCHANGED <<command, setup, p_state, p_pagetable, memory, ticks>>
  PROVE  IInv'
<1>1. p_registers' \in [PIDs -> Registers]
  BY SavedType DEF IInv, ReturnWith
<1>2. TypeOK'
  BY <1>1, Params DEF IInv, TypeOK, ReturnWith, Run, memory, Modes, ParamFacts, PIDs
<1>3. Alive /\ Running /\ NSetUp' = NSetUp
  BY DEF Alive, Running, ReturnWith, Run, NSetUp
<1>4. current' = current /\ p_state[current] = "P_RUNNABLE"
  BY <1>3 DEF IInv, ProcsInv, ReturnWith, Run
<1> QED
  BY <1>2, <1>3, <1>4, QuietStep, SetUpPIDs DEF ReturnWith, Run

\* Leaving for good.
LEMMA StopInv ==
  ASSUME IInv, mode' \in {"panic", "off"}, cpu' \in Registers,
         p_registers' \in [PIDs -> Registers],
         UNCHANGED <<command, setup, p_state, p_pagetable, current, scan, memory, ticks>>
  PROVE  IInv'
<1>1. TypeOK'
  BY DEF IInv, TypeOK, memory, Modes
<1> QED
  BY <1>1, QuietStep DEF Alive, Running

\* sys_page_alloc() takes a page nobody claims.
LEMMA PageAllocInv ==
  ASSUME IInv, SysPageAlloc
  PROVE  IInv'
<1> USE Params DEF ParamFacts
<1>1. Alive /\ mode = "user" /\ current \in SetUp /\ current \in PIDs \ {0}
  <2>1. mode = "user" /\ Alive /\ Running
    BY DEF SysPageAlloc, Entered, Alive, Running
  <2> QED
    BY <2>1, SetUpPIDs
<1>2. CASE ~Assignable(pageinfo, cpu.rdi)
  <2>1. ReturnWith(-1) /\ UNCHANGED <<command, setup, p_state, p_pagetable, memory, ticks>>
    BY <1>2 DEF SysPageAlloc
  <2> QED
    BY <1>1, <2>1, ReturnInv
<1>3. CASE Assignable(pageinfo, cpu.rdi)
  <2> DEFINE pn == cpu.rdi.pn
  <2>1. /\ pn \in Pages /\ pageinfo[pn].refcount = 0
        /\ pageinfo' = Assign(pageinfo, pn, current)
        /\ kmap' = MapPages(kmap, {pn})
        /\ ReturnWith(0)
        /\ UNCHANGED <<command, setup, p_state, p_pagetable, ticks>>
    BY <1>3 DEF SysPageAlloc, Assignable
  <2>2. /\ pageinfo'[pn] = [owner |-> current, refcount |-> 1]
        /\ \A q \in Pages \ {pn} : pageinfo'[q] = pageinfo[q]
        /\ pageinfo' \in [Pages -> [owner : -2..NPROC-1, refcount : 0..NPROC]]
    <3>1. pageinfo \in [Pages -> [owner : -2..NPROC-1, refcount : 0..NPROC]]
      BY DEF IInv, TypeOK
    <3>2. current \in -2..NPROC-1 /\ 1 \in 0..NPROC
      BY <1>1 DEF IInv, TypeOK, PIDs
    <3> HIDE DEF pn
    <3> QED
      BY <2>1, <3>1, <3>2 DEF Assign
  <2>3. mode' = "user" /\ current' = current /\ scan' = 0 /\ cpu' = p_registers'[current]
    BY <2>1 DEF ReturnWith, Run
  <2>4. kmap' = KernelMap
    BY <2>1, MapPagesIdentity DEF IInv
  <2>5. TypeOK'
    <3>1. p_registers' \in [PIDs -> Registers]
      BY <2>1, SavedType DEF IInv, ReturnWith
    <3>2. KernelMap \in [VPages -> PTE]
      BY AfterBoot
    <3> QED
      BY <1>1, <2>1, <2>2, <2>3, <2>4, <3>1, <3>2 DEF IInv, TypeOK, Modes
  <2>6. PageInv'
    BY <1>1, <2>1, <2>2 DEF IInv, PageInv
  <2>7. SetUp' = SetUp /\ NSetUp' = NSetUp /\ \A pid : Claim(pid)' = Claim(pid)
    BY <1>1, <2>1, <2>3 DEF SetUp, NSetUp, Claim
  <2>8. ProcsInv'
    BY <1>1, <2>1, <2>3, <2>7 DEF IInv, ProcsInv, Running
  <2>9. TableInv'
    <3>1. pn # kernel_pagetable
      BY <2>1 DEF IInv, PageInv
    <3> QED
      BY <1>1, <2>2, <2>7, <3>1 DEF IInv, TableInv
  <2>10. OwnersInv'
    BY <1>1, <2>2, <2>3, <2>7 DEF IInv, OwnersInv
  <2>11. ClaimsInv'
    <3> SUFFICES ASSUME NEW pid \in SetUp, NEW q \in Claim(pid)
                 PROVE  q \in Pages /\ pageinfo'[q].owner = pid
      BY <2>7 DEF ClaimsInv
    <3>1. q \in Pages /\ pageinfo[q].owner = pid /\ pid \in PIDs \ {0}
      BY <1>1, SetUpPIDs DEF IInv, ClaimsInv
    <3>2. q # pn
      BY <2>1, <3>1 DEF IInv, PageInv, PO_RESERVED, PO_KERNEL, PO_FREE, PIDs
    <3> QED
      BY <2>2, <3>1, <3>2
  <2> QED
    BY <2>4, <2>5, <2>6, <2>8, <2>9, <2>10, <2>11 DEF IInv
<1> QED
  BY <1>2, <1>3

-----------------------------------------------------------------------------
(* process_setup() *)

\* The regions of two processes of the allocator command do not overlap.
LEMMA Regions ==
  ASSUME NEW p \in Nat, NEW q \in Nat, 1 <= q, q < p
  PROVE  /\ ProcSize * (q - 1) <= ProcSize * (p - 1)
         /\ ProcSize * (p - 1) <= ProcSize * p - 1
         /\ ProcSize * q # ProcSize * p
<1> USE Params DEF ParamFacts
<1>1. PICK d \in Nat : p = q + d /\ d >= 1
  <2>1. p - q \in Nat /\ p = q + (p - q) /\ p - q >= 1
    OBVIOUS
  <2> QED
    BY <2>1
<1>2. ProcSize * p = ProcSize * q + ProcSize * d
  BY <1>1
<1>3. ProcSize * d >= ProcSize
  BY <1>1
<1>4. ProcSize * (p - 1) = ProcSize * p - ProcSize
  OBVIOUS
<1>5. ProcSize * (q - 1) = ProcSize * q - ProcSize
  OBVIOUS
<1>6. ProcSize * p \in Nat /\ ProcSize * q \in Nat /\ ProcSize * d \in Nat
  BY <1>1
<1> QED
  BY <1>2, <1>3, <1>4, <1>5, <1>6

\* pageinfo after process_setup(pid, program), for an image S
SetupInfo(info, pid, S) ==
  LET referred == ReferTable(info)
      loaded   == AssignAll(referred, Loaded(referred, S), pid)
  IN  IF Unloadable(referred, S) = {} THEN AssignStack(loaded, pid) ELSE loaded

\* Page by page: the kernel's page table gains a reference, referenced pages
\* stay as they are, free ones may go to pid ...
SetupChanges(info, pid, S, new) ==
  /\ new \in [Pages -> [owner : -2..NPROC-1, refcount : 0..NPROC]]
  /\ new[kernel_pagetable] = [info[kernel_pagetable] EXCEPT !.refcount = @ + 1]
  /\ \A pn \in Pages \ {kernel_pagetable} :
       info[pn].refcount # 0 => new[pn] = info[pn]
  /\ \A pn \in Pages :
       \/ pn = kernel_pagetable
       \/ new[pn] = info[pn]
       \/ /\ info[pn].refcount = 0 /\ pn \in S \cup {StackPage(pid)}
          /\ new[pn] = [owner |-> pid, refcount |-> 1]

\* ... and do, when the image can be loaded.
SetupLoads(info, pid, S, new) ==
  /\ \A pn \in S : pn \in Pages /\ info[pn].refcount = 0 /\ new[pn].owner = pid
  /\ StackPage(pid) \in Pages /\ info[StackPage(pid)].refcount = 0
       => new[StackPage(pid)].owner = pid

LEMMA SetupPages ==
  ASSUME NEW info \in [Pages -> [owner : -2..NPROC-1, refcount : 0..NPROC]],
         NEW pid \in PIDs, NEW S \in SUBSET Int,
         info[kernel_pagetable].refcount \in 1..NPROC-1
  PROVE  /\ SetupChanges(info, pid, S, SetupInfo(info, pid, S))
         /\ Unloadable(ReferTable(info), S) = {}
              => SetupLoads(info, pid, S, SetupInfo(info, pid, S))
         /\ Loaded(ReferTable(info), S) \subseteq Pages
<1> USE Params DEF ParamFacts
<1> DEFINE new == SetupInfo(info, pid, S)
           referred == ReferTable(info)
           L == Loaded(referred, S)
           loaded == AssignAll(referred, L, pid)
           PI == [owner : -2..NPROC-1, refcount : 0..NPROC]
<1>1. /\ referred \in [Pages -> PI]
      /\ referred[kernel_pagetable] = [info[kernel_pagetable] EXCEPT !.refcount = @ + 1]
      /\ \A pn \in Pages \ {kernel_pagetable} : referred[pn] = info[pn]
      /\ referred[kernel_pagetable].refcount # 0
  BY DEF ReferTable
<1>2. \A pn \in L : pn \in S /\ pn \in Pages /\ referred[pn].refcount = 0
  <2> SUFFICES ASSUME NEW pn \in L
               PROVE  pn \in S /\ pn \in Pages /\ referred[pn].refcount = 0
    OBVIOUS
  <2>1. pn \in S /\ \A u \in Unloadable(referred, S) : pn < u
    BY DEF Loaded
  <2>2. pn \notin Unloadable(referred, S)
    <3> SUFFICES ASSUME pn \in Unloadable(referred, S) PROVE FALSE
      OBVIOUS
    <3>1. pn < pn /\ pn \in Int
      BY <2>1
    <3> QED
      BY <3>1
  <2> QED
    BY <2>1, <2>2 DEF Unloadable, Assignable
<1>3. /\ loaded \in [Pages -> PI]
      /\ \A pn \in L : loaded[pn] = [owner |-> pid, refcount |-> 1]
      /\ \A pn \in Pages \ L : loaded[pn] = referred[pn]
  BY <1>1, <1>2 DEF AssignAll, PIDs
<1>4. Unloadable(referred, S) = {} => L = S
  BY DEF Loaded
<1> DEFINE stacked == AssignStack(loaded, pid)
           stack == StackPage(pid)
<1>5. /\ stacked \in [Pages -> PI]
      /\ \A pn \in Pages : pn # stack \/ loaded[pn].refcount # 0 => stacked[pn] = loaded[pn]
      /\ stack \in Pages /\ loaded[stack].refcount = 0
           => stacked[stack] = [owner |-> pid, refcount |-> 1]
  <2>1. CASE stack \in Pages /\ loaded[stack].refcount = 0
    <3>1. stacked = [loaded EXCEPT ![stack] = [owner |-> pid, refcount |-> 1]]
      BY <2>1 DEF AssignStack, Assignable, Assign
    <3> QED
      BY <1>3, <2>1, <3>1 DEF PIDs
  <2>2. CASE ~(stack \in Pages /\ loaded[stack].refcount = 0)
    <3>1. stacked = loaded
      BY <2>2 DEF AssignStack, Assignable
    <3> QED
      BY <1>3, <2>2, <3>1
  <2> QED
    BY <2>1, <2>2
<1>6. new = IF Unloadable(referred, S) = {} THEN stacked ELSE loaded
  BY DEF SetupInfo
<1> HIDE DEF new, referred, L, loaded, stacked
<1>7. new \in [Pages -> PI]
  BY <1>3, <1>5, <1>6
<1>8. kernel_pagetable \notin L /\ loaded[kernel_pagetable] = referred[kernel_pagetable]
  BY <1>1, <1>2, <1>3
<1>9. new[kernel_pagetable] = referred[kernel_pagetable]
  BY <1>1, <1>5, <1>6, <1>8
<1>10. ASSUME NEW pn \in Pages \ {kernel_pagetable}
       PROVE  \/ new[pn] = info[pn]
              \/ /\ info[pn].refcount = 0 /\ pn \in S \cup {stack}
                 /\ new[pn] = [owner |-> pid, refcount |-> 1]
  <2>1. CASE pn \in L
    BY <1>1, <1>2, <1>3, <1>5, <1>6, <2>1
  <2>2. CASE pn \notin L
    BY <1>1, <1>3, <1>5, <1>6, <2>2
  <2> QED
    BY <2>1, <2>2
<1>11. ASSUME NEW pn \in Pages \ {kernel_pagetable}, info[pn].refcount # 0
       PROVE  new[pn] = info[pn]
  BY <1>10, <1>11
<1>12. ASSUME Unloadable(referred, S) = {}, NEW pn \in S
       PROVE  pn \in Pages /\ info[pn].refcount = 0 /\ new[pn].owner = pid
  <2>1. pn \in L /\ pn \in Pages /\ referred[pn].refcount = 0 /\ pn # kernel_pagetable
    BY <1>1, <1>2, <1>4, <1>12
  <2>2. loaded[pn] = [owner |-> pid, refcount |-> 1]
    BY <1>3, <2>1
  <2> QED
    BY <1>1, <1>5, <1>6, <1>12, <2>1, <2>2
<1>13. ASSUME Unloadable(referred, S) = {}, stack \in Pages, info[stack].refcount = 0
       PROVE  new[stack].owner = pid
  <2>1. CASE stack \in L
    BY <1>4, <1>12, <1>13, <2>1
  <2>2. CASE stack \notin L
    BY <1>1, <1>3, <1>5, <1>6, <1>13, <2>2
  <2> QED
    BY <2>1, <2>2
<1> QED
  BY <1>1, <1>2, <1>7, <1>9, <1>10, <1>11, <1>12, <1>13
  DEF referred, L, new, SetupChanges, SetupLoads

\* The pages a process claims are in the process area.
LEMMA ClaimRange ==
  ASSUME TypeOK, NEW pid \in 1..LastSetup(command)
  PROVE  /\ ProgramFor(command, pid) \in Programs
         /\ ProgramBase(ProgramFor(command, pid)) \in Nat
         /\ ProgramBase(ProgramFor(command, pid)) >= ProcStart
         /\ ImageLen[ProgramFor(command, pid)] \in Nat \ {0}
         /\ Image(ProgramFor(command, pid)) \in SUBSET Int
         /\ ProgramBase(ProgramFor(command, pid)) \in Image(ProgramFor(command, pid))
         /\ \A pn \in Claim(pid) : pn \in Nat /\ pn >= ProcStart
<1> USE Params DEF ParamFacts
<1> DEFINE prog == ProgramFor(command, pid)
<1>0. LastSetup(command) \in 1..NAlloc /\ pid \in Nat /\ pid >= 1
  BY LastSetupRange
<1>1. prog \in Programs /\ prog \in Nat
  BY <1>0 DEF ProgramFor, Programs, LastSetup
<1>2. ImageLen[prog] \in Nat \ {0}
  BY <1>1, SizeAssumption
<1>3. ProgramBase(prog) \in Nat /\ ProgramBase(prog) >= ProcStart
  <2>1. ProcSize * prog \in Nat /\ ProcSize * 0 = 0
    BY <1>1
  <2> QED
    BY <2>1 DEF ProgramBase
<1>4. Image(prog) \in SUBSET Int /\ ProgramBase(prog) \in Image(prog)
      /\ \A pn \in Image(prog) : pn \in Nat /\ pn >= ProcStart
  BY <1>2, <1>3 DEF Image
<1>5. StackPage(pid) \in Nat /\ StackPage(pid) >= ProcStart
  <2>1. ProcSize * pid \in Nat /\ ProcSize * pid >= ProcSize
    BY <1>0
  <2> QED
    BY <2>1 DEF StackPage
<1> QED
  BY <1>1, <1>2, <1>3, <1>4, <1>5 DEF Claim

\* The stack page of the process being set up is free, or belongs to that
\* process already: an image that reached it from below would have taken the
\* first page of the process's own image too.
LEMMA StackIsFreeOrOwn ==
  ASSUME IInv, mode = "setup", setup <= LastSetup(command),
         \A pn \in Image(ProgramFor(command, setup)) :
           pn \in Pages /\ pageinfo[pn].refcount = 0,
         StackPage(setup) \in Pages
  PROVE  pageinfo[StackPage(setup)].refcount = 0
<1> USE Params DEF ParamFacts
<1> DEFINE stack == StackPage(setup)
           q == pageinfo[stack].owner
<1> SUFFICES ASSUME pageinfo[stack].refcount # 0 PROVE FALSE
  OBVIOUS
<1>1. Alive /\ setup \in 1..LastSetup(command) /\ SetUp = 1..setup-1
      /\ LastSetup(command) \in 1..NAlloc
  BY LastSetupRange DEF IInv, TypeOK, Alive, SetUp, NSetUp
<1>2. stack \notin ReservedPages \cup KernelPages
  <2>1. stack \in Claim(setup)
    BY DEF Claim
  <2>2. stack \in Nat /\ stack >= ProcStart
    BY <1>1, <2>1, ClaimRange DEF IInv
  <2> QED
    BY <2>2, LayoutAssumption
<1>3. q \in PIDs \ {0} /\ q > 0
  BY <1>2 DEF IInv, PageInv, PIDs
<1>4. q \in 1..setup-1 /\ stack \in Claim(q)
  BY <1>1, <1>3 DEF IInv, OwnersInv
<1>5. LastSetup(command) = NAlloc /\ ~SingleProcess(command)
  BY <1>1, <1>4 DEF LastSetup
<1>6. ProgramFor(command, q) = q - 1 /\ ProgramFor(command, setup) = setup - 1
  BY <1>5 DEF ProgramFor
<1> DEFINE base == ProcStart + ProcSize * (setup - 1)
<1>7. ProgramBase(q - 1) = ProcStart + ProcSize * (q - 1) /\ ProgramBase(setup - 1) = base
  BY <1>1, <1>4 DEF ProgramBase
<1>8. /\ ProcSize * (q - 1) <= ProcSize * (setup - 1)
      /\ ProcSize * (setup - 1) <= ProcSize * setup - 1
      /\ ProcSize * q # ProcSize * setup
  BY <1>1, <1>4, Regions
<1>9. base \in Pages /\ pageinfo[base].refcount = 0
  <2>1. base \in Image(ProgramFor(command, setup))
    BY <1>1, <1>6, <1>7, ClaimRange DEF IInv
  <2> QED
    BY <2>1
<1>10. CASE stack \in Image(q - 1)
  <2>1. ImageLen[q - 1] \in Nat
    BY <1>1, <1>4, <1>6, ClaimRange DEF IInv
  <2>2. /\ ProcSize * (q - 1) \in Int /\ ProcSize * (setup - 1) \in Int
        /\ ProcSize * setup \in Int
    BY <1>1, <1>4
  <2>3. base \in Image(q - 1)
    BY <1>7, <1>8, <1>10, <2>1, <2>2 DEF Image, StackPage
  <2>4. pageinfo[base].owner = q
    BY <1>1, <1>4, <1>6, <2>3 DEF IInv, ClaimsInv, Claim
  <2> QED
    BY <1>3, <1>9, <2>4 DEF IInv, PageInv, PO_RESERVED, PO_KERNEL, PO_FREE
<1>11. CASE stack = StackPage(q)
  <2>1. ProcSize * q \in Int /\ ProcSize * setup \in Int
    BY <1>1, <1>4
  <2> QED
    BY <1>8, <1>11, <2>1 DEF StackPage
<1> QED
  BY <1>4, <1>6, <1>10, <1>11 DEF Claim

LEMMA ProcessSetupInv ==
  ASSUME IInv, ProcessSetup
  PROVE  IInv'
<1> USE Params DEF ParamFacts
<1> DEFINE pid      == setup
           image    == Image(ProgramFor(command, pid))
           loads    == Unloadable(ReferTable(pageinfo), image) = {}
           L        == Loaded(ReferTable(pageinfo), image)
<1>1. /\ mode = "setup" /\ setup <= LastSetup(command)
      /\ p_registers' = [p_registers EXCEPT ![setup] = ZeroRegisters]
      /\ p_pagetable' = [p_pagetable EXCEPT ![setup] = kernel_pagetable]
      /\ pageinfo' = SetupInfo(pageinfo, setup, image)
      /\ kmap' = MapPages(kmap, L \cup ((IF loads THEN {StackPage(pid)} ELSE {}) \cap Pages))
      /\ UNCHANGED <<command, current, cpu, scan, ticks>>
  <2>1. mode = "setup" /\ setup <= LastSetup(command)
    BY DEF ProcessSetup
  <2>2. /\ p_registers' = [p_registers EXCEPT ![setup] = ZeroRegisters]
        /\ p_pagetable' = [p_pagetable EXCEPT ![setup] = kernel_pagetable]
    BY DEF ProcessSetup
  <2>3. pageinfo' = SetupInfo(pageinfo, setup, image)
    BY Zenon DEF ProcessSetup, SetupInfo
  <2>4. kmap' = MapPages(kmap, L \cup ((IF loads THEN {StackPage(pid)} ELSE {}) \cap Pages))
    BY Zenon DEF ProcessSetup
  <2>5. UNCHANGED <<command, current, cpu, scan, ticks>>
    BY DEF ProcessSetup
  <2> QED
    BY <2>1, <2>2, <2>3, <2>4, <2>5, Zenon
<1>2. /\ Alive /\ pid \in 1..LastSetup(command) /\ pid \in PIDs \ {0} /\ pid \in Nat
      /\ LastSetup(command) \in 1..NAlloc /\ NSetUp = setup - 1 /\ SetUp = 1..setup-1
  <2>1. setup \in Nat /\ setup >= 1 /\ LastSetup(command) \in 1..NAlloc
    BY <1>1, LastSetupRange DEF IInv, TypeOK
  <2>2. Alive
    BY <1>1 DEF Alive
  <2>3. NSetUp = setup - 1 /\ SetUp = 1..setup-1
    BY <1>1 DEF SetUp, NSetUp
  <2>4. pid \in 1..LastSetup(command) /\ pid \in Nat /\ pid \in PIDs \ {0}
    BY <1>1, <2>1 DEF PIDs
  <2> QED
    BY <2>1, <2>2, <2>3, <2>4, Zenon
<1>3. ProcsInv /\ TableInv /\ OwnersInv /\ ClaimsInv /\ TypeOK /\ PageInv /\ kmap = KernelMap
  BY <1>2 DEF IInv
<1>4. pageinfo[kernel_pagetable].refcount = setup
      /\ pageinfo[kernel_pagetable].refcount \in 1..NPROC-1
  BY <1>2, <1>3 DEF TableInv
<1>5. image \in SUBSET Int
  BY <1>2, <1>3, ClaimRange
<1>6. /\ SetupChanges(pageinfo, setup, image, pageinfo')
      /\ loads => SetupLoads(pageinfo, setup, image, pageinfo')
      /\ L \subseteq Pages
  <2> HIDE DEF image
  <2>1. pageinfo \in [Pages -> [owner : -2..NPROC-1, refcount : 0..NPROC]]
    BY <1>3 DEF TypeOK
  <2> QED
    BY <1>1, <1>2, <1>4, <1>5, <2>1, SetupPages
<1> HIDE DEF image
<1>7. kmap' = KernelMap
  BY <1>1, <1>3, <1>6, MapPagesIdentity
<1>8. TypeOK'
  <2>1. KernelMap \in [VPages -> PTE]
    BY AfterBoot
  <2>2. CASE loads /\ StackPage(pid) \in Pages
    <3>1. p_state' = [p_state EXCEPT ![setup] = "P_RUNNABLE"]
          /\ setup' = setup + 1 /\ mode' = "setup"
      BY <1>1, <2>2 DEF ProcessSetup, image
    <3>2. p_state' \in [PIDs -> ProcState]
      BY <1>2, <1>3, <3>1 DEF TypeOK, ProcState
    <3>3. setup' \in 1..NAlloc+1 /\ mode' \in Modes
      BY <1>2, <3>1 DEF Modes
    <3> QED
      BY <1>1, <1>2, <1>3, <1>6, <1>7, <2>1, <3>2, <3>3 DEF TypeOK, SetupChanges
  <2>3. CASE ~(loads /\ StackPage(pid) \in Pages)
    <3>1. mode' \in {"panic", "off"} /\ p_state' = p_state /\ setup' = setup
      BY <1>1, <2>3 DEF ProcessSetup, Panic, image
    <3> QED
      BY <1>1, <1>2, <1>3, <1>6, <1>7, <2>1, <3>1 DEF TypeOK, Modes, SetupChanges
  <2> QED
    BY <2>2, <2>3
<1>9. PageInv'
  <2> SUFFICES ASSUME NEW pn \in Pages
               PROVE
        /\ pn \in ReservedPages =>
             pageinfo'[pn].owner = PO_RESERVED /\ pageinfo'[pn].refcount = 1
        /\ pn \in KernelPages =>
             /\ pageinfo'[pn].owner = PO_KERNEL
             /\ pn = kernel_pagetable \/ pageinfo'[pn].refcount = 1
             /\ pageinfo'[pn].refcount > 0
        /\ pn \notin ReservedPages \cup KernelPages =>
             \/ pageinfo'[pn].owner = PO_FREE /\ pageinfo'[pn].refcount = 0
             \/ pageinfo'[pn].owner \in PIDs \ {0} /\ pageinfo'[pn].refcount = 1
    BY DEF PageInv
  <2>1. CASE pn = kernel_pagetable
    BY <1>3, <1>4, <1>6, <2>1, LayoutAssumption DEF PageInv, TypeOK, SetupChanges
  <2>2. CASE pageinfo'[pn] = pageinfo[pn]
    BY <1>3, <2>2 DEF PageInv
  <2>3. CASE /\ pn # kernel_pagetable /\ pageinfo[pn].refcount = 0
             /\ pageinfo'[pn] = [owner |-> pid, refcount |-> 1]
    BY <1>2, <1>3, <2>3 DEF PageInv
  <2> QED
    BY <1>6, <2>1, <2>2, <2>3 DEF SetupChanges
<1>10. CASE ~(loads /\ StackPage(pid) \in Pages)
  <2>1. mode' \in {"panic", "off"}
    BY <1>1, <1>10 DEF ProcessSetup, Panic, image
  <2> QED
    BY <1>7, <1>8, <1>9, <2>1 DEF IInv, Alive
<1>11. CASE loads /\ StackPage(pid) \in Pages
  <2>0. p_state' = [p_state EXCEPT ![setup] = "P_RUNNABLE"]
        /\ setup' = setup + 1 /\ mode' = "setup"
    BY <1>1, <1>11 DEF ProcessSetup, image
  <2>1. /\ Alive' /\ mode' = "setup" /\ setup' = setup + 1
        /\ NSetUp' = setup /\ SetUp' = 1..setup
        /\ \A p : Claim(p)' = Claim(p)
        /\ SetupLoads(pageinfo, setup, image, pageinfo')
    BY <1>1, <1>2, <1>6, <1>11, <2>0 DEF Alive, NSetUp, SetUp, Claim
  <2>2. ProcsInv'
    <3>0. /\ p_state \in [PIDs -> ProcState] /\ p_pagetable \in [PIDs -> Pages]
          /\ \A p \in PIDs : p_state[p] # "P_FREE" <=> p \in SetUp
          /\ \A p \in SetUp : p_pagetable[p] = kernel_pagetable
          /\ \A p \in SetUp : p_state[p] = "P_RUNNABLE"
      BY <1>1, <1>3 DEF ProcsInv, TypeOK
    <3>a. /\ p_state'[pid] = "P_RUNNABLE" /\ p_pagetable'[pid] = kernel_pagetable
          /\ \A p \in PIDs \ {pid} : /\ p_state'[p] = p_state[p]
                                     /\ p_pagetable'[p] = p_pagetable[p]
      BY <1>1, <1>2, <2>0, <3>0
    <3>b. SetUp' = SetUp \cup {pid} /\ SetUp \subseteq PIDs \ {pid}
      BY <1>2, <2>1 DEF PIDs
    <3>1. \A p \in PIDs : p_state'[p] # "P_FREE" <=> p \in SetUp'
      BY <1>2, <3>0, <3>a, <3>b
    <3>2. \A p \in SetUp' : p_pagetable'[p] = kernel_pagetable /\ p_state'[p] = "P_RUNNABLE"
      BY <1>2, <3>0, <3>a, <3>b
    <3> QED
      BY <1>1, <1>2, <2>1, <3>1, <3>2 DEF ProcsInv, Running
  <2>3. TableInv'
    BY <1>2, <1>4, <1>6, <2>1 DEF TableInv, SetupChanges
  <2>4. \A pn \in Pages : pageinfo[pn].refcount = 0 \/ pageinfo'[pn].owner = pageinfo[pn].owner
    BY <1>3, <1>4, <1>6 DEF TypeOK, SetupChanges
  <2>5. OwnersInv'
    <3> SUFFICES ASSUME NEW pn \in Pages, pageinfo'[pn].owner > 0
                 PROVE  pageinfo'[pn].owner \in SetUp' /\ pn \in Claim(pageinfo'[pn].owner)
      BY <2>1 DEF OwnersInv
    <3>1. CASE pageinfo'[pn].owner = pageinfo[pn].owner
      BY <1>1, <1>2, <1>3, <2>1, <3>1 DEF OwnersInv
    <3>2. CASE pageinfo'[pn].owner # pageinfo[pn].owner
      <4>1. pageinfo'[pn].owner = pid /\ pn \in image \cup {StackPage(pid)}
        BY <1>3, <1>6, <3>2 DEF TypeOK, SetupChanges
      <4> QED
        BY <1>2, <2>1, <4>1 DEF Claim, image
    <3> QED
      BY <3>1, <3>2
  <2>6. ClaimsInv'
    <3> SUFFICES ASSUME NEW p \in SetUp', NEW pn \in Claim(p)
                 PROVE  pn \in Pages /\ pageinfo'[pn].owner = p
      BY <2>1 DEF ClaimsInv
    <3>1. CASE p = pid
      <4>1. pageinfo[StackPage(pid)].refcount = 0
        BY <1>1, <1>11, <2>1, StackIsFreeOrOwn DEF image, SetupLoads
      <4> QED
        BY <1>11, <2>1, <3>1, <4>1 DEF Claim, image, SetupLoads
    <3>2. CASE p # pid
      <4>1. p \in SetUp /\ p \in PIDs \ {0}
        BY <1>2, <2>1, <3>2 DEF PIDs
      <4>2. pn \in Pages /\ pageinfo[pn].owner = p
        BY <1>3, <4>1 DEF ClaimsInv
      <4>3. pageinfo[pn].refcount # 0
        BY <1>3, <4>1, <4>2 DEF PageInv, PO_FREE, PO_RESERVED, PO_KERNEL, PIDs
      <4> QED
        BY <2>4, <4>2, <4>3
    <3> QED
      BY <3>1, <3>2
  <2> QED
    BY <1>7, <1>8, <1>9, <2>2, <2>3, <2>5, <2>6 DEF IInv
<1> QED
  BY <1>10, <1>11

-----------------------------------------------------------------------------
(* The theorems *)

LEMMA StepInv == IInv /\ [Next]_vars => IInv'
<1> SUFFICES ASSUME IInv, [Next]_vars PROVE IInv'
  OBVIOUS
<1> USE Params DEF ParamFacts
<1>0. TypeOK
  BY DEF IInv
<1>1. CASE ProcessSetup
  BY <1>1, ProcessSetupInv
<1>2. CASE RunFirst
  BY <1>2, RunFirstInv
<1>3. CASE SchedStep
  BY <1>3, SchedStepInv
<1>4. CASE UserStep
  <2>1. TypeOK'
    BY <1>0, <1>4 DEF TypeOK, UserStep, procs, memory
  <2>2. Alive /\ Running /\ NSetUp' = NSetUp /\ p_state[current] = "P_RUNNABLE"
    BY <1>4 DEF IInv, ProcsInv, UserStep, Alive, Running, NSetUp
  <2> QED
    BY <1>4, <2>1, <2>2, QuietStep, SetUpPIDs DEF UserStep, procs
<1>5. CASE SysGetpid
  BY <1>0, <1>5, ReturnInv DEF SysGetpid, Entered, TypeOK
<1>6. CASE SysYield
  BY <1>0, <1>6, ScheduleInv DEF SysYield, Entered, TypeOK
<1>7. CASE SysPageAlloc
  BY <1>7, PageAllocInv
<1>8. CASE TimerInterrupt
  <2>1. (ticks + 1) % TickMod \in 0..TickMod-1
    BY <1>0, BuildAssumption DEF TypeOK
  <2> QED
    BY <1>0, <1>8, <2>1, ScheduleInv DEF TimerInterrupt, Entered, TypeOK
<1>9. CASE PageFault
  <2>1. mode = "user" /\ Alive /\ Running
    BY <1>9 DEF PageFault, Entered, Alive, Running
  <2>2. current \in SetUp /\ current \in PIDs
    BY <2>1, SetUpPIDs
  <2>3. p_state[current] # "P_FREE"
    BY <2>1, <2>2 DEF IInv, ProcsInv
  <2>4. p_state' = [p_state EXCEPT ![current] = "P_BROKEN"]
    BY <1>9 DEF PageFault
  <2>5. /\ p_state' \in [PIDs -> ProcState]
        /\ \A p \in PIDs : (p_state[p] = "P_FREE") <=> (p_state'[p] = "P_FREE")
    BY <1>0, <2>2, <2>3, <2>4 DEF TypeOK, ProcState
  <2> QED
    BY <1>0, <1>9, <2>1, <2>5, ScheduleInv DEF PageFault, TypeOK
<1>10. CASE \E v \in Vectors : TrapPanics(v)
  BY <1>0, <1>10, StopInv, SavedType DEF TrapPanics, Panic
<1>11. CASE TickLimitPoweroff
  BY <1>0, <1>11, StopInv, SavedType DEF TickLimitPoweroff
<1>12. CASE ResetVectorFault
  BY <1>12, BootInv DEF ResetVectorFault, Commands
<1>13. CASE \E c \in KeyCommands : SoftReboot(c)
  BY <1>0, <1>13, BootInv DEF SoftReboot, Commands, TypeOK
<1>14. CASE QuitKey
  BY <1>0, <1>14, StopInv DEF QuitKey, procs, TypeOK
<1>15. CASE UNCHANGED vars
  <2>1. UNCHANGED <<mode, command, setup, p_state, p_pagetable, p_registers, current,
                    cpu, scan, pageinfo, kmap, ticks>>
    BY <1>15 DEF vars
  <2> QED
    BY <2>1 DEF IInv, TypeOK, PageInv, Alive, ProcsInv, TableInv, OwnersInv, ClaimsInv,
           SetUp, NSetUp, Claim, Running, KernelMap
<1> QED
  BY <1>1, <1>2, <1>3, <1>4, <1>5, <1>6, <1>7, <1>8, <1>9, <1>10, <1>11, <1>12,
     <1>13, <1>14, <1>15 DEF Next

\* IInv, the invariant the safety theorems below are read off from, holds in
\* every reachable state: no handler of exception(), key or boot step breaks the
\* agreement of the process table, the reference counts and the owners.
THEOREM Inductive == Spec => []IInv
BY InitInv, StepInv, PTL DEF Spec

\* Every variable keeps to its C type and range, the signed chars `owner` and
\* `refcount` of pageinfo[] (kernel.c:25-28) among them: neither can overflow.
THEOREM TypeCorrect == Spec => []TypeOK
<1>1. IInv => TypeOK
  BY DEF IInv
<1> QED
  BY <1>1, Inductive, PTL

\* The processes that use the kernel's page table are those that were set up, so
\* its reference count (kernel.c:370-375) is what TableInv says it is.
LEMMA TableUsersCount ==
  ASSUME IInv, Running
  PROVE  Cardinality(TableUsers) = NSetUp
<1> USE Params DEF ParamFacts
<1>1. Alive
  BY DEF Running, Alive
<1>2. NSetUp \in Nat /\ SetUp \subseteq PIDs
  BY <1>1, SetUpPIDs
<1>3. TableUsers = 1..NSetUp
  BY <1>1, <1>2 DEF TableUsers, IInv, ProcsInv, SetUp
<1>4. Cardinality(1..NSetUp) = NSetUp
  BY <1>2, FS_Interval
<1> QED
  BY <1>3, <1>4

\* No assertion of check_virtual_memory() (kernel.c:401-421) or run()
\* (kernel.c:292) can fail, for any memory layout, any program images that fit
\* or do not fit, and any number of processes.
THEOREM SelfChecks == Spec => []SelfChecksPass
<1> USE Params DEF ParamFacts
<1>1. IInv => SelfChecksPass
  <2> SUFFICES ASSUME IInv, Running
               PROVE  CheckVirtualMemory
    BY DEF SelfChecksPass, IInv, ProcsInv, Alive, Running
  <2>1. Alive /\ TypeOK /\ ProcsInv /\ TableInv /\ OwnersInv /\ PageInv /\ kmap = KernelMap
    BY DEF IInv, Alive, Running
  <2>2. p_state[0] = "P_FREE"
    BY <2>1 DEF ProcsInv, SetUp, PIDs
  <2>3. CheckPageTableMappings
    <3>1. \A va \in KernelPages : va \in VPages /\ va \in Pages
      BY LayoutAssumption DEF Pages, VPages
    <3> QED
      BY <2>1, <3>1 DEF CheckPageTableMappings, KernelMap, UserPTE
  <2>4. CheckPageTableOwnership
    <3>1. \A pt \in PageTables : pt \in KernelPages /\ pt \in Pages
      BY LayoutAssumption
    <3>2. Cardinality(TableUsers) = NSetUp
      BY TableUsersCount
    <3> QED
      BY <2>1, <3>1, <3>2 DEF CheckPageTableOwnership, TableInv, PageInv
  <2>5. \A pn \in Pages : pageinfo[pn].refcount > 0 /\ pageinfo[pn].owner >= 0
                            => p_state[pageinfo[pn].owner] # "P_FREE"
    <3> SUFFICES ASSUME NEW pn \in Pages, pageinfo[pn].refcount > 0,
                        pageinfo[pn].owner >= 0
                 PROVE  p_state[pageinfo[pn].owner] # "P_FREE"
      OBVIOUS
    <3>1. pageinfo[pn].owner > 0
      BY <2>1 DEF PageInv, PO_FREE, PO_RESERVED, PO_KERNEL, PIDs
    <3>2. pageinfo[pn].owner \in SetUp
      BY <2>1, <3>1 DEF OwnersInv
    <3>3. pageinfo[pn].owner \in PIDs
      BY <2>1, <3>2, SetUpPIDs
    <3> QED
      BY <2>1, <3>2, <3>3 DEF ProcsInv
  <2> QED
    BY <2>2, <2>3, <2>4, <2>5 DEF CheckVirtualMemory
<1> QED
  BY <1>1, Inductive, PTL

\* Page ownership is exact in every reachable state: what
\* assign_physical_page() (kernel.c:124-134) and virtual_memory_map() record
\* apart from each other never disagrees.
THEOREM MemoryExact == Spec => []MemoryAccounted
<1> USE Params DEF ParamFacts
<1>1. IInv => MemoryAccounted
  <2> SUFFICES ASSUME IInv, NEW pn \in Pages
               PROVE
       /\ pageinfo[pn].refcount = 0 <=> pageinfo[pn].owner = PO_FREE
       /\ pageinfo[pn].refcount > 1 => pn = kernel_pagetable
       /\ pn \in ReservedPages <=> pageinfo[pn].owner = PO_RESERVED
       /\ pn \in KernelPages <=> pageinfo[pn].owner = PO_KERNEL
       /\ pageinfo[pn].owner > 0 => kmap[pn] = UserPTE(pn)
    BY DEF MemoryAccounted
  <2>1. PageInv /\ kmap = KernelMap /\ pn \in VPages
    BY DEF IInv, Pages, VPages
  <2>2. kmap[pn] = UserPTE(pn)
    BY <2>1 DEF KernelMap
  <2>3. ReservedPages \cap KernelPages = {}
    BY LayoutAssumption
  <2>4. CASE pn \in ReservedPages
    BY <2>1, <2>2, <2>3, <2>4 DEF PageInv, PO_FREE, PO_RESERVED, PO_KERNEL
  <2>5. CASE pn \in KernelPages
    <3>1. pageinfo[pn].refcount > 0 /\ pageinfo[pn].refcount \in 0..NPROC
      BY <2>1, <2>5 DEF PageInv, IInv, TypeOK
    <3> QED
      BY <2>1, <2>2, <2>3, <2>5, <3>1 DEF PageInv, PO_FREE, PO_RESERVED, PO_KERNEL
  <2>6. CASE pn \notin ReservedPages \cup KernelPages
    BY <2>1, <2>2, <2>6 DEF PageInv, PO_FREE, PO_RESERVED, PO_KERNEL, PIDs
  <2> QED
    BY <2>4, <2>5, <2>6
<1> QED
  BY <1>1, Inductive, PTL

\* process_setup() takes no page from an owner, whether the load fails or not.
LEMMA SetupKeepsOwners ==
  ASSUME IInv, ProcessSetup
  PROVE  \A pn \in Pages :
           pageinfo[pn].refcount = 0 \/ pageinfo'[pn].owner = pageinfo[pn].owner
<1> USE Params DEF ParamFacts
<1> DEFINE image == Image(ProgramFor(command, setup))
<1>1. mode = "setup" /\ pageinfo' = SetupInfo(pageinfo, setup, image)
      /\ setup <= LastSetup(command)
  BY DEF ProcessSetup, SetupInfo
<1>2. /\ setup \in 1..LastSetup(command) /\ setup \in PIDs \ {0} /\ NSetUp = setup - 1
      /\ TableInv
  BY <1>1, LastSetupRange DEF IInv, TypeOK, Alive, NSetUp, PIDs
<1>3. pageinfo[kernel_pagetable].refcount \in 1..NPROC-1
  BY <1>2, LastSetupRange DEF TableInv, IInv, TypeOK
<1>4. image \in SUBSET Int
  BY <1>2, LastSetupRange, ClaimRange DEF IInv, TypeOK
<1>5. pageinfo \in [Pages -> [owner : -2..NPROC-1, refcount : 0..NPROC]]
  BY DEF IInv, TypeOK
<1>6. SetupChanges(pageinfo, setup, image, pageinfo')
  <2> HIDE DEF image
  <2> QED
    BY <1>1, <1>2, <1>3, <1>4, <1>5, SetupPages
<1> QED
  BY <1>5, <1>6 DEF SetupChanges

\* While the machine runs, IInv has LoadedProcesses for a part; a stop changes
\* neither the process table nor the owners, except that a process_setup() that
\* fails may have taken free pages.
LEMMA LoadedStep ==
  ASSUME IInv, LoadedProcesses, [Next]_vars
  PROVE  LoadedProcesses'
<1> USE Params DEF ParamFacts
<1>1. IInv'
  BY StepInv
<1>2. CASE Alive'
  BY <1>1, <1>2 DEF IInv, ProcsInv, ClaimsInv, LoadedProcesses, Claim
<1>3. CASE ~Alive' /\ ~ProcessSetup
  <2>1. UNCHANGED <<command, p_state, pageinfo>>
    BY <1>3 DEF Next, vars, procs, memory, Alive, RunFirst, SchedStep, UserStep,
         SysGetpid, SysYield, SysPageAlloc, TimerInterrupt, PageFault, TrapPanics,
         TickLimitPoweroff, ResetVectorFault, SoftReboot, QuitKey, KernelInit,
         Run, Schedule, ReturnWith
  <2> QED
    BY <2>1 DEF LoadedProcesses
<1>4. CASE ~Alive' /\ ProcessSetup
  <2>1. p_state' = p_state /\ command' = command /\ mode = "setup"
    BY <1>4 DEF ProcessSetup, Alive
  <2>2. \A pn \in Pages : pageinfo[pn].refcount = 0 \/ pageinfo'[pn].owner = pageinfo[pn].owner
    BY <1>4, SetupKeepsOwners
  <2>3. \A pn \in Pages : pageinfo[pn].owner \in PIDs \ {0} => pageinfo[pn].refcount = 1
    BY DEF IInv, PageInv, PIDs, PO_FREE, PO_RESERVED, PO_KERNEL
  <2>4. \A p \in PIDs : p_state[p] # "P_FREE" => p # 0
    BY <2>1 DEF IInv, ProcsInv, Alive, SetUp
  <2> QED
    BY <2>1, <2>2, <2>3, <2>4 DEF LoadedProcesses
<1> QED
  BY <1>2, <1>3, <1>4

\* Every process owns the whole of its image and its stack page, although
\* process_setup() drops the result of the stack page's assignment
\* (kernel.c:132), in memories of any size and with images of any length.
THEOREM ProcessesLoaded == Spec => []LoadedProcesses
<1>1. Init => LoadedProcesses
  BY DEF Init, LoadedProcesses
<1>2. IInv /\ LoadedProcesses /\ [Next]_vars => LoadedProcesses'
  BY LoadedStep
<1> QED
  BY <1>1, <1>2, Inductive, PTL DEF Spec

-----------------------------------------------------------------------------
(* The tick limit *)

\* The equality test at kernel.c:187 stops every trap at the limit, so the
\* counter, which no reboot from the keyboard clears, is never counted past it;
\* in particular it does not wrap round.
THEOREM TicksBounded == Spec => []TicksNeverPassLimit
<1>1. Init => TicksNeverPassLimit
  BY BuildAssumption DEF Init, TicksNeverPassLimit
<1>2. TypeOK /\ TicksNeverPassLimit /\ [Next]_vars => TicksNeverPassLimit'
  <2> SUFFICES ASSUME TypeOK, TicksNeverPassLimit, [Next]_vars
               PROVE  TicksNeverPassLimit'
    OBVIOUS
  <2>1. CASE TimerInterrupt
    <3>1. ticks \in 0..TickMod-1 /\ TickMod \in Nat \ {0} /\ TickLimit \in 0..TickMod-1
      BY BuildAssumption DEF TypeOK
    <3>2. ticks' = (ticks + 1) % TickMod /\ ~(TickLimit > 0 /\ ticks = TickLimit)
      BY <2>1 DEF TimerInterrupt, Entered, AtTickLimit
    <3>3. CASE TickLimit > 0
      <4>1. ticks + 1 \in 0..TickMod-1 /\ ticks + 1 <= TickLimit
        BY <3>1, <3>2, <3>3 DEF TicksNeverPassLimit
      <4>2. (ticks + 1) % TickMod = ticks + 1
        BY <3>1, <4>1
      <4> QED
        BY <3>2, <4>1, <4>2 DEF TicksNeverPassLimit
    <3> QED
      BY <3>3 DEF TicksNeverPassLimit
  <2>2. CASE ResetVectorFault
    BY <2>2, BuildAssumption DEF ResetVectorFault, TicksNeverPassLimit
  <2>3. CASE UNCHANGED ticks
    BY <2>3 DEF TicksNeverPassLimit
  <2>4. TimerInterrupt \/ ResetVectorFault \/ UNCHANGED ticks
    BY DEF Next, vars, ProcessSetup, RunFirst, SchedStep, UserStep, SysGetpid,
       SysYield, SysPageAlloc, PageFault, TickLimitPoweroff, TrapPanics,
       SoftReboot, QuitKey
  <2> QED
    BY <2>1, <2>2, <2>3, <2>4
<1> QED
  BY <1>1, <1>2, TypeCorrect, PTL DEF Spec

-----------------------------------------------------------------------------
(* Traps and switches *)

\* On the way into schedule(), through its loop and out of it every process
\* keeps its registers, and a system call that returns at once leaves the other
\* processes alone (kernel.c:171, kernel.c:299, k-exception.S).
THEOREM SwitchesInvisible == Spec => SwitchTransparent
<1> DEFINE Kept ==
      Running /\ Running' =>
        /\ \A p \in PIDs :
             p # current \/ "sched" \in {mode, mode'} => Context(p)' = Context(p)
        /\ mode = "user" /\ mode' = "user" => current' = current
<1>1. TypeOK /\ [Next]_vars => [Kept]_vars
  <2> SUFFICES ASSUME TypeOK, Next, Running, Running' PROVE Kept
    OBVIOUS
  <2>0. p_registers \in [PIDs -> Registers] /\ current \in PIDs
    BY DEF TypeOK
  <2>1. CASE SchedStep
    BY <2>0, <2>1 DEF SchedStep, Run, Context, procs, NextSlot
  <2>2. CASE UserStep
    BY <2>2 DEF UserStep, Context, procs
  <2>3. CASE mode = "user" /\ p_registers' = SavedRegisters /\ Schedule
    BY <2>0, <2>3 DEF SavedRegisters, Schedule, Context
  <2>4. CASE mode = "user" /\ \E rax \in {-1} \cup PIDs : ReturnWith(rax)
    BY <2>0, <2>4 DEF ReturnWith, Run, SavedRegisters, Context
  <2>5. \/ SchedStep \/ UserStep
        \/ mode = "user" /\ p_registers' = SavedRegisters /\ Schedule
        \/ mode = "user" /\ \E rax \in {-1} \cup PIDs : ReturnWith(rax)
    <3>1. 0 \in PIDs
      BY SizeAssumption DEF PIDs
    <3>2. CASE SysGetpid
      BY <2>0, <3>2 DEF SysGetpid, Entered
    <3>3. CASE SysPageAlloc
      BY <3>1, <3>3 DEF SysPageAlloc, Entered
    <3>4. CASE SysYield \/ TimerInterrupt \/ PageFault
      BY <3>4 DEF SysYield, TimerInterrupt, PageFault, Entered
    <3>5. CASE ProcessSetup \/ RunFirst
      BY <3>5 DEF ProcessSetup, RunFirst, Running
    <3>6. CASE \/ TickLimitPoweroff \/ ResetVectorFault \/ QuitKey
               \/ \E v \in Vectors : TrapPanics(v)
               \/ \E c \in KeyCommands : SoftReboot(c)
      BY <3>6 DEF TickLimitPoweroff, ResetVectorFault, QuitKey, TrapPanics, Panic,
         SoftReboot, KernelInit, Running
    <3> QED
      BY <3>2, <3>3, <3>4, <3>5, <3>6 DEF Next
  <2> QED
    BY <2>1, <2>2, <2>3, <2>4, <2>5
<1> QED
  BY <1>1, TypeCorrect, PTL DEF Spec, SwitchTransparent

-----------------------------------------------------------------------------
(* The order of the scan *)

\* Slots schedule() has passed over when it stands at slot s, having started
\* from slot a.
Passed(a, s) == (s - a + NPROC) % NPROC

\* schedule() has passed over no runnable process.
ScanInv ==
  mode = "sched" =>
    \A p \in PIDs : p_state[p] = "P_RUNNABLE" => Distance(current, p) >= Passed(current, scan)

LEMMA RingArithmetic ==
  ASSUME NEW a \in PIDs, NEW s \in PIDs
  PROVE  /\ NPROC \in Nat \ {0}
         /\ Passed(a, s) = IF s >= a THEN s - a ELSE s - a + NPROC
         /\ Distance(a, s) = IF s > a THEN s - a - 1 ELSE s - a - 1 + NPROC
         /\ NextSlot(s) = IF s = NPROC - 1 THEN 0 ELSE s + 1
<1>1. NPROC \in Nat \ {0} /\ a \in 0..NPROC-1 /\ s \in 0..NPROC-1
  BY SizeAssumption DEF PIDs
<1>2. \A x \in 0..NPROC-1 : x % NPROC = x /\ (x + NPROC) % NPROC = x
  BY <1>1
<1>3. Passed(a, s) = IF s >= a THEN s - a ELSE s - a + NPROC
  BY <1>1, <1>2 DEF Passed
<1>4. Distance(a, s) = IF s > a THEN s - a - 1 ELSE s - a - 1 + NPROC
  <2>1. CASE s > a
    <3>1. s - a - 1 \in 0..NPROC-1
      BY <1>1, <2>1
    <3> QED
      BY <1>2, <2>1, <3>1 DEF Distance
  <2>2. CASE s <= a
    <3>1. s - a - 1 + NPROC \in 0..NPROC-1
      BY <1>1, <2>2
    <3> QED
      BY <1>1, <1>2, <2>2, <3>1 DEF Distance
  <2> QED
    BY <1>1, <2>1, <2>2
<1>5. NextSlot(s) = IF s = NPROC - 1 THEN 0 ELSE s + 1
  <2>1. CASE s = NPROC - 1
    BY <1>1, <1>2, <2>1 DEF NextSlot
  <2>2. CASE s + 1 \in 0..NPROC-1
    BY <1>2, <1>1, <2>2 DEF NextSlot
  <2> QED
    BY <1>1, <2>1, <2>2
<1> QED
  BY <1>1, <1>3, <1>4, <1>5

\* The slot examined next is as far from the start as the slots passed over, and
\* passing it over counts one more, or starts a new round.
LEMMA RingStep ==
  ASSUME NEW a \in PIDs, NEW s \in PIDs
  PROVE  /\ NextSlot(s) \in PIDs
         /\ Distance(a, NextSlot(s)) = Passed(a, s)
         /\ \A p \in PIDs : Distance(a, p) >= Passed(a, s) /\ p # NextSlot(s)
              => Distance(a, p) >= Passed(a, NextSlot(s))
<1>1. NPROC \in Nat \ {0} /\ a \in 0..NPROC-1 /\ s \in 0..NPROC-1
  BY SizeAssumption DEF PIDs
<1>2. NextSlot(s) = IF s = NPROC - 1 THEN 0 ELSE s + 1
  BY RingArithmetic
<1>3. NextSlot(s) \in PIDs
  BY <1>1, <1>2 DEF PIDs
<1>4. /\ Passed(a, s) = IF s >= a THEN s - a ELSE s - a + NPROC
      /\ Passed(a, NextSlot(s)) = IF NextSlot(s) >= a THEN NextSlot(s) - a
                                  ELSE NextSlot(s) - a + NPROC
  BY <1>3, RingArithmetic
<1>5. Distance(a, NextSlot(s)) = Passed(a, s)
  <2>1. Distance(a, NextSlot(s)) = IF NextSlot(s) > a THEN NextSlot(s) - a - 1
                                   ELSE NextSlot(s) - a - 1 + NPROC
    BY <1>3, RingArithmetic
  <2> QED
    BY <1>1, <1>2, <1>4, <2>1
<1>6. ASSUME NEW p \in PIDs, Distance(a, p) >= Passed(a, s), p # NextSlot(s)
      PROVE  Distance(a, p) >= Passed(a, NextSlot(s))
  <2>1. p \in 0..NPROC-1
    BY DEF PIDs
  <2>2. Distance(a, p) = IF p > a THEN p - a - 1 ELSE p - a - 1 + NPROC
    BY RingArithmetic
  <2> QED
    BY <1>1, <1>2, <1>4, <1>6, <2>1, <2>2
<1> QED
  BY <1>3, <1>5, <1>6

LEMMA ScanInvHolds == Spec => []ScanInv
<1>1. Init => ScanInv
  BY DEF Init, ScanInv
<1>2. TypeOK /\ ScanInv /\ [Next]_vars => ScanInv'
  <2> SUFFICES ASSUME TypeOK, ScanInv, [Next]_vars, mode' = "sched" PROVE ScanInv'
    BY DEF ScanInv
  <2>0. current \in PIDs /\ scan \in PIDs
    BY DEF TypeOK
  <2>1. CASE SchedStep
    <3>1. /\ mode = "sched" /\ scan' = NextSlot(scan) /\ current' = current
          /\ p_state' = p_state /\ p_state[NextSlot(scan)] # "P_RUNNABLE"
      BY <2>1 DEF SchedStep, Run, procs
    <3>2. ASSUME NEW p \in PIDs, p_state[p] = "P_RUNNABLE"
          PROVE  Distance(current, p) >= Passed(current, NextSlot(scan))
      <4>1. Distance(current, p) >= Passed(current, scan) /\ p # NextSlot(scan)
        BY <3>1, <3>2 DEF ScanInv
      <4> QED
        BY <2>0, <4>1, RingStep
    <3>3. \A p \in PIDs : Distance(current, p)' = Distance(current, p)
      BY <3>1 DEF Distance
    <3>4. Passed(current, scan)' = Passed(current, NextSlot(scan))
      BY <3>1 DEF Passed
    <3> QED
      BY <3>1, <3>2, <3>3, <3>4 DEF ScanInv
  <2>2. CASE Schedule
    <3>1. scan' = current /\ current' = current
      BY <2>2 DEF Schedule
    <3>2. Passed(current, scan)' = 0
      <4>1. Passed(current, current) = 0
        BY <2>0, RingArithmetic DEF PIDs
      <4> QED
        BY <3>1, <4>1 DEF Passed
    <3>3. \A p \in PIDs : Distance(current, p)' >= 0
      <4> SUFFICES ASSUME NEW p \in PIDs PROVE Distance(current, p) >= 0
        BY <3>1 DEF Distance
      <4>1. /\ NPROC \in Nat \ {0} /\ p \in 0..NPROC-1 /\ current \in 0..NPROC-1
            /\ Distance(current, p) = IF p > current THEN p - current - 1
                                      ELSE p - current - 1 + NPROC
        BY <2>0, RingArithmetic DEF PIDs
      <4> QED
        BY <4>1
    <3> QED
      BY <3>2, <3>3 DEF ScanInv
  <2>3. CASE UNCHANGED <<mode, current, scan, p_state>>
    BY <2>3 DEF ScanInv, Distance, Passed
  <2>4. SchedStep \/ Schedule \/ UNCHANGED <<mode, current, scan, p_state>>
    <3>1. CASE SysYield \/ TimerInterrupt \/ PageFault
      BY <3>1 DEF SysYield, TimerInterrupt, PageFault
    <3>2. CASE UNCHANGED vars
      BY <3>2 DEF vars
    <3>3. CASE \/ ProcessSetup \/ RunFirst \/ UserStep \/ SysGetpid \/ SysPageAlloc
               \/ TickLimitPoweroff \/ ResetVectorFault \/ QuitKey
               \/ \E v \in Vectors : TrapPanics(v)
               \/ \E c \in KeyCommands : SoftReboot(c)
      BY <3>3 DEF ProcessSetup, RunFirst, UserStep, SysGetpid, SysPageAlloc,
         TickLimitPoweroff, ResetVectorFault, QuitKey, TrapPanics, Panic,
         SoftReboot, KernelInit, ReturnWith, Run
    <3> QED
      BY <3>1, <3>2, <3>3 DEF Next
  <2> QED
    BY <2>1, <2>2, <2>3, <2>4
<1> QED
  BY <1>1, <1>2, TypeCorrect, PTL DEF Spec

\* Whatever happens while it is looking, schedule() (kernel.c:272-282) runs the
\* first runnable process after the current one in ring order.
THEOREM FirstInRing == Spec => NextInRing
<1> DEFINE First ==
      mode = "sched" /\ mode' = "user" =>
        \A p \in PIDs : p_state[p] = "P_RUNNABLE" =>
          Distance(current, current') <= Distance(current, p)
<1>1. TypeOK /\ ScanInv /\ [Next]_vars => [First]_vars
  <2> SUFFICES ASSUME TypeOK, ScanInv, Next, mode = "sched", mode' = "user",
                      NEW p \in PIDs, p_state[p] = "P_RUNNABLE"
               PROVE  Distance(current, current') <= Distance(current, p)
    OBVIOUS
  <2>1. current' = NextSlot(scan)
    BY DEF Next, ProcessSetup, RunFirst, SchedStep, UserStep, SysGetpid,
       SysYield, SysPageAlloc, TimerInterrupt, PageFault, TickLimitPoweroff,
       TrapPanics, ResetVectorFault, SoftReboot, QuitKey, Entered, Run, KernelInit
  <2>2. Distance(current, NextSlot(scan)) = Passed(current, scan)
    BY RingStep DEF TypeOK
  <2>3. Distance(current, p) >= Passed(current, scan)
    BY DEF ScanInv
  <2> QED
    BY <2>1, <2>2, <2>3
<1> QED
  BY <1>1, TypeCorrect, ScanInvHolds, PTL DEF Spec, NextInRing

-----------------------------------------------------------------------------
(* The mapping, while the machine runs and when it is down *)

LEMMA MappedAlive ==
  ASSUME ~Down
  PROVE  /\ AbsPhase = IF mode = "setup" THEN "loading" ELSE "up"
         /\ AbsLive = {p \in PIDs : p_state[p] = "P_RUNNABLE"}
         /\ AbsContext = [p \in PIDs |-> Context(p)]
         /\ AbsOwner = [pn \in Pages |-> pageinfo[pn].owner]
BY DEF AbsPhase, AbsLive, AbsContext, AbsOwner

LEMMA MappedAliveNext ==
  ASSUME ~Down'
  PROVE  /\ AbsPhase' = IF mode' = "setup" THEN "loading" ELSE "up"
         /\ AbsLive' = {p \in PIDs : p_state'[p] = "P_RUNNABLE"}
         /\ AbsContext' = [p \in PIDs |-> Context(p)']
         /\ AbsOwner' = [pn \in Pages |-> pageinfo'[pn].owner]
BY DEF AbsPhase, AbsLive, AbsContext, AbsOwner

\* A step that ends in a panic or a power-off is GoDown, whatever it was.
LEMMA StopsImplement ==
  ASSUME Down', command' = command
  PROVE  Promise!GoDown
BY DEF AbsPhase, AbsLive, AbsContext, AbsOwner, Promise!GoDown, Promise!NoProcesses

\* Entering kernel() is Boot, whatever the state before it.
LEMMA BootImplements ==
  ASSUME NEW c, KernelInit(c)
  PROVE  Promise!Boot(c)
<1>1. ~Down' /\ mode' = "setup"
  BY DEF KernelInit, Down
<1>2. AbsLive' = {} /\ AbsPhase' = "loading"
  BY <1>1, MappedAliveNext DEF KernelInit
<1>3. AbsContext' = [p \in PIDs |-> ZeroRegisters]
  BY <1>1, MappedAliveNext DEF KernelInit, Context
<1>4. AbsOwner' = InitialOwner
  BY <1>1, MappedAliveNext DEF KernelInit, InitialOwner
<1> QED
  BY <1>2, <1>3, <1>4 DEF Promise!Boot, Promise!NoProcesses, KernelInit

LEMMA InitImplements == Init => Promise!AInit
<1> SUFFICES ASSUME Init PROVE Promise!AInit
  OBVIOUS
<1>1. ~Down /\ mode = "setup"
  BY DEF Init, Down
<1>2. AbsLive = {} /\ AbsPhase = "loading"
  BY <1>1, MappedAlive DEF Init
<1>3. AbsContext = [p \in PIDs |-> ZeroRegisters]
  BY <1>1, MappedAlive DEF Init, Context
<1>4. AbsOwner = InitialOwner
  BY <1>1, MappedAlive DEF Init, InitialOwner
<1> QED
  BY <1>2, <1>3, <1>4 DEF Promise!AInit, Promise!NoProcesses, Init

\* Traps and turns of schedule() that keep every context, the process table and
\* the owners are no steps of the processes.
LEMMA QuietImplements ==
  ASSUME ~Down, ~Down', (mode = "setup") <=> (mode' = "setup"),
         \A p \in PIDs : Context(p)' = Context(p),
         UNCHANGED <<command, p_state, pageinfo>>
  PROVE  UNCHANGED Promise!avars
<1>1. AbsPhase' = AbsPhase
  BY MappedAlive, MappedAliveNext
<1>2. AbsLive' = AbsLive
  BY MappedAlive, MappedAliveNext
<1>3. AbsContext' = AbsContext
  BY MappedAlive, MappedAliveNext
<1>4. AbsOwner' = AbsOwner
  BY MappedAlive, MappedAliveNext
<1> QED
  BY <1>1, <1>2, <1>3, <1>4 DEF Promise!avars

-----------------------------------------------------------------------------
(* The steps *)

\* process_setup() that succeeds loads a process into pages that were free.
LEMMA SetupImplements ==
  ASSUME IInv, ProcessSetup
  PROVE  (setup \in PIDs /\ Promise!Load(setup)) \/ Promise!GoDown
<1> USE Params DEF ParamFacts
<1> DEFINE pid   == setup
           image == Image(ProgramFor(command, pid))
           loads == Unloadable(ReferTable(pageinfo), image) = {}
           foot  == image \cup {StackPage(pid)}
<1>1. /\ mode = "setup" /\ setup <= LastSetup(command) /\ command' = command
      /\ p_registers' = [p_registers EXCEPT ![setup] = ZeroRegisters]
      /\ pageinfo' = SetupInfo(pageinfo, setup, image)
  BY DEF ProcessSetup, SetupInfo
<1>2. CASE ~(loads /\ StackPage(pid) \in Pages)
  <2>1. Down'
    BY <1>2 DEF ProcessSetup, Panic, image, Down
  <2> QED
    BY <1>1, <2>1, StopsImplement
<1>3. CASE loads /\ StackPage(pid) \in Pages
  <2>1. /\ p_state' = [p_state EXCEPT ![pid] = "P_RUNNABLE"] /\ mode' = "setup"
        /\ ~Down /\ ~Down'
    BY <1>1, <1>3 DEF ProcessSetup, image, Down
  <2>2. /\ pid \in 1..LastSetup(command) /\ pid \in PIDs \ {0} /\ Alive
        /\ LastSetup(command) \in 1..NAlloc /\ SetUp = 1..pid-1 /\ NSetUp = pid - 1
    <3>1. mode = "setup" /\ TypeOK
      BY <1>1 DEF IInv
    <3>2. Alive
      BY <3>1 DEF Alive
    <3>3. SetUp = 1..pid-1 /\ NSetUp = pid - 1
      BY <3>1 DEF SetUp, NSetUp
    <3>4. LastSetup(command) \in 1..NAlloc
      BY <3>1, LastSetupRange DEF TypeOK
    <3>5. pid \in 1..LastSetup(command)
      BY <1>1, <3>1 DEF TypeOK
    <3>6. pid \in PIDs \ {0}
      BY <3>4, <3>5 DEF PIDs
    <3> QED
      BY <3>2, <3>3, <3>4, <3>5, <3>6
  <2>3. p_state[pid] = "P_FREE" /\ p_state \in [PIDs -> ProcState]
    BY <2>2 DEF IInv, ProcsInv, TypeOK
  <2>4. /\ pageinfo[kernel_pagetable].refcount \in 1..NPROC-1
        /\ pageinfo \in [Pages -> [owner : -2..NPROC-1, refcount : 0..NPROC]]
    <3>1. pageinfo[kernel_pagetable].refcount = pid /\ TypeOK
      BY <2>2 DEF IInv, TableInv
    <3>2. pid \in 1..NPROC-1
      BY <2>2
    <3> QED
      BY <3>1, <3>2 DEF TypeOK
  <2>5. image \in SUBSET Int
    BY <2>2, ClaimRange DEF IInv
  <2>6. /\ SetupChanges(pageinfo, pid, image, pageinfo')
        /\ SetupLoads(pageinfo, pid, image, pageinfo')
    <3> HIDE DEF image
    <3> QED
      BY <1>1, <1>3, <2>2, <2>4, <2>5, SetupPages
  <2>7. \A pn \in foot : pn \in Pages /\ pageinfo[pn].refcount = 0
    BY <1>1, <1>3, <2>6, StackIsFreeOrOwn DEF SetupLoads
  <2>8. \A pn \in foot : pageinfo[pn].owner = 0
    <3> SUFFICES ASSUME NEW pn \in foot PROVE pageinfo[pn].owner = 0
      OBVIOUS
    <3>1. pn \in Pages /\ pageinfo[pn].refcount = 0
      BY <2>7
    <3> QED
      BY <3>1 DEF IInv, PageInv, PO_FREE
  <2>9. \A pn \in Pages : pageinfo'[pn].owner = IF pn \in foot THEN pid ELSE pageinfo[pn].owner
    <3> SUFFICES ASSUME NEW pn \in Pages
                 PROVE  pageinfo'[pn].owner = IF pn \in foot THEN pid ELSE pageinfo[pn].owner
      OBVIOUS
    <3>1. CASE pn \in foot
      BY <1>3, <2>6, <2>7, <3>1 DEF SetupLoads
    <3>2. CASE pn \notin foot
      BY <2>4, <2>6, <3>2 DEF SetupChanges
    <3> QED
      BY <3>1, <3>2
  <2>10. Footprint[command][pid] = foot
    BY <2>2 DEF Footprint, IInv, TypeOK
  <2>11. /\ AbsPhase = "loading" /\ AbsPhase' = AbsPhase /\ pid \notin AbsLive
         /\ AbsLive' = AbsLive \cup {pid}
    BY <1>1, <2>1, <2>2, <2>3, MappedAlive, MappedAliveNext
  <2>12. AbsContext' = [AbsContext EXCEPT ![pid] = ZeroRegisters]
    <3>1. p_registers \in [PIDs -> Registers]
      BY DEF IInv, TypeOK
    <3>2. \A p \in PIDs : Context(p) = p_registers[p] /\ Context(p)' = p_registers'[p]
      BY <1>1, <2>1 DEF Context
    <3>3. /\ AbsContext = [p \in PIDs |-> Context(p)]
          /\ AbsContext' = [p \in PIDs |-> Context(p)']
      BY <2>1, MappedAlive, MappedAliveNext
    <3>4. pid \in PIDs /\ p_registers' = [p_registers EXCEPT ![pid] = ZeroRegisters]
      BY <1>1, <2>2
    <3> QED
      BY <3>1, <3>2, <3>3, <3>4
  <2>13. \A pn \in foot : pn \in Pages /\ AbsOwner[pn] = 0
    BY <2>1, <2>7, <2>8, MappedAlive
  <2>14. AbsOwner' = [pn \in Pages |-> IF pn \in foot THEN pid ELSE AbsOwner[pn]]
    BY <2>1, <2>9, MappedAlive, MappedAliveNext
  <2> HIDE DEF foot
  <2> QED
    BY <1>1, <2>2, <2>10, <2>11, <2>12, <2>13, <2>14 DEF Promise!Load
<1> QED
  BY <1>2, <1>3

\* run() on the first process starts the machine.
LEMMA RunFirstImplements ==
  ASSUME IInv, RunFirst
  PROVE  Promise!Start
<1>1. /\ mode = "setup" /\ mode' = "user" /\ ~Down /\ ~Down'
      /\ UNCHANGED <<command, p_state, p_registers, pageinfo>>
  BY DEF RunFirst, Run, Down, procs, memory
<1>2. AbsPhase = "loading" /\ AbsPhase' = "up"
  BY <1>1, MappedAlive, MappedAliveNext
<1>3. AbsContext' = AbsContext
  <2>1. \A p \in PIDs : Context(p)' = Context(p)
    BY <1>1 DEF RunFirst, Run, Context
  <2> QED
    BY <1>1, <2>1, MappedAlive, MappedAliveNext
<1>4. AbsLive' = AbsLive /\ AbsOwner' = AbsOwner
  BY <1>1, MappedAlive, MappedAliveNext
<1> QED
  BY <1>1, <1>2, <1>3, <1>4 DEF Promise!Start

\* A turn of schedule()'s loop, whether it runs a process or passes one over.
LEMMA SchedImplements ==
  ASSUME IInv, SchedStep
  PROVE  UNCHANGED Promise!avars
<1>1. mode = "sched" /\ mode' \in {"sched", "user"} /\ ~Down /\ ~Down'
      /\ UNCHANGED <<command, p_state, p_registers, pageinfo>>
  BY DEF SchedStep, Run, Down, procs, memory
<1>2. \A p \in PIDs : Context(p)' = Context(p)
  BY <1>1 DEF SchedStep, Run, Context
<1> QED
  BY <1>1, <1>2, QuietImplements

\* Leaving exception() through schedule() saves the running process's context.
LEMMA SavedContext ==
  ASSUME IInv, mode = "user", p_registers' = SavedRegisters, mode' # "user"
  PROVE  \A p \in PIDs : Context(p)' = Context(p)
BY DEF IInv, TypeOK, SavedRegisters, Context

\* sys_yield() and the timer change nothing a process could see.
LEMMA YieldImplements ==
  ASSUME IInv, SysYield \/ TimerInterrupt
  PROVE  UNCHANGED Promise!avars
<1>1. /\ mode = "user" /\ mode' = "sched" /\ ~Down /\ ~Down'
      /\ p_registers' = SavedRegisters
      /\ UNCHANGED <<command, p_state, pageinfo>>
  BY DEF SysYield, TimerInterrupt, Entered, Schedule, Down, memory
<1>2. \A p \in PIDs : Context(p)' = Context(p)
  BY <1>1, SavedContext
<1> QED
  BY <1>1, <1>2, QuietImplements

\* The process that runs is live.
LEMMA CurrentLive ==
  ASSUME IInv, mode = "user"
  PROVE  /\ ~Down /\ current \in PIDs /\ current \in AbsLive /\ AbsPhase = "up"
         /\ AbsContext[current] = cpu
<1>1. ~Down /\ Alive /\ current \in PIDs
  BY DEF Down, Alive, IInv, TypeOK
<1>2. p_state[current] = "P_RUNNABLE"
  BY <1>1 DEF IInv, ProcsInv
<1> QED
  BY <1>1, <1>2, MappedAlive DEF Context

\* A step that changes nothing but the running process's registers.
LEMMA OwnStepImplements ==
  ASSUME IInv, mode = "user", mode' = "user", current' = current,
         cpu' \in Registers,
         \A p \in PIDs \ {current} : p_registers'[p] = p_registers[p],
         UNCHANGED <<command, p_state, pageinfo>>
  PROVE  Promise!Compute(current)
<1>1. ~Down' /\ ~Down /\ current \in PIDs /\ current \in AbsLive /\ AbsPhase = "up"
  BY CurrentLive DEF Down
<1>2. AbsPhase' = AbsPhase /\ AbsLive' = AbsLive /\ AbsOwner' = AbsOwner
  BY <1>1, MappedAlive, MappedAliveNext
<1>3. AbsContext' = [AbsContext EXCEPT ![current] = cpu']
  <2>1. \A p \in PIDs : Context(p)' = IF p = current THEN cpu' ELSE Context(p)
    BY DEF Context
  <2> QED
    BY <1>1, <2>1, MappedAlive, MappedAliveNext
<1> QED
  BY <1>1, <1>2, <1>3 DEF Promise!Compute

\* A trap that returns to the process at once.
LEMMA ReturnImplements ==
  ASSUME IInv, mode = "user", NEW rax \in {-1} \cup PIDs, ReturnWith(rax),
         UNCHANGED <<command, p_state, pageinfo>>
  PROVE  Promise!Compute(current)
<1>1. mode' = "user" /\ current' = current /\ cpu' = p_registers'[current]
      /\ p_registers' = [SavedRegisters EXCEPT ![current].rax = rax]
  BY DEF ReturnWith, Run
<1>2. TypeOK /\ current \in PIDs
  BY DEF IInv, TypeOK
<1>3. p_registers' \in [PIDs -> Registers]
  BY <1>1, <1>2, SavedType
<1>4. \A p \in PIDs \ {current} : p_registers'[p] = p_registers[p]
  BY <1>1, <1>2 DEF SavedRegisters, TypeOK
<1> QED
  BY <1>1, <1>2, <1>3, <1>4, OwnStepImplements

\* sys_page_alloc() hands out a page that was nobody's.
LEMMA PageAllocImplements ==
  ASSUME IInv, SysPageAlloc
  PROVE  Promise!Compute(current) \/ Promise!PageAlloc(current)
<1> USE Params DEF ParamFacts
<1>1. mode = "user" /\ UNCHANGED <<command, p_state>> /\ TypeOK /\ current \in PIDs
  BY DEF SysPageAlloc, Entered, IInv, TypeOK
<1>2. CASE ~Assignable(pageinfo, cpu.rdi)
  <2>1. ReturnWith(-1) /\ pageinfo' = pageinfo
    BY <1>2 DEF SysPageAlloc, memory
  <2> QED
    BY <1>1, <2>1, ReturnImplements
<1>3. CASE Assignable(pageinfo, cpu.rdi)
  <2> DEFINE pn == cpu.rdi.pn
  <2>1. /\ pn \in Pages /\ pageinfo[pn].refcount = 0 /\ cpu.rdi.aligned
        /\ pageinfo' = Assign(pageinfo, pn, current)
        /\ ReturnWith(0)
    BY <1>3 DEF SysPageAlloc, Assignable
  <2>2. /\ mode' = "user" /\ current' = current /\ cpu' = p_registers'[current]
        /\ p_registers' = [SavedRegisters EXCEPT ![current].rax = 0]
    BY <2>1 DEF ReturnWith, Run
  <2>3. /\ ~Down' /\ ~Down /\ current \in AbsLive /\ AbsPhase = "up"
        /\ AbsContext[current] = cpu
    BY <1>1, <2>2, CurrentLive DEF Down
  <2>4. AbsPhase' = AbsPhase /\ AbsLive' = AbsLive
    BY <1>1, <2>2, <2>3, MappedAlive, MappedAliveNext
  <2>5. pageinfo[pn].owner = 0
    BY <2>1 DEF IInv, PageInv, PO_FREE
  <2>6. AbsOwner[pn] = 0 /\ AbsOwner' = [AbsOwner EXCEPT ![pn] = current]
    <3> HIDE DEF pn
    <3>1. \A q \in Pages : pageinfo'[q].owner = IF q = pn THEN current ELSE pageinfo[q].owner
      BY <1>1, <2>1 DEF Assign, TypeOK
    <3>2. /\ AbsOwner = [q \in Pages |-> pageinfo[q].owner]
          /\ AbsOwner' = [q \in Pages |-> pageinfo'[q].owner]
      BY <2>3, MappedAlive, MappedAliveNext
    <3> QED
      BY <2>1, <2>5, <3>1, <3>2
  <2>7. AbsContext' = [AbsContext EXCEPT ![current].rax = 0]
    <3>1. \A p \in PIDs : Context(p)' = IF p = current THEN [cpu EXCEPT !.rax = 0]
                                                      ELSE Context(p)
      BY <1>1, <2>2 DEF Context, SavedRegisters, TypeOK
    <3>2. \A p \in PIDs : AbsContext[p] = Context(p)
      BY <2>3, MappedAlive
    <3> QED
      BY <1>1, <2>3, <3>1, <3>2, MappedAlive, MappedAliveNext
  <2> QED
    BY <1>1, <2>1, <2>3, <2>4, <2>6, <2>7 DEF Promise!PageAlloc
<1> QED
  BY <1>2, <1>3

\* A page fault ends the process, and its pages stay its own.
LEMMA FaultImplements ==
  ASSUME IInv, PageFault
  PROVE  Promise!Break(current)
<1>1. /\ mode = "user" /\ mode' = "sched" /\ ~Down'
      /\ p_registers' = SavedRegisters
      /\ p_state' = [p_state EXCEPT ![current] = "P_BROKEN"]
      /\ UNCHANGED <<command, pageinfo>>
  BY DEF PageFault, Entered, Schedule, Down, memory
<1>2. ~Down /\ current \in AbsLive /\ AbsPhase = "up" /\ current \in PIDs
  BY <1>1, CurrentLive
<1>3. AbsPhase' = AbsPhase /\ AbsOwner' = AbsOwner
  BY <1>1, <1>2, MappedAlive, MappedAliveNext
<1>4. AbsLive' = AbsLive \ {current}
  <2>1. p_state \in [PIDs -> ProcState]
    BY DEF IInv, TypeOK
  <2> QED
    BY <1>1, <1>2, <2>1, MappedAlive, MappedAliveNext
<1>5. AbsContext' = AbsContext
  BY <1>1, <1>2, SavedContext, MappedAlive, MappedAliveNext
<1> QED
  BY <1>1, <1>2, <1>3, <1>4, <1>5 DEF Promise!Break

-----------------------------------------------------------------------------
(* The theorem *)

LEMMA StepImplements ==
  ASSUME IInv, [Next]_vars
  PROVE  [Promise!ANext]_(Promise!avars)
<1> USE DEF Promise!ANext
<1>0. TypeOK /\ current \in PIDs /\ 0 \in PIDs /\ DOMAIN Footprint = Commands
  BY Params DEF IInv, TypeOK, ParamFacts, Footprint
<1>1. CASE ProcessSetup
  BY <1>1, SetupImplements
<1>2. CASE RunFirst
  BY <1>2, RunFirstImplements
<1>3. CASE SchedStep
  BY <1>3, SchedImplements
<1>4. CASE UserStep
  <2>1. Promise!Compute(current)
    BY <1>4, OwnStepImplements DEF UserStep, procs, memory
  <2> QED
    BY <1>0, <2>1
<1>5. CASE SysGetpid
  <2>1. Promise!Compute(current)
    BY <1>0, <1>5, ReturnImplements DEF SysGetpid, Entered, memory
  <2> QED
    BY <1>0, <2>1
<1>6. CASE SysYield \/ TimerInterrupt
  BY <1>6, YieldImplements
<1>7. CASE SysPageAlloc
  BY <1>0, <1>7, PageAllocImplements
<1>8. CASE PageFault
  BY <1>0, <1>8, FaultImplements
<1>9. CASE TickLimitPoweroff \/ QuitKey \/ \E v \in Vectors : TrapPanics(v)
  <2>1. Down' /\ command' = command
    BY <1>9 DEF TickLimitPoweroff, QuitKey, TrapPanics, Panic, Down
  <2> QED
    BY <2>1, StopsImplement
<1>10. CASE ResetVectorFault
  BY <1>0, <1>10, BootImplements DEF ResetVectorFault, Commands
<1>11. CASE \E c \in KeyCommands : SoftReboot(c)
  BY <1>0, <1>11, BootImplements DEF SoftReboot, Commands
<1>12. CASE UNCHANGED vars
  <2>1. UNCHANGED <<mode, command, p_state, p_registers, current, cpu, pageinfo>>
    BY <1>12 DEF vars
  <2>2. UNCHANGED <<AbsPhase, AbsLive, AbsContext, AbsOwner>>
    BY <2>1 DEF AbsPhase, AbsLive, AbsContext, AbsOwner, Down, Context
  <2> QED
    BY <2>1, <2>2 DEF Promise!avars
<1> QED
  BY <1>1, <1>2, <1>3, <1>4, <1>5, <1>6, <1>7, <1>8, <1>9, <1>10, <1>11, <1>12 DEF Next

\* The kernel keeps what Processes.tla promises its processes, for every memory
\* layout, set of images and number of processes: a process computes as if it
\* were alone, each page it is given was free, and no page changes hands before
\* the next boot.
THEOREM PromiseKept == Spec => KeepsPromise
<1>1. Init => Promise!AInit
  BY InitImplements
<1>2. IInv /\ [Next]_vars => [Promise!ANext]_(Promise!avars)
  BY StepImplements
<1> QED
  BY <1>1, <1>2, Inductive, PTL DEF Spec, KeepsPromise, Promise!ASpec

-----------------------------------------------------------------------------
(***************************************************************************)
(* The log of memory dumps: the kernel that writes it is the kernel of     *)
(* Kernel.tla, and the analyser accepts every log it can write.            *)
(***************************************************************************)
\* Keeping a log takes nothing from the kernel and adds nothing to it.
LEMMA DumpStepIsStep == [DumpNext]_dumpVars => [Next]_vars
BY DEF DumpNext, OtherTrap, TimerTrap, KeyTyped, Reset, Between, Next, dumpVars

\* A machine that writes its log behaves as Kernel.tla says, so that every
\* theorem about the kernel holds of it (kernel.c:200-206 writes, and touches no
\* state of the kernel).
THEOREM LoggingIsInvisible == DumpSpec => Spec
<1>1. DumpInit => Init
  BY DEF DumpInit
<1> QED
  BY <1>1, DumpStepIsStep, PTL DEF DumpSpec, Spec

\* The kernel's own invariant, and the tick limit, in a machine that logs.
THEOREM TicksBoundedInLog == DumpSpec => []TicksNeverPassLimit
BY LoggingIsInvisible, TicksBounded, PTL

-----------------------------------------------------------------------------
(* What a dump shows *)

\* The kernel's map is the identity on physical memory, with every permission,
\* and this is all either invariant of the analyser asks for.
LEMMA DumpIsAccepted ==
  ASSUME kmap = KernelMap
  PROVE  CheckOwnershipInvariant /\ CheckCGAAccessInvariant
<1> USE Params DEF ParamFacts
<1>1. CheckOwnershipInvariant
  BY DEF CheckOwnershipInvariant, VMEntry, KernelMap, UserPTE, NotMapped, Pages
<1>2. CheckCGAAccessInvariant
  BY DumpAssumption, LayoutAssumption
  DEF CheckCGAAccessInvariant, VMEntry, KernelMap, UserPTE, Pages
<1> QED
  BY <1>1, <1>2

-----------------------------------------------------------------------------
(* The log *)

GoodDump == [tick : Nat, ok : {TRUE}]
Dumps == Seq(GoodDump)

\* The log keeps up with the clock: it has one dump for each period that has
\* begun, while the bound on the log leaves room for them.
LogInv ==
  /\ dumps \in Dumps /\ Len(dumps) <= MaxDumps /\ restarted \in BOOLEAN
  /\ ~restarted =>
       /\ \A i \in 1 .. Len(dumps) : dumps[i].tick = (i - 1) * HZ
       /\ TickLimit > 0 /\ Alive =>
            /\ Len(dumps) * HZ < ticks + HZ
            /\ ticks <= Len(dumps) * HZ \/ Len(dumps) = MaxDumps

\* A multiple of HZ between two neighbouring ones is the lower of them.
LEMMA Period ==
  ASSUME NEW n \in Nat, NEW t \in Nat, t % HZ = 0,
         n * HZ < t + HZ, t <= n * HZ
  PROVE  t = n * HZ
<1>1. HZ \in Nat \ {0}
  BY DumpAssumption
<1>2. PICK k \in Nat : t = k * HZ
  <2> DEFINE q == t \div HZ
             m == t % HZ
  <2>1. q \in Nat /\ t = HZ * q + m
    BY <1>1
  <2>2. m = 0
    OBVIOUS
  <2> HIDE DEF q, m
  <2>3. t = HZ * q
    BY <1>1, <2>1, <2>2
  <2>4. HZ * q = q * HZ
    BY <1>1, <2>1
  <2> QED
    BY <2>1, <2>3, <2>4
<1>3. k <= n
  <2> SUFFICES ASSUME k >= n + 1 PROVE FALSE
    BY <1>2
  <2>1. k * HZ >= n * HZ + HZ
    BY <1>1, <1>2
  <2> QED
    BY <1>1, <1>2, <2>1
<1>4. k >= n
  <2> SUFFICES ASSUME n >= k + 1 PROVE FALSE
    BY <1>2
  <2>1. n * HZ >= k * HZ + HZ
    BY <1>1, <1>2
  <2> QED
    BY <1>1, <1>2, <2>1
<1> QED
  BY <1>2, <1>3, <1>4

\* Writing a dump, or not, keeps the log in order.
LEMMA DumpKeepsOrder ==
  ASSUME IInv, LogInv, Alive, ticks \in Nat
  PROVE  /\ Dump \in Dumps /\ Len(Dump) <= MaxDumps
         /\ ~restarted => \A i \in 1 .. Len(Dump) : Dump[i].tick = (i - 1) * HZ
         /\ TickLimit > 0 /\ ~restarted =>
              /\ Len(Dump) * HZ < ticks + 1 + HZ
              /\ ticks + 1 <= Len(Dump) * HZ \/ Len(Dump) = MaxDumps
<1>0. HZ \in Nat \ {0} /\ MaxDumps \in Nat
  BY DumpAssumption
<1>1. dumps \in Dumps /\ Len(dumps) \in Nat /\ Len(dumps) * HZ \in Nat
  BY <1>0 DEF LogInv, Dumps
<1>2. CASE TickLimit > 0 /\ ticks % HZ = 0 /\ Len(dumps) < MaxDumps
  <2> DEFINE d == [tick |-> ticks, ok |-> TRUE]
  <2>1. Dump = Append(dumps, d)
    BY <1>2, DumpIsAccepted DEF Dump, IInv
  <2>2. d \in GoodDump
    BY DEF GoodDump
  <2>3. /\ Append(dumps, d) \in Dumps
        /\ Len(Append(dumps, d)) = Len(dumps) + 1
        /\ Append(dumps, d)[Len(dumps) + 1] = d
        /\ \A i \in 1 .. Len(dumps) : Append(dumps, d)[i] = dumps[i]
    BY <1>1, <2>2 DEF Dumps
  <2>4. ASSUME ~restarted
        PROVE  ticks = Len(dumps) * HZ
    BY <1>1, <1>2, <2>4, Period DEF LogInv
  <2>5. (Len(dumps) + 1) * HZ = Len(dumps) * HZ + HZ
    BY <1>0, <1>1
  <2>6. ASSUME ~restarted, NEW i \in 1 .. Len(dumps) + 1
        PROVE  Append(dumps, d)[i].tick = (i - 1) * HZ
    <3>1. CASE i = Len(dumps) + 1
      BY <1>1, <2>3, <2>4, <2>6, <3>1
    <3>2. CASE i \in 1 .. Len(dumps)
      BY <2>3, <2>6, <3>2 DEF LogInv
    <3> QED
      BY <1>1, <2>6, <3>1, <3>2
  <2> HIDE DEF d
  <2>7. ~restarted => /\ (Len(dumps) + 1) * HZ < ticks + 1 + HZ
                      /\ ticks + 1 <= (Len(dumps) + 1) * HZ
    BY <1>0, <1>1, <2>4, <2>5
  <2> QED
    BY <1>0, <1>1, <1>2, <2>1, <2>3, <2>6, <2>7
<1>3. CASE ~(TickLimit > 0 /\ ticks % HZ = 0 /\ Len(dumps) < MaxDumps)
  <2>1. Dump = dumps
    BY <1>3 DEF Dump
  <2>2. ASSUME TickLimit > 0, ~restarted
        PROVE  /\ Len(dumps) * HZ < ticks + 1 + HZ
               /\ ticks + 1 <= Len(dumps) * HZ \/ Len(dumps) = MaxDumps
    <3>1. Len(dumps) * HZ < ticks + HZ /\ (ticks <= Len(dumps) * HZ \/ Len(dumps) = MaxDumps)
      BY <2>2 DEF LogInv
    <3>2. CASE ticks = Len(dumps) * HZ /\ Len(dumps) < MaxDumps
      <4>1. (Len(dumps) * HZ) % HZ = 0
        BY <1>0, <1>1
      <4> QED
        BY <1>3, <2>2, <3>2, <4>1
    <3>3. CASE ticks # Len(dumps) * HZ \/ ~(Len(dumps) < MaxDumps)
      <4>1. Len(dumps) <= MaxDumps
        BY DEF LogInv
      <4> QED
        BY <1>0, <1>1, <3>1, <3>3, <4>1
    <3> QED
      BY <3>2, <3>3
  <2> QED
    BY <1>0, <1>1, <2>1, <2>2 DEF LogInv
<1> QED
  BY <1>2, <1>3

LEMMA LogInit == DumpInit => LogInv
<1> SUFFICES ASSUME DumpInit PROVE LogInv
  OBVIOUS
<1>1. /\ dumps = <<>> /\ ticks = 0 /\ restarted \in BOOLEAN
      /\ HZ \in Nat \ {0} /\ MaxDumps \in Nat
  BY DumpAssumption DEF DumpInit, Init
<1>2. dumps \in Dumps /\ Len(dumps) = 0 /\ Len(dumps) * HZ = 0
  BY <1>1 DEF Dumps
<1> QED
  BY <1>1, <1>2 DEF LogInv

LEMMA LogStep ==
  ASSUME IInv, TicksNeverPassLimit, LogInv, [DumpNext]_dumpVars
  PROVE  LogInv'
<1> USE Params DEF ParamFacts
<1>0. ticks \in 0..TickMod-1 /\ ticks \in Nat /\ TickMod \in Nat \ {0}
  BY BuildAssumption DEF IInv, TypeOK
<1>1. CASE TimerTrap
  <2>1. /\ TimerInterrupt /\ Entered /\ dumps' = Dump /\ restarted' = restarted
        /\ ticks' = (ticks + 1) % TickMod /\ Alive
    BY <1>1 DEF TimerTrap, TimerInterrupt, Entered, Alive
  <2>2. TickLimit > 0 => ticks' = ticks + 1
    <3> SUFFICES ASSUME TickLimit > 0 PROVE ticks' = ticks + 1
      OBVIOUS
    <3>1. TickLimit \in 0..TickMod-1 /\ ticks + 1 <= TickLimit
      BY <1>0, <2>1, BuildAssumption DEF Entered, AtTickLimit, TicksNeverPassLimit
    <3>2. ticks + 1 \in 0..TickMod-1
      BY <1>0, <3>1
    <3>3. (ticks + 1) % TickMod = ticks + 1
      BY <1>0, <3>2
    <3> QED
      BY <2>1, <3>3
  <2> QED
    BY <1>0, <2>1, <2>2, DumpKeepsOrder DEF LogInv
<1>2. CASE KeyTyped
  <2>1. CASE mode' = "setup"
    <3>1. restarted' = TRUE /\ (dumps' = dumps \/ (Alive /\ dumps' = Dump))
      BY <1>2, <2>1 DEF KeyTyped, Alive
    <3> QED
      BY <1>0, <3>1, DumpKeepsOrder DEF LogInv
  <2>2. CASE mode' # "setup"
    <3>1. ~Alive' /\ (dumps' = dumps \/ (Alive /\ dumps' = Dump))
      BY <1>2, <2>2 DEF KeyTyped, Alive, SoftReboot, KernelInit, QuitKey
    <3>2. restarted \in BOOLEAN /\ restarted' = (restarted \/ mode' = "setup")
      BY <1>2 DEF KeyTyped, LogInv
    <3>3. restarted' = restarted
      BY <2>2, <3>2, Zenon
    <3> QED
      BY <1>0, <3>1, <3>3, DumpKeepsOrder DEF LogInv
  <2> QED
    BY <2>1, <2>2
<1>3. CASE Reset
  BY <1>3 DEF Reset, LogInv
<1>4. CASE OtherTrap \/ Between
  <2>1. UNCHANGED <<dumps, restarted, ticks>> /\ (Alive' => Alive)
    BY <1>4 DEF OtherTrap, Between, SysGetpid, SysYield, SysPageAlloc, PageFault,
       ProcessSetup, RunFirst, SchedStep, UserStep, TickLimitPoweroff, TrapPanics,
       Entered, Alive
  <2> QED
    BY <2>1 DEF LogInv
<1>5. CASE UNCHANGED dumpVars
  <2>1. UNCHANGED <<dumps, restarted, ticks, mode>>
    BY <1>5 DEF dumpVars, vars
  <2> QED
    BY <2>1 DEF LogInv, Alive
<1> QED
  BY <1>1, <1>2, <1>3, <1>4, <1>5 DEF DumpNext

LEMMA LogInvHolds == DumpSpec => []LogInv
<1>1. DumpInit => LogInv
  BY LogInit
<1>2. IInv /\ TicksNeverPassLimit /\ LogInv /\ [DumpNext]_dumpVars => LogInv'
  BY LogStep
<1>3. DumpSpec => []IInv
  BY LoggingIsInvisible, Inductive, PTL
<1> QED
  BY <1>1, <1>2, <1>3, TicksBoundedInLog, PTL DEF DumpSpec

\* parse_log.py reads every log the kernel writes: each dump passes both of its
\* invariants, and no tick occurs twice (parse_log.py asserts it), for every
\* limit, period, layout and behaviour of the processes.
THEOREM LogAccepted == DumpSpec => []LogReadable
<1>1. LogInv => LogReadable
  <2> SUFFICES ASSUME LogInv PROVE LogReadable
    OBVIOUS
  <2>1. ASSUME NEW i \in 1 .. Len(dumps) PROVE dumps[i].ok
    <3>1. dumps[i] \in GoodDump
      BY DEF LogInv, Dumps
    <3>2. dumps[i].ok = TRUE
      BY <3>1 DEF GoodDump
    <3> QED
      BY <3>2, Zenon
  <2> QED
    BY <2>1, Zenon DEF LogInv, LogReadable, DumpsAccepted
<1> QED
  BY <1>1, LogInvHolds, PTL

\* The last dump before the power-off at the tick limit is the one parse_log.py
\* looks for, one period before the limit.
THEOREM LastDumpThere == DumpSpec => LastDumpExpected
<1> DEFINE Last ==
      TickLimitPoweroff /\ ~restarted /\ TickLimit % HZ = 0 =>
        dumps # <<>> /\ dumps[Len(dumps)].tick = TickLimit - HZ
<1>1. IInv /\ LogInv => Last
  <2> SUFFICES ASSUME IInv, LogInv, TickLimitPoweroff, ~restarted, TickLimit % HZ = 0
               PROVE  dumps # <<>> /\ dumps[Len(dumps)].tick = TickLimit - HZ
    OBVIOUS
  <2> DEFINE n == Len(dumps)
  <2>0. HZ \in Nat \ {0} /\ MaxDumps \in Nat /\ TickLimit <= MaxDumps * HZ
    BY DumpAssumption
  <2>1. TickLimit \in Nat /\ TickLimit > 0 /\ ticks = TickLimit /\ Alive
    BY BuildAssumption DEF TickLimitPoweroff, AtTickLimit, Alive
  <2>2. dumps \in Dumps /\ n \in Nat
    BY DEF LogInv, Dumps
  <2>3. n * HZ < TickLimit + HZ /\ TickLimit <= n * HZ
    BY <2>0, <2>1 DEF LogInv
  <2>4. TickLimit = n * HZ
    BY <2>0, <2>1, <2>2, <2>3, Period
  <2>5. n >= 1
    BY <2>0, <2>1, <2>2, <2>4
  <2>6. dumps[n].tick = (n - 1) * HZ
    BY <2>2, <2>5 DEF LogInv
  <2>7. (n - 1) * HZ = n * HZ - HZ
    BY <2>0, <2>2
  <2> QED
    BY <2>2, <2>4, <2>5, <2>6, <2>7
<1>2. DumpSpec => []IInv
  BY LoggingIsInvisible, Inductive, PTL
<1> QED
  BY <1>1, <1>2, LogInvHolds, PTL DEF LastDumpExpected
=============================================================================
