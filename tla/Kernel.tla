------------------------------- MODULE Kernel -------------------------------
(***************************************************************************)
(* WeensyOS (src/lab4): boot, the exception handler, the scheduler, page   *)
(* ownership and the soft reboot, as shipped (sys_fork and sys_exit are    *)
(* not implemented and panic).                                             *)
(*                                                                         *)
(* Interrupts are disabled whenever the kernel runs, so a pass through     *)
(* exception() is one step, except for the loop of schedule(), which polls *)
(* the keyboard between two process slots and takes one step per slot.     *)
(* Addresses are page numbers; the drawings on the console are left out.   *)
(* Process code is any code that keeps to its own registers and to the     *)
(* system calls: what it writes to memory is not modelled.                 *)
(***************************************************************************)
EXTENDS Integers, FiniteSets

CONSTANTS
  NPROC,            \* number of process descriptors; slot 0 is never used
  NPages,           \* physical pages (MEMSIZE_PHYSICAL / PAGESIZE)
  NVPages,          \* virtual pages a process may touch (MEMSIZE_VIRTUAL)
  ReservedPages,    \* pages for which physical_memory_isreserved()
  KernelPages,      \* kernel text, data and the kernel stack page
  KernelText,       \* the pages of KernelPages below start_data
  PageTables,       \* the pages of kernel_pagetables[5]
  kernel_pagetable, \* the root among them
  ProcStart,        \* page of PROC_START_ADDR
  ProcSize,         \* PROC_SIZE in pages
  NAlloc,           \* number of allocator programs started at boot
  ImageLen,         \* pages of each program's segments, by program number
  ForceFork,        \* FORCE_FORK, a build flag
  TickLimit,        \* TICK_LIMIT, a build flag; 0 when it is not set
  TickMod,          \* 2^32: `ticks` is an unsigned
  Addresses         \* values of %rdi: [pn |-> page, aligned |-> low bits 0]

PO_FREE == 0
PO_RESERVED == -1
PO_KERNEL == -2

PIDs == 0..NPROC-1
Pages == 0..NPages-1
VPages == 0..NVPages-1
Programs == 0..NAlloc+1
NULL == 0           \* as a page table: page 0 is reserved, never a table

ASSUME SizeAssumption ==
  /\ NPROC \in Nat /\ NPages \in Nat /\ NVPages \in Nat
  /\ ProcStart \in Nat /\ ProcSize \in Nat \ {0}
  /\ NAlloc \in Nat \ {0} /\ NAlloc < NPROC /\ NPROC <= 127
  /\ NPages <= NVPages
  /\ ImageLen \in [Programs -> Nat \ {0}]

ASSUME LayoutAssumption ==
  /\ ReservedPages \subseteq Pages /\ KernelPages \subseteq Pages
  /\ ReservedPages \cap KernelPages = {}
  /\ \A pn \in ReservedPages \cup KernelPages : pn < ProcStart
  /\ NULL \in ReservedPages
  /\ KernelText \subseteq KernelPages
  /\ PageTables \subseteq KernelPages \ KernelText
  /\ kernel_pagetable \in PageTables

ASSUME BuildAssumption ==
  /\ ForceFork \in BOOLEAN
  /\ TickMod \in Nat \ {0} /\ TickLimit \in 0..TickMod-1

ASSUME AddressAssumption ==
  /\ Addresses \subseteq [pn : Nat, aligned : BOOLEAN]
  /\ [pn |-> 0, aligned |-> TRUE] \in Addresses

\* x86_64_registers: %rax, which the kernel writes, and %rdi, which stands for
\* the registers it only saves and restores.
Registers == [rax : {-1} \cup PIDs, rdi : Addresses]
ZeroRegisters == [rax |-> 0, rdi |-> [pn |-> 0, aligned |-> TRUE]]

\* The keys a, f, e pass these strings to kernel(); a cold boot passes none.
KeyCommands == {"allocator", "fork", "forkexit"}
Commands == KeyCommands \cup {"none"}

ProcState == {"P_FREE", "P_RUNNABLE", "P_BLOCKED", "P_BROKEN"}

PTE == [pn : Pages \cup {-1}, perm : SUBSET {"P", "W", "U"}]
NotMapped == [pn |-> -1, perm |-> {}]

\* Vectors whose gate leads to exception().  "default" is every vector from 16
\* up without a gate of its own; default_int_handler pushes no vector number.
Vectors ==
  {"INT_SYS_PANIC", "INT_SYS_GETPID", "INT_SYS_YIELD", "INT_SYS_PAGE_ALLOC",
   "INT_SYS_FORK", "INT_SYS_EXIT", "INT_SYS_other", "INT_TIMER", "INT_GPF",
   "INT_PAGEFAULT", "default"}

VARIABLES
  mode,         \* where the CPU is: see Modes
  command,      \* kernel()'s argument
  setup,        \* the next process kernel() sets up, while mode = "setup"
  p_state, p_pagetable, p_registers,   \* the fields of processes[]
  current,      \* p_pid of the `current` descriptor
  cpu,          \* registers of the CPU, while a process runs
  scan,         \* `pid` in schedule(), while mode = "sched"
  pageinfo,     \* pageinfo[]
  kmap,         \* the mapping held by kernel_pagetable
  ticks

vars == <<mode, command, setup, p_state, p_pagetable, p_registers, current,
          cpu, scan, pageinfo, kmap, ticks>>
procs == <<p_state, p_pagetable, p_registers>>
memory == <<pageinfo, kmap>>

Modes == {"setup", "user", "sched", "panic", "off"}

TypeOK ==
  /\ mode \in Modes
  /\ command \in Commands
  /\ setup \in 1..NAlloc+1
  /\ p_state \in [PIDs -> ProcState]
  /\ p_pagetable \in [PIDs -> Pages]
  /\ p_registers \in [PIDs -> Registers]
  /\ current \in PIDs
  /\ cpu \in Registers
  /\ scan \in PIDs
  /\ pageinfo \in [Pages -> [owner : -2..NPROC-1, refcount : 0..NPROC]]
  /\ kmap \in [VPages -> PTE]
  /\ ticks \in 0..TickMod-1

-----------------------------------------------------------------------------
(* Physical pages *)

\* pageinfo_init()
PageinfoInit ==
  [pn \in Pages |->
     CASE pn \in ReservedPages -> [owner |-> PO_RESERVED, refcount |-> 1]
       [] pn \in KernelPages   -> [owner |-> PO_KERNEL,   refcount |-> 1]
       [] OTHER                -> [owner |-> PO_FREE,     refcount |-> 0]]

\* Variation: the reference count is not examined
AssignableUnchecked(info, addr) == addr.aligned /\ addr.pn \in Pages

\* The condition under which assign_physical_page() succeeds ...
Assignable(info, addr) ==
  addr.aligned /\ addr.pn \in Pages /\ info[addr.pn].refcount = 0

\* ... and what it then does.
Assign(info, pn, pid) == [info EXCEPT ![pn] = [owner |-> pid, refcount |-> 1]]

(* Virtual memory: kernel_pagetable is the only page table there is. *)

UserPTE(pn) == [pn |-> pn, perm |-> {"P", "W", "U"}]

\* virtual_memory_init()
KernelMap == [va \in VPages |-> IF va \in Pages THEN UserPTE(va) ELSE NotMapped]

\* virtual_memory_map(pagetable, va, va, PAGESIZE, PTE_P|PTE_W|PTE_U, NULL)
\* for every page of a set
MapPages(map, S) == [va \in VPages |-> IF va \in S THEN UserPTE(va) ELSE map[va]]

(* The kernel's self-checks, made at every entry to exception() *)

CheckPageTableMappings ==
  \A va \in KernelPages :
    /\ kmap[va].pn = va
    /\ va \in KernelPages \ KernelText => "W" \in kmap[va].perm

TableUsers == {p \in PIDs : /\ p_state[p] # "P_FREE"
                            /\ p_pagetable[p] = kernel_pagetable}

CheckPageTableOwnership ==
  \A pt \in PageTables :
    /\ pageinfo[pt].owner = PO_KERNEL
    /\ pageinfo[pt].refcount =
         IF pt = kernel_pagetable THEN 1 + Cardinality(TableUsers) ELSE 1

\* No process has a page table of its own, so only the kernel's is examined.
CheckVirtualMemory ==
  /\ p_state[0] = "P_FREE"
  /\ CheckPageTableMappings
  /\ CheckPageTableOwnership
  /\ \A pn \in Pages : pageinfo[pn].refcount > 0 /\ pageinfo[pn].owner >= 0
                         => p_state[pageinfo[pn].owner] # "P_FREE"

-----------------------------------------------------------------------------
(* Boot *)

\* Everything kernel() does, with argument c, before the first process_setup().
\* `current` and `ticks` are not reset here: the caller says what becomes of them.
KernelInit(c) ==
  /\ mode' = "setup" /\ command' = c /\ setup' = 1
  /\ p_state' = [p \in PIDs |-> "P_FREE"]
  /\ p_pagetable' = [p \in PIDs |-> NULL]
  /\ p_registers' = [p \in PIDs |-> ZeroRegisters]
  /\ cpu' = ZeroRegisters /\ scan' = 0
  /\ pageinfo' = PageinfoInit
  /\ kmap' = KernelMap

Init ==
  /\ mode = "setup" /\ command = "none" /\ setup = 1
  /\ p_state = [p \in PIDs |-> "P_FREE"]
  /\ p_pagetable = [p \in PIDs |-> NULL]
  /\ p_registers = [p \in PIDs |-> ZeroRegisters]
  /\ cpu = ZeroRegisters /\ scan = 0
  /\ pageinfo = PageinfoInit
  /\ kmap = KernelMap
  /\ current = 0 /\ ticks = 0

SingleProcess(c) == ForceFork \/ c \in {"fork", "forkexit"}
LastSetup(c) == IF SingleProcess(c) THEN 1 ELSE NAlloc

\* The program number process pid is set up with, under command c
ProgramFor(c, pid) ==
  IF ~SingleProcess(c) THEN pid - 1
  ELSE IF ~ForceFork /\ c = "forkexit" THEN NAlloc + 1 ELSE NAlloc

\* Allocator number n is linked for process n+1's region, the fork programs for
\* process 1's.
ProgramBase(prog) ==
  ProcStart + ProcSize * (IF prog < NAlloc THEN prog ELSE 0)
Image(prog) == ProgramBase(prog) .. ProgramBase(prog) + ImageLen[prog] - 1

\* reg_rsp - PAGESIZE, in pages
StackPage(pid) == ProcStart + ProcSize * pid - 1

\* panic() and fail(): a build with TICK_LIMIT powers off at once.
Panic == mode' = IF TickLimit > 0 THEN "off" ELSE "panic"

\* The pages of an image program_load_segment() has assigned when it returns:
\* all of them, or those below the first one it cannot have.
Unloadable(info, S) ==
  {pn \in S : ~Assignable(info, [pn |-> pn, aligned |-> TRUE])}
Loaded(info, S) == {pn \in S : \A u \in Unloadable(info, S) : pn < u}

\* Variation: process_setup() forgets the reference to the kernel's page table
ReferNothing(info) == info

ReferTable(info) == [info EXCEPT ![kernel_pagetable].refcount = @ + 1]
AssignAll(info, S, pid) ==
  [pn \in Pages |-> IF pn \in S THEN [owner |-> pid, refcount |-> 1]
                                ELSE info[pn]]

\* Variation: %rsp itself, not %rsp - PAGESIZE, is taken for the stack page
AssignAboveStack(info, pid) ==
  IF Assignable(info, [pn |-> StackPage(pid) + 1, aligned |-> TRUE])
  THEN Assign(info, StackPage(pid) + 1, pid) ELSE info

\* The stack page's own assign_physical_page() may fail, and its result is
\* dropped: the page is mapped all the same.
AssignStack(info, pid) ==
  IF Assignable(info, [pn |-> StackPage(pid), aligned |-> TRUE])
  THEN Assign(info, StackPage(pid), pid) ELSE info

\* process_setup(pid, program): it stops at `assert(r >= 0)` when the image does
\* not fit, and in virtual_memory_map() when the stack page is no physical page.
ProcessSetup ==
  /\ mode = "setup" /\ setup <= LastSetup(command)
  /\ LET pid      == setup
         image    == Image(ProgramFor(command, pid))
         referred == ReferTable(pageinfo)
         loads    == Unloadable(referred, image) = {}
         loaded   == AssignAll(referred, Loaded(referred, image), pid)
         stack    == IF loads THEN {StackPage(pid)} ELSE {}
     IN /\ p_registers' = [p_registers EXCEPT ![pid] = ZeroRegisters]
        /\ p_pagetable' = [p_pagetable EXCEPT ![pid] = kernel_pagetable]
        /\ pageinfo' = IF loads THEN AssignStack(loaded, pid) ELSE loaded
        /\ kmap' = MapPages(kmap, Loaded(referred, image) \cup (stack \cap Pages))
        /\ IF loads /\ StackPage(pid) \in Pages
           THEN /\ p_state' = [p_state EXCEPT ![pid] = "P_RUNNABLE"]
                /\ setup' = setup + 1 /\ UNCHANGED mode
           ELSE Panic /\ UNCHANGED <<p_state, setup>>
  /\ UNCHANGED <<command, current, cpu, scan, ticks>>

-----------------------------------------------------------------------------
(* Switching *)

\* run(p), with the descriptors as they are after the step.  Its assertion is
\* part of SelfChecksPass.
Run(p) ==
  /\ mode' = "user" /\ current' = p /\ cpu' = p_registers'[p] /\ scan' = 0

\* Variation: schedule() starts from slot 0 every time
ScheduleFromZero ==
  /\ mode' = "sched" /\ scan' = 0 /\ cpu' = ZeroRegisters
  /\ UNCHANGED current

\* Entering schedule(): the CPU's registers now belong to the kernel.
Schedule ==
  /\ mode' = "sched" /\ scan' = current /\ cpu' = ZeroRegisters
  /\ UNCHANGED current

\* Variation: the trap frame is not copied
NothingSaved == p_registers

\* exception() stores the trap frame in the current descriptor.
SavedRegisters == [p_registers EXCEPT ![current] = cpu]

\* Variation: the slot is advanced twice
NextSlotTwice(pid) == (pid + 2) % NPROC

NextSlot(pid) == (pid + 1) % NPROC

RunFirst ==
  /\ mode = "setup" /\ setup > LastSetup(command)
  /\ setup' = 1
  /\ UNCHANGED <<procs, memory, command, ticks>>
  /\ Run(1)

\* One turn of schedule()'s loop, no key having been typed.
SchedStep ==
  /\ mode = "sched"
  /\ UNCHANGED <<procs, memory, command, setup, ticks>>
  /\ LET pid == NextSlot(scan)
     IN IF p_state[pid] = "P_RUNNABLE"
        THEN Run(pid)
        ELSE scan' = pid /\ UNCHANGED <<mode, current, cpu>>

-----------------------------------------------------------------------------
(* exception() *)

\* Variations: the limit is missed by one; the block is compiled out
AtTickLimitLate == TickLimit > 0 /\ ticks = TickLimit + 1
NoTickLimit == FALSE

AtTickLimit == TickLimit > 0 /\ ticks = TickLimit

\* A trap gets to the switch statement.
Entered == mode = "user" /\ CheckVirtualMemory /\ ~AtTickLimit

\* The running process computes and loads its registers.
UserStep ==
  /\ mode = "user"
  /\ cpu' \in Registers
  /\ UNCHANGED <<mode, command, setup, procs, current, scan, memory, ticks>>

\* The end of exception(): back to `current`, whose %rax has been set.
ReturnWith(rax) ==
  /\ p_registers' = [SavedRegisters EXCEPT ![current].rax = rax]
  /\ Run(current)

SysGetpid ==
  /\ Entered
  /\ ReturnWith(current)
  /\ UNCHANGED <<command, setup, p_state, p_pagetable, memory, ticks>>

SysYield ==
  /\ Entered
  /\ p_registers' = SavedRegisters
  /\ Schedule
  /\ UNCHANGED <<command, setup, p_state, p_pagetable, memory, ticks>>

SysPageAlloc ==
  /\ Entered
  /\ IF Assignable(pageinfo, cpu.rdi)
     THEN /\ pageinfo' = Assign(pageinfo, cpu.rdi.pn, current)
          /\ kmap' = MapPages(kmap, {cpu.rdi.pn})
          /\ ReturnWith(0)
     ELSE /\ ReturnWith(-1)
          /\ UNCHANGED memory
  /\ UNCHANGED <<command, setup, p_state, p_pagetable, ticks>>

TimerInterrupt ==
  /\ Entered
  /\ ticks' = (ticks + 1) % TickMod
  /\ p_registers' = SavedRegisters
  /\ Schedule
  /\ UNCHANGED <<command, setup, p_state, p_pagetable, memory>>

\* The process touches a page it may not read or write.
PageFault ==
  /\ Entered
  /\ \E va \in VPages : ~({"P", "W", "U"} \subseteq kmap[va].perm)
  /\ p_registers' = SavedRegisters
  /\ p_state' = [p_state EXCEPT ![current] = "P_BROKEN"]
  /\ Schedule
  /\ UNCHANGED <<command, setup, p_pagetable, memory, ticks>>

\* A failed self-check, INT_SYS_PANIC, or a vector the switch does not know.
PanicVectors ==
  Vectors \ {"INT_SYS_GETPID", "INT_SYS_YIELD", "INT_SYS_PAGE_ALLOC",
             "INT_TIMER", "INT_PAGEFAULT"}

TrapPanics(vector) ==
  /\ mode = "user" /\ ~AtTickLimit
  /\ CheckVirtualMemory => vector \in PanicVectors
  /\ Panic
  /\ p_registers' = SavedRegisters
  /\ cpu' = ZeroRegisters
  /\ UNCHANGED <<command, setup, p_state, p_pagetable, current, scan, memory,
                 ticks>>

\* Any trap, once `ticks` has reached TICK_LIMIT.
TickLimitPoweroff ==
  /\ mode = "user" /\ AtTickLimit
  /\ mode' = "off"
  /\ p_registers' = SavedRegisters
  /\ cpu' = ZeroRegisters
  /\ UNCHANGED <<command, setup, p_state, p_pagetable, current, scan, memory,
                 ticks>>

\* A divide error, a breakpoint or another vector below 16 for which the
\* interrupt table has no gate: triple fault, and the machine boots anew.
ResetVectorFault ==
  /\ mode = "user"
  /\ KernelInit("none")
  /\ current' = 0 /\ ticks' = 0

-----------------------------------------------------------------------------
(* check_keyboard() *)

\* Where the kernel polls: in exception() before the switch, in schedule() after
\* a slot that is not runnable, and in fail()'s loop.
Polling ==
  \/ Entered
  \/ mode = "sched" /\ p_state[NextSlot(scan)] # "P_RUNNABLE"
  \/ mode = "panic"

\* Keys a, f and e enter kernel() again; no static variable is cleared.
SoftReboot(c) ==
  /\ Polling
  /\ KernelInit(c)
  /\ UNCHANGED <<current, ticks>>

\* Control-C or q
QuitKey ==
  /\ Polling
  /\ mode' = "off"
  /\ UNCHANGED <<command, setup, procs, current, cpu, scan, memory, ticks>>

Next ==
  \/ ProcessSetup \/ RunFirst \/ SchedStep
  \/ UserStep \/ SysGetpid \/ SysYield \/ SysPageAlloc
  \/ TimerInterrupt \/ PageFault \/ TickLimitPoweroff \/ ResetVectorFault
  \/ \E v \in Vectors : TrapPanics(v)
  \/ \E c \in KeyCommands : SoftReboot(c)
  \/ QuitKey

\* The kernel's own code runs on.  A timer interrupt raised while interrupts are
\* off stays pending in the interrupt controller and is taken when a process
\* runs, so it cannot be put off by system calls for ever.  Nothing is assumed
\* of processes and of the keyboard.
Fairness ==
  /\ WF_vars(ProcessSetup) /\ WF_vars(RunFirst) /\ WF_vars(SchedStep)
  /\ SF_vars(TimerInterrupt) /\ WF_vars(TickLimitPoweroff)

Spec == Init /\ [][Next]_vars /\ Fairness

-----------------------------------------------------------------------------
(* Properties *)

Running == mode \in {"user", "sched"}

\* No assertion of check_virtual_memory() (kernel.c:401) or run() (kernel.c:292)
\* can fail: whenever a process runs or is being looked for, the reference count
\* of the kernel's page table agrees with the process table, no page belongs to
\* a free slot, and the process that runs is runnable.
SelfChecksPass ==
  /\ Running => CheckVirtualMemory
  /\ mode = "user" => p_state[current] = "P_RUNNABLE"

\* Page ownership is exact: a page has an owner just when it is referenced, only
\* the kernel's page table is shared, reserved and kernel pages are never handed
\* out, and a process can reach every page it owns at the page's own address.
\* This relates assign_physical_page(), whose callers ignore or propagate its
\* result, to virtual_memory_map(), which is called apart from it.
MemoryAccounted ==
  \A pn \in Pages :
    /\ pageinfo[pn].refcount = 0 <=> pageinfo[pn].owner = PO_FREE
    /\ pageinfo[pn].refcount > 1 => pn = kernel_pagetable
    /\ pn \in ReservedPages <=> pageinfo[pn].owner = PO_RESERVED
    /\ pn \in KernelPages <=> pageinfo[pn].owner = PO_KERNEL
    /\ pageinfo[pn].owner > 0 => kmap[pn] = UserPTE(pn)

\* A process that was set up owns its whole image and its stack page for as long
\* as it exists, although process_setup() drops the result of the assignment of
\* the stack page: when the page is taken it is taken by the process's own
\* image, or the load has failed before.
LoadedProcesses ==
  \A pid \in PIDs : p_state[pid] # "P_FREE" =>
    \A pn \in Image(ProgramFor(command, pid)) \cup {StackPage(pid)} :
      pn \in Pages /\ pageinfo[pn].owner = pid

\* A build with TICK_LIMIT never counts past it, soft reboots (which keep
\* `ticks`) included: the equality test at kernel.c:187 cannot be skipped over.
TicksNeverPassLimit == TickLimit > 0 => ticks <= TickLimit

\* The registers of process p: in the CPU while it runs, else in its descriptor.
Context(p) == IF mode = "user" /\ current = p THEN cpu ELSE p_registers[p]

\* Traps, scheduling and the way back are invisible to a process: on the way
\* into schedule() and out of it no process's registers change, and a trap that
\* returns directly changes those of the current process only.
SwitchTransparent ==
  [][Running /\ Running' =>
       /\ \A p \in PIDs :
            p # current \/ "sched" \in {mode, mode'} => Context(p)' = Context(p)
       /\ mode = "user" /\ mode' = "user" => current' = current]_vars

\* Slots passed over when going round the table from slot a to slot b.
Distance(a, b) == (b - a - 1 + NPROC) % NPROC

\* schedule() takes the first runnable process after the current one, the
\* current one itself coming last, whatever happened while it was looking.
NextInRing ==
  [][mode = "sched" /\ mode' = "user" =>
       \A p \in PIDs : p_state[p] = "P_RUNNABLE" =>
         Distance(current, current') <= Distance(current, p)]_vars

\* No runnable process is starved: it runs again unless it breaks, or the
\* machine panics, is rebooted or switched off.
RunsAgain ==
  \A p \in PIDs :
    Running /\ p_state[p] = "P_RUNNABLE"
      ~> \/ mode = "user" /\ current = p
         \/ p_state[p] # "P_RUNNABLE"
         \/ ~Running

\* An unattended run of a TICK_LIMIT build ends: the machine is switched off,
\* unless processes keep resetting it or every process is broken, when
\* schedule() spins with interrupts disabled and `ticks` stands still.
Idle == mode = "sched" /\ \A p \in PIDs : p_state[p] # "P_RUNNABLE"
ColdBoot == mode = "setup" /\ setup = 1 /\ ticks = 0
TickLimitEndsRun ==
  TickLimit > 0 => <>(mode = "off" \/ Idle) \/ []<>ColdBoot
=============================================================================
