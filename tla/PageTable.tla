----------------------------- MODULE PageTable ------------------------------
(***************************************************************************)
(* Four-level page tables (src/lab4/k-hardware.c): virtual_memory_init(),  *)
(* virtual_memory_map() with its walk lookup_l4pagetable(), and            *)
(* virtual_memory_lookup().                                                *)
(*                                                                         *)
(* Addresses are page numbers.  The two loops take one step per turn, so   *)
(* that every table they leave behind is a state; interrupts are off, and  *)
(* nothing else runs in between.  The allocator is the caller's: it        *)
(* returns a page that is no page table yet, holding anything, or NULL.    *)
(***************************************************************************)
EXTENDS Integers, FiniteSets

CONSTANTS
  NENTRIES,     \* NPAGETABLEENTRIES
  NPages,       \* physical pages
  KernelTables, \* the pages of kernel_pagetables[], in order: a sequence of 5
  Pool,         \* pages the allocator can return
  Garbage,      \* the entry an allocated page is full of
  Perms,        \* the values of `perm` callers use
  Starts,       \* the values of `va` callers use
  Targets,      \* the values of `pa` callers use
  MaxPages      \* the largest `sz` callers use

Levels == 0..3
Index == 0..NENTRIES-1
VPages == 0..NENTRIES*NENTRIES*NENTRIES*NENTRIES-1
PhysPages == 0..NPages-1
NULL == -1

kernel_pagetable == KernelTables[1]
TablePages == {KernelTables[i] : i \in 1..5} \cup Pool

PTE == [pn : PhysPages \cup {NULL}, perm : SUBSET {"P", "W", "U"}]
NotMapped == [pn |-> NULL, perm |-> {}]

ASSUME SizeAssumption ==
  /\ NENTRIES \in Nat /\ NENTRIES >= 2 /\ NPages \in Nat
  /\ MaxPages \in Nat /\ Starts \subseteq Nat /\ Targets \subseteq Nat
  \* MEMSIZE_PHYSICAL lies within what the two level-4 tables of the kernel span
  /\ NPages <= 2 * NENTRIES

ASSUME TableAssumption ==
  /\ KernelTables \in [1..5 -> PhysPages] /\ Pool \subseteq PhysPages
  /\ \A i, j \in 1..5 : KernelTables[i] = KernelTables[j] => i = j
  /\ \A i \in 1..5 : KernelTables[i] \notin Pool
  /\ Perms \subseteq SUBSET {"P", "W", "U"}
  /\ Garbage \in PTE

\* Variation: the index of the next level up
PageIndexOff(va, level) ==
  CASE level = 0 -> 0
    [] level = 1 -> va \div (NENTRIES * NENTRIES * NENTRIES)
    [] level = 2 -> (va \div (NENTRIES * NENTRIES)) % NENTRIES
    [] level = 3 -> (va \div NENTRIES) % NENTRIES

\* pageindex()
PageIndex(va, level) ==
  CASE level = 0 -> va \div (NENTRIES * NENTRIES * NENTRIES)
    [] level = 1 -> (va \div (NENTRIES * NENTRIES)) % NENTRIES
    [] level = 2 -> (va \div NENTRIES) % NENTRIES
    [] level = 3 -> va % NENTRIES

\* Arguments that pass virtual_memory_map()'s assertions.  The size is in pages.
Requests ==
  {r \in [va : Starts, pa : Targets, n : 0..MaxPages, perm : Perms, allocates : BOOLEAN] :
     /\ r.va + r.n - 1 \in VPages
     /\ "P" \in r.perm => r.pa + r.n <= NPages}

VARIABLES
  table,      \* the contents of every page that is or may become a table
  used,       \* the pages that are tables
  phase,      \* "idle"; in virtual_memory_map()'s loop: "loop", "store"; "walk"
  req,        \* what is left to do of the request, in `va`, `pa` and `n`
  last,       \* last_index123
  l4,         \* l4pagetable
  pt, level,  \* the locals of lookup_l4pagetable()
  result      \* virtual_memory_map()'s last result

vars == <<table, used, phase, req, last, l4, pt, level, result>>

TypeOK ==
  /\ table \in [TablePages -> [Index -> PTE]]
  /\ used \subseteq TablePages
  /\ phase \in {"idle", "loop", "walk", "store"}
  /\ req \in [va : Nat, pa : Nat, n : 0..NPages+MaxPages, perm : SUBSET {"P", "W", "U"},
              allocates : BOOLEAN]
  /\ last \in Int
  /\ l4 \in TablePages \cup {NULL}
  /\ pt \in TablePages /\ level \in 0..2
  /\ result \in {0, -1}

All == {"P", "W", "U"}
Entry(pn) == [pn |-> pn, perm |-> All]
EmptyTable == [i \in Index |-> NotMapped]

\* kernel_pagetables[] as virtual_memory_init() links them
InitialTable ==
  LET T == KernelTables IN
  [t \in TablePages |->
     CASE t = T[1] -> [EmptyTable EXCEPT ![0] = Entry(T[2])]
       [] t = T[2] -> [EmptyTable EXCEPT ![0] = Entry(T[3])]
       [] t = T[3] -> [EmptyTable EXCEPT ![0] = Entry(T[4]), ![1] = Entry(T[5])]
       [] t \in {T[4], T[5]} -> EmptyTable
       [] OTHER -> [i \in Index |-> Garbage]]

\* ... and its call, which maps all of physical memory.
InitialRequest ==
  [va |-> 0, pa |-> 0, n |-> NPages, perm |-> All, allocates |-> FALSE]

Init ==
  /\ table = InitialTable
  /\ used = {KernelTables[i] : i \in 1..5}
  /\ phase = "loop" /\ req = InitialRequest
  /\ last = -1 /\ l4 = NULL /\ pt = kernel_pagetable /\ level = 0
  /\ result = 0

-----------------------------------------------------------------------------
(* virtual_memory_map() *)

Call ==
  /\ phase = "idle" /\ phase' = "loop"
  /\ req' \in Requests
  /\ last' = -1 /\ l4' = NULL
  /\ UNCHANGED <<table, used, pt, level, result>>

\* Variation: the level-4 table is looked up for the first page only
OnceForAll(va) == last # -1

\* The cached level-4 table is the right one for address va.
Cached(va) == va \div NENTRIES = last

\* The head of the loop, with the start of the walk when one is needed.
LoopHead ==
  /\ phase = "loop" /\ req.n > 0
  /\ IF Cached(req.va)
     THEN phase' = "store" /\ UNCHANGED <<last, pt, level>>
     ELSE /\ phase' = "walk"
          /\ last' = req.va \div NENTRIES
          /\ pt' = kernel_pagetable /\ level' = 0
  /\ UNCHANGED <<table, used, req, l4, result>>

LoopEnd ==
  /\ phase = "loop" /\ req.n = 0
  /\ phase' = "idle" /\ result' = 0
  /\ UNCHANGED <<table, used, req, last, l4, pt, level>>

\* Store an entry, when there is a table for it, and advance; or give up.
StorePage ==
  /\ phase = "store"
  /\ IF l4 = NULL /\ "P" \in req.perm
     THEN phase' = "idle" /\ result' = -1 /\ UNCHANGED <<table, req>>
     ELSE /\ table' = IF l4 = NULL THEN table
                      ELSE [table EXCEPT ![l4][PageIndex(req.va, 3)] =
                              [pn |-> IF "P" \in req.perm THEN req.pa ELSE NULL,
                               perm |-> req.perm]]
          /\ req' = [req EXCEPT !.va = @ + 1, !.pa = @ + 1, !.n = @ - 1]
          /\ phase' = "loop" /\ UNCHANGED result
  /\ UNCHANGED <<used, last, l4, pt, level>>

-----------------------------------------------------------------------------
(* lookup_l4pagetable() *)

WalkIndex == PageIndex(req.va, level)
WalkEntry == table[pt][WalkIndex]

\* On to table t, the last of the walk when it is for level 3.
Descend(t) ==
  IF level = 2 THEN l4' = t /\ phase' = "store" /\ UNCHANGED <<pt, level>>
  ELSE pt' = t /\ level' = level + 1 /\ UNCHANGED <<l4, phase>>

WalkDown ==
  /\ phase = "walk" /\ "P" \in WalkEntry.perm
  /\ Descend(WalkEntry.pn)
  /\ UNCHANGED <<table, used, req, last, result>>

\* Variation: the allocated page is not cleared
Uncleared(t) == table[t]

\* memset(new_pt, 0, PAGESIZE)
Cleared(t) == EmptyTable

WalkAllocates ==
  /\ phase = "walk" /\ "P" \notin WalkEntry.perm
  /\ "P" \in req.perm /\ req.allocates
  /\ \E t \in Pool \ used :
       /\ table' = [table EXCEPT ![pt] = [@ EXCEPT ![WalkIndex] = Entry(t)],
                                 ![t] = Cleared(t)]
       /\ used' = used \cup {t}
       /\ Descend(t)
  /\ UNCHANGED <<req, last, result>>

\* There is no table, and none to be had.  An allocator may always return NULL.
WalkFails ==
  /\ phase = "walk" /\ "P" \notin WalkEntry.perm
  /\ l4' = NULL /\ phase' = "store"
  /\ UNCHANGED <<table, used, req, last, pt, level, result>>

Next ==
  \/ Call \/ LoopHead \/ LoopEnd \/ StorePage
  \/ WalkDown \/ WalkAllocates \/ WalkFails

Spec == Init /\ [][Next]_vars

-----------------------------------------------------------------------------
(* virtual_memory_lookup() *)

\* The tables and the entry the four turns of its loop arrive at.
Step(t, va, lev) == table[t][PageIndex(va, lev)]
Present(e) == "P" \in e.perm

Lookup(va) ==
  LET e0 == Step(kernel_pagetable, va, 0)
      e1 == Step(e0.pn, va, 1)
      e2 == Step(e1.pn, va, 2)
      e3 == Step(e2.pn, va, 3)
  IN IF Present(e0) /\ Present(e1) /\ Present(e2) /\ Present(e3)
     THEN [pn |-> e3.pn, perm |-> e0.perm \cap e1.perm \cap e2.perm \cap e3.perm]
     ELSE NotMapped

-----------------------------------------------------------------------------
(* Properties *)

\* Every table but the root is named by exactly one entry of one table in use
\* that is not of level 4, and a walk finds level-4 tables at level 4 only: with
\* a shared or misplaced table a store for one address would show at another.
Children(t) == {table[t][i].pn : i \in {j \in Index : Present(table[t][j])}}
Upper == {kernel_pagetable} \cup Children(kernel_pagetable)
           \cup UNION {Children(t) : t \in Children(kernel_pagetable)}
TablesFormTree ==
  LET links == {l \in Upper \X Index : Present(table[l[1]][l[2]])}
  IN /\ Cardinality({table[l[1]][l[2]].pn : l \in links}) = Cardinality(links)
     /\ {table[l[1]][l[2]].pn : l \in links} = used \ {kernel_pagetable}

\* No assertion of lookup_l4pagetable() (k-hardware.c:366-372) can fail: an entry
\* met on a walk names a table and allows what the request wants.
WalkAssertionsPass ==
  phase = "walk" /\ Present(WalkEntry) =>
    /\ WalkEntry.pn \in used \ {kernel_pagetable}
    /\ req.perm \subseteq WalkEntry.perm

\* The level-4 table in hand is the one the next page's entry belongs to, over
\* the end of its span too: what the loop caches is never stale.
CacheFresh ==
  phase = "store" /\ l4 # NULL =>
    LET e0 == Step(kernel_pagetable, req.va, 0)
        e1 == Step(e0.pn, req.va, 1)
        e2 == Step(e1.pn, req.va, 2)
    IN Present(e0) /\ Present(e1) /\ Present(e2) /\ l4 = e2.pn

\* Without an allocator, which is how every caller in src/ calls it, the function
\* cannot fail for the addresses below 2 * NENTRIES, which the kernel's own
\* tables span: Kernel.tla takes this for granted, and the loader and
\* sys_page_alloc() ignore the result or pass it on.
LowMapsSucceed ==
  phase = "idle" /\ result = -1 => req.va + req.n > 2 * NENTRIES

\* virtual_memory_map() walks rightly: its assertions pass, its cache is fresh
\* when an entry is stored, and the walk finds the kernel's own tables.
WalksSucceed == TypeOK /\ WalkAssertionsPass /\ CacheFresh /\ LowMapsSucceed
=============================================================================
