---------------------------- MODULE PageTableInv ----------------------------
(***************************************************************************)
(* The inductive invariant behind the properties of PageTable.tla.         *)
(***************************************************************************)
EXTENDS PageTable

\* The entries that virtual_memory_lookup() meets on its way to va's table.
Entry0(va) == Step(kernel_pagetable, va, 0)
Entry1(va) == Step(Entry0(va).pn, va, 1)
Entry2(va) == Step(Entry1(va).pn, va, 2)

\* The walk for va gets to level lev, and is at table t there.
Reaches(va, lev, t) ==
  \/ lev = 0 /\ t = kernel_pagetable
  \/ lev = 1 /\ Present(Entry0(va)) /\ t = Entry0(va).pn
  \/ lev = 2 /\ Present(Entry0(va)) /\ Present(Entry1(va)) /\ t = Entry1(va).pn
  \/ /\ lev = 3 /\ Present(Entry0(va)) /\ Present(Entry1(va)) /\ Present(Entry2(va))
     /\ t = Entry2(va).pn

\* Tables in use, by their distance from the root: those below distance 3 hold
\* links, each to a table one further away, and each table but the root has
\* exactly one link to it.
IsLink(depth, t, i) == t \in used /\ i \in Index /\ depth[t] < 3 /\ Present(table[t][i])

Tree(depth) ==
  /\ depth \in [TablePages -> 0..3]
  /\ kernel_pagetable \in used /\ depth[kernel_pagetable] = 0
  /\ \A t \in TablePages, i \in Index : IsLink(depth, t, i) =>
       /\ table[t][i].perm = All
       /\ table[t][i].pn \in used
       /\ depth[table[t][i].pn] = depth[t] + 1
  /\ \A c \in used \ {kernel_pagetable} :
       \E t \in TablePages, i \in Index : IsLink(depth, t, i) /\ table[t][i].pn = c
  /\ \A t, u \in TablePages, i, j \in Index :
       /\ IsLink(depth, t, i) /\ IsLink(depth, u, j)
       /\ table[t][i].pn = table[u][j].pn
       => t = u /\ i = j

\* The links virtual_memory_init() made are there to stay.
KernelLinks ==
  /\ table[KernelTables[1]][0] = Entry(KernelTables[2])
  /\ table[KernelTables[2]][0] = Entry(KernelTables[3])
  /\ table[KernelTables[3]][0] = Entry(KernelTables[4])
  /\ table[KernelTables[3]][1] = Entry(KernelTables[5])

\* What is left of a request is still a legal one.
RequestInv ==
  /\ req.n > 0 => req.va + req.n - 1 \in VPages
  /\ "P" \in req.perm => req.pa + req.n <= NPages
  /\ phase \in {"walk", "store"} => req.n > 0 /\ last = req.va \div NENTRIES
  /\ phase = "idle" /\ result = -1 => req.va + req.n > 2 * NENTRIES

\* Where the walk stands.
WalkInv(depth) ==
  phase = "walk" => pt \in used /\ depth[pt] = level /\ Reaches(req.va, level, pt)

\* The cached table is the one of every page of its span; where there is none,
\* none of them has a table, and they are beyond the kernel's own tables.
CacheInv(depth) ==
  phase \in {"loop", "store"} /\ last # -1 =>
    /\ l4 # NULL =>
         /\ l4 \in used /\ depth[l4] = 3
         /\ \A va \in VPages : va \div NENTRIES = last => Reaches(va, 3, l4)
    /\ l4 = NULL =>
         /\ last >= 2
         /\ \A va \in VPages, t \in TablePages :
              va \div NENTRIES = last => ~Reaches(va, 3, t)

Shape(depth) == Tree(depth) /\ WalkInv(depth) /\ CacheInv(depth)

IInv ==
  /\ TypeOK /\ KernelLinks /\ RequestInv
  /\ \E depth \in [TablePages -> 0..3] : Shape(depth)
=============================================================================
