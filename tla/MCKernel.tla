------------------------------ MODULE MCKernel ------------------------------
(***************************************************************************)
(* Small WeensyOS machines for TLC.  Pages 0..3 are one reserved page, the *)
(* kernel's page table (1), the rest of the kernel (2) and a free page (3) *)
(* below the process area, which starts at page 4.                         *)
(***************************************************************************)
EXTENDS KernelImplements, KernelInv

MCReserved == {0}
MCKernelPages == {1, 2}
MCKernelText == {2}
MCPageTables == {1}

Addr(pn) == [pn |-> pn, aligned |-> TRUE]

\* The null page, the free page, the same unaligned, the kernel's page table.
MemoryAddresses == {Addr(0), Addr(3), [pn |-> 3, aligned |-> FALSE], Addr(1)}
\* The null page and the page just past physical memory.
EdgeAddresses == {Addr(0), Addr(8)}
OneAddress == {Addr(0)}

\* Two processes with one page of code each; "fork" also fills its stack page;
\* "forkexit" is too large for memory.
TwoProcessImages == [n \in 0..3 |-> CASE n < 2 -> 1 [] n = 2 -> 2 [] n = 3 -> 5]
ThreeProcessImages == [n \in 0..4 |-> 1]
=============================================================================
