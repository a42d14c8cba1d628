---------------------------- MODULE MCPageTable -----------------------------
(***************************************************************************)
(* Small page tables for TLC.  Tables have four entries, the kernel's span *)
(* pages 0 to 7, all of memory.  Page 8 needs one more table, 63 needs two *)
(* and 64 three; the pool has three.                                       *)
(***************************************************************************)
EXTENDS PageTableImplements

MCKernelTables == <<0, 1, 2, 3, 4>>
MCPerms == {{}, {"P", "U"}}
\* What an allocated page may hold: entries that look present.
MCGarbage == [pn |-> 0, perm |-> {"P", "W", "U"}]
=============================================================================
