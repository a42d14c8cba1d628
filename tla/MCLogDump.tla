----------------------------- MODULE MCLogDump ------------------------------
(* The machine of MCKernel with edge addresses and a tick limit of two dump *)
(* periods; the console is the reserved page.                               *)
EXTENDS LogDump, MCKernel
=============================================================================
