---------------------------- MODULE AddressSpace ----------------------------
(***************************************************************************)
(* What virtual_memory_map() (src/lab4/k-hardware.c) promises its callers: *)
(* a flat mapping from virtual to physical pages, changed page by page by  *)
(* the request in progress and by nothing else.  No tables, no walk.       *)
(***************************************************************************)
EXTENDS Integers

CONSTANTS
  VPages,     \* virtual pages
  NotMapped,  \* what an unmapped page maps to
  Requests    \* [va, pa, n : page numbers and a count, perm, allocates]

VARIABLES
  map,        \* virtual page -> NotMapped or [pn, perm]
  req,        \* the request in progress, or what was left of the last one
  busy,       \* whether it is in progress
  result      \* the last result, 0 or -1

avars == <<map, req, busy, result>>

AInit ==
  /\ map = [va \in VPages |-> NotMapped]
  /\ busy = TRUE /\ result = 0 /\ req \in Requests

ACall ==
  /\ ~busy /\ busy' = TRUE
  /\ req' \in Requests
  /\ UNCHANGED <<map, result>>

\* The next page gets what the request says.
AMapPage ==
  /\ busy /\ req.n > 0
  /\ map' = [map EXCEPT ![req.va] =
               IF "P" \in req.perm THEN [pn |-> req.pa, perm |-> req.perm]
                                   ELSE NotMapped]
  /\ req' = [req EXCEPT !.va = @ + 1, !.pa = @ + 1, !.n = @ - 1]
  /\ UNCHANGED <<busy, result>>

\* Only a request to map may fail, and it leaves the rest as it was.
AReturn ==
  /\ busy /\ busy' = FALSE
  /\ \/ req.n = 0 /\ result' = 0
     \/ "P" \in req.perm /\ req.n > 0 /\ result' = -1
  /\ UNCHANGED <<map, req>>

ANext == ACall \/ AMapPage \/ AReturn

ASpec == AInit /\ [][ANext]_avars
=============================================================================
