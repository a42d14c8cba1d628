------------------------ MODULE PageTableImplements -------------------------
(***************************************************************************)
(* The four-level tables implement the flat mapping of AddressSpace.tla.   *)
(***************************************************************************)
EXTENDS PageTable

\* What the tables map each page to, and whether a request is in progress.
AbsMap == [va \in VPages |-> Lookup(va)]
AbsBusy == phase # "idle"

Flat == INSTANCE AddressSpace WITH
  map <- AbsMap, busy <- AbsBusy, Requests <- Requests \cup {InitialRequest}

\* The tables show exactly the mapping the calls asked for: allocating a table
\* maps nothing, storing an entry changes one page, a failure keeps the pages
\* done so far, and what is not mapped is left alone.
ImplementsFlat == Flat!ASpec
=============================================================================
