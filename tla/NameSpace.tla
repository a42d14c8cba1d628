------------------------------- MODULE NameSpace -------------------------------
(* What the file system promises of names, without blocks, slots or link       *)
(* counts: a call adds one entry, removes one, or moves one, or does nothing.  *)
(* A step is stated by the entry it adds (x) and the entry it takes away (e).  *)
CONSTANT Root       \* the directory that has no name

VARIABLES entry,    \* the names: <<directory, name, object>>
          dirs      \* the objects that are directories

Init == entry = {} /\ dirs = {Root}

Named(x)  == {e \in entry : e[1] = x[1] /\ e[2] = x[2]}
Inside(o) == {e \in entry : e[1] = o}
IsNew(o)  == o \notin dirs /\ \A e \in entry : e[3] # o

(* A new object is nobody's, and a new directory is empty.                     *)
Create(x) ==
    /\ x[1] \in dirs /\ Named(x) = {}
    /\ IsNew(x[3]) /\ Inside(x[3]) = {}
    /\ entry' = entry \cup {x}
    /\ dirs' = dirs \/ dirs' = dirs \cup {x[3]}

Link(x) ==
    /\ x[1] \in dirs /\ Named(x) = {}
    /\ x[3] \notin dirs /\ ~IsNew(x[3])
    /\ entry' = entry \cup {x}
    /\ UNCHANGED dirs

(* A directory goes with its name, a file with its last one.                   *)
Unlink(e) ==
    /\ Inside(e[3]) = {}
    /\ entry' = entry \ {e}
    /\ dirs' = dirs \ {e[3]}

(* A rename replaces what had the name; a directory that is replaced takes     *)
(* what it held out of the name space.                                         *)
Rename(e, x) ==
    LET gone == {y[3] : y \in Named(x)} \cap dirs IN
    /\ x[1] \in dirs \ gone /\ x[3] = e[3]
    /\ entry' = ((entry \ {e}) \ (Named(x) \cup UNION {Inside(o) : o \in gone})) \cup {x}
    /\ dirs' = dirs \ gone

Next ==
    \/ \E x \in entry' \ entry : Create(x) \/ Link(x) \/ \E e \in entry \ entry' : Rename(e, x)
    \/ \E e \in entry \ entry' : Unlink(e)

Spec == Init /\ [][Next]_<<entry, dirs>>

-----------------------------------------------------------------------------
(* What this comes to: the entries of a directory have different names, each   *)
(* is in a directory, the root has no name and every other directory only one, *)
(* so that a path leads to at most one object and a directory has one "..".    *)
NamesAreUnique ==
    /\ Root \in dirs
    /\ \A e \in entry : e[1] \in dirs /\ e[3] # Root
    /\ \A e, f \in entry : e[1] = f[1] /\ e[2] = f[2] => e = f
    /\ \A e, f \in entry : e[3] \in dirs /\ e[3] = f[3] => e = f
=============================================================================
