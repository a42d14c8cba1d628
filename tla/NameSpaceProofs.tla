--------------------------- MODULE NameSpaceProofs ----------------------------
(* Proof that the calls NameSpace.tla allows keep names unique, for any names  *)
(* and objects.  FileSystem.tla is checked to implement that module.           *)
EXTENDS NameSpace, TLAPS

nameVars == <<entry, dirs>>

LEMMA CreateKeeps ==
    ASSUME NamesAreUnique, NEW x \in entry', Create(x)
    PROVE  NamesAreUnique'
<1>1. /\ x[1] \in dirs /\ Named(x) = {} /\ IsNew(x[3])
      /\ entry' = entry \cup {x} /\ dirs \subseteq dirs' /\ dirs' \subseteq dirs \cup {x[3]}
  BY DEF Create
<1>2. x[3] # Root /\ \A e \in entry : e[3] # x[3]
  BY <1>1 DEF IsNew, NamesAreUnique
<1>3. \A e \in entry : ~(e[1] = x[1] /\ e[2] = x[2])
  BY <1>1 DEF Named
<1> QED
  BY <1>1, <1>2, <1>3 DEF NamesAreUnique

LEMMA LinkKeeps ==
    ASSUME NamesAreUnique, NEW x \in entry', Link(x)
    PROVE  NamesAreUnique'
<1>1. x[1] \in dirs /\ x[3] \notin dirs /\ entry' = entry \cup {x} /\ dirs' = dirs
  BY DEF Link
<1>2. \A e \in entry : ~(e[1] = x[1] /\ e[2] = x[2])
  BY DEF Link, Named
<1> QED
  BY <1>1, <1>2 DEF NamesAreUnique

LEMMA UnlinkKeeps ==
    ASSUME NamesAreUnique, NEW e \in entry, Unlink(e)
    PROVE  NamesAreUnique'
<1>1. entry' = entry \ {e} /\ dirs' = dirs \ {e[3]} /\ \A y \in entry : y[1] # e[3]
  BY DEF Unlink, Inside
<1> QED
  BY <1>1 DEF NamesAreUnique

(* What a directory that is replaced held goes with it, so no entry is left in *)
(* a directory that is none.                                                   *)
LEMMA RenameKeeps ==
    ASSUME NamesAreUnique, NEW e \in entry, NEW x, Rename(e, x)
    PROVE  NamesAreUnique'
<1> DEFINE gone == {y[3] : y \in Named(x)} \cap dirs
           left == (entry \ {e}) \ (Named(x) \cup UNION {Inside(o) : o \in gone})
<1>1. x[1] \in dirs \ gone /\ x[3] = e[3] /\ entry' = left \cup {x} /\ dirs' = dirs \ gone
  BY DEF Rename
<1>2. left \subseteq entry \ {e} /\ \A y \in left : ~(y[1] = x[1] /\ y[2] = x[2])
  BY DEF Named
<1>3. \A y \in left : y[1] \notin gone
  BY DEF Inside
<1>4. Root \notin gone
  BY DEF NamesAreUnique, Named
<1>5. \A y \in left : y[3] \in dirs => y[3] # x[3]
  BY <1>1, <1>2 DEF NamesAreUnique
<1> HIDE DEF gone, left
<1> QED
  BY <1>1, <1>2, <1>3, <1>4, <1>5 DEF NamesAreUnique

(* The calls of fsdriver.c, as NameSpace states them, never give a directory   *)
(* two entries of one name or a directory two names, nor leave an entry in a   *)
(* directory that was removed or replaced.                                     *)
THEOREM NamesStayUnique == Spec => []NamesAreUnique
<1>1. Init => NamesAreUnique
  BY DEF Init, NamesAreUnique
<1>2. NamesAreUnique /\ [Next]_nameVars => NamesAreUnique'
  <2> SUFFICES ASSUME NamesAreUnique, [Next]_nameVars
               PROVE  NamesAreUnique'
    OBVIOUS
  <2>1. ASSUME NEW x \in entry', Create(x) PROVE NamesAreUnique'
    BY <2>1, CreateKeeps
  <2>2. ASSUME NEW x \in entry', Link(x) PROVE NamesAreUnique'
    BY <2>2, LinkKeeps
  <2>3. ASSUME NEW x \in entry', NEW e \in entry, Rename(e, x) PROVE NamesAreUnique'
    BY <2>3, RenameKeeps
  <2>4. ASSUME NEW e \in entry, Unlink(e) PROVE NamesAreUnique'
    BY <2>4, UnlinkKeeps
  <2>5. CASE UNCHANGED nameVars
    BY <2>5 DEF nameVars, NamesAreUnique
  <2> QED
    BY <2>1, <2>2, <2>3, <2>4, <2>5 DEF Next
<1> QED
  BY <1>1, <1>2, PTL DEF Spec, nameVars
=============================================================================
