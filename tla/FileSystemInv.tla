----------------------------- MODULE FileSystemInv ----------------------------
(* The inductive invariant of FileSystem.tla: what every function of the       *)
(* driver finds on the disk, and leaves there, whether it succeeds or not.     *)
EXTENDS FileSystem

Ent(f, s) == f.ents[s[1]][s[2]]

(* The places for entries in a directory.                                      *)
Places(f, d) == BlocksOf(f, d) \X (1..BLKDIRENTS)

(* No block is in two places of two inodes or of one.                          *)
OneUse(f) ==
    \A i, j \in Inums : \A n, m \in 0..MaxBlocks-1 :
        f.inode[i].blk[n] # 0 /\ f.inode[i].blk[n] = f.inode[j].blk[m] => i = j /\ n = m

(* A block is free, an inode or some inode's: one of the three.                *)
Partition(f) ==
    /\ \A b \in Live(f) : b \notin f.free
    /\ \A i \in Inums : \A n \in 0..MaxBlocks-1 : f.inode[i].blk[n] \notin f.free \cup Live(f)
    /\ \A b \in Free \ f.free : b \in Live(f) \/ \E i \in Inums : b \in BlocksOf(f, i)

(* What is no inode has no blocks; a directory has those of its size, but may  *)
(* lack the last one.                                                          *)
Shapes(f) ==
    /\ Root \in Dirs(f)
    /\ \A i \in Inums \ Live(f) : f.inode[i] = NoInode
    /\ \A d \in Dirs(f) : \A n \in 0..MaxBlocks-1 :
           /\ n >= f.inode[d].size => f.inode[d].blk[n] = 0
           /\ n + 1 < f.inode[d].size => f.inode[d].blk[n] # 0

(* An entry in use leads to an inode, and no other in its directory has its    *)
(* name.                                                                       *)
Names1(f) ==
    \A d \in Dirs(f) : \A s \in Places(f, d) :
        /\ Ent(f, s) = NoEnt \/ (Ent(f, s).name # "" /\ Ent(f, s).inum \in Live(f) \ {Root})
        /\ \A t \in Places(f, d) : Ent(f, s).name # "" /\ Ent(f, s).name = Ent(f, t).name => s = t

(* An inode has no more names than it counts.                                  *)
Links(f) == \A i \in Live(f) \ {Root} : Cardinality(SlotsOf(f, i)) <= f.inode[i].nlink

Sound(f) ==
    /\ f \in Disks /\ f.ents[0] = EmptyBlk
    /\ OneUse(f) /\ Partition(f) /\ Shapes(f) /\ Names1(f) /\ Links(f)

(* An inode has as many names as it counts.                                    *)
Exact(f) == \A i \in Live(f) \ {Root} : Cardinality(SlotsOf(f, i)) = f.inode[i].nlink

(* A directory counts one name, and nothing counts none.                       *)
OneName(f) ==
    /\ \A d \in Dirs(f) \ {Root} : f.inode[d].nlink = 1
    /\ \A i \in Live(f) \ {Root} : f.inode[i].nlink # 0

AllNames  == Names \cup {Hidden}
IsPath(p) == p \in Seq(AllNames)

(* libfuse's path of the open file is one the driver can walk.                 *)
HandleIs ==
    fh # NoHandle => /\ fh = [ino |-> fh.ino, path |-> fh.path] /\ fh.ino \in Inums
                     /\ fh.path = Nowhere \/ (IsPath(fh.path) /\ fh.path # <<>>)

IInv ==
    /\ Sound(fs) /\ OneName(fs) /\ (~dropped => Exact(fs))
    /\ HandleIs /\ dropped \in BOOLEAN
=============================================================================
