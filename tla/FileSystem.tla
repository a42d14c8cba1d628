------------------------------ MODULE FileSystem ------------------------------
(* The name space of the CS202 file system (lab5): the FUSE callbacks of       *)
(* fsdriver.c that make, find, link, rename and remove names, over the inodes  *)
(* and directories of inode.c and dir.c and the bitmap of bitmap.c.  The disk  *)
(* is mapped shared and the driver runs single-threaded (-s), so a callback is *)
(* one step and what it wrote outlives the driver.                             *)
(*                                                                             *)
(* alloc_block, inode_block_walk, inode_get_block, inode_truncate_blocks,      *)
(* inode_unlink and inode_link are left to be written in this repository: they *)
(* are modelled as their comments promise and as their callers use them.       *)
(* What is in a file is in FileData; a block here is a directory block or the  *)
(* one block of a symbolic link.                                               *)
EXTENDS Naturals, Sequences, FiniteSets, SequencesExt

CONSTANTS Paths,        \* paths a user gives: sequences of names
          OpenPaths,    \* bound: those a user opens
          Hidden,       \* the name libfuse gives an open file that is removed
          Free,         \* block numbers not used by the fresh image
          BLKDIRENTS,   \* directory entries in a block
          MaxBlocks     \* blocks of an inode (N_DIRECT + N_INDIRECT + N_DOUBLE)

Names == UNION {Range(p) : p \in Paths}
Root  == 2               \* super->s_root; 0 is the superblock, 1 the bitmap

ASSUME NamesAssumption == Hidden \notin Names /\ "" \notin Names \cup {Hidden}
ASSUME PathsAssumption == \A p \in Paths : p \in Seq(Names)
ASSUME OpenPathsAssumption == OpenPaths \subseteq Paths
ASSUME FreeAssumption  == Free \subseteq Nat \ 0..Root /\ IsFiniteSet(Free)
(* An image's size in bytes has 32 bits (fsformat.c:93): it has fewer blocks    *)
(* than an inode.                                                              *)
ASSUME SizeAssumption  == /\ BLKDIRENTS \in Nat \ {0} /\ MaxBlocks \in Nat
                          /\ Cardinality(Free) < MaxBlocks

VARIABLES fs,       \* [free, inode, ents]: bitmap, inodes and directory blocks by block number
          fh,       \* the open file: its inode (fi->fh) and libfuse's path to it
          dropped   \* history: a rename has replaced a directory that had entries

vars == <<fs, fh, dropped>>

Inums    == Free \cup {Root}
NoEnt    == [name |-> "", inum |-> 0]
EmptyBlk == [j \in 1..BLKDIRENTS |-> NoEnt]
NoInode  == [mode |-> "none", nlink |-> 0, size |-> 0, blk |-> [n \in 0..MaxBlocks-1 |-> 0]]
Nowhere  == <<"">>        \* the path of a file whose directory is gone
NoHandle == [ino |-> 0, path |-> Nowhere]
Least(S) == CHOOSE x \in S : \A y \in S : x <= y

-----------------------------------------------------------------------------
(* Functions of the driver take the disk f and return what they return (r)     *)
(* with the disk they leave.  What a function does after a call is an operator *)
(* of its own, named for what has been done and given the call's result.       *)

alloc_block(f) ==
    IF f.free = {} THEN [r |-> "ENOSPC", fs |-> f, b |-> 0]
    ELSE [r |-> "ok", fs |-> [f EXCEPT !.free = @ \ {Least(f.free)}], b |-> Least(f.free)]

inode_get_block(f, ino, n) ==
    LET Allocated(a) ==
          IF a.r # "ok" THEN a
          ELSE [a EXCEPT !.fs.inode[ino].blk[n] = a.b, !.fs.ents[a.b] = EmptyBlk] IN
    IF n >= MaxBlocks THEN [r |-> "EINVAL", fs |-> f, b |-> 0]
    ELSE IF f.inode[ino].blk[n] # 0 THEN [r |-> "ok", fs |-> f, b |-> f.inode[ino].blk[n]]
    ELSE Allocated(alloc_block(f))

nblock(f, dir) == f.inode[dir].size

(* The loop dir_lookup and dir_alloc_dirent share: the first entry with a name *)
(* that is wanted.  inode_get_block fills the holes it comes across.           *)
ScanTurn(p, dir, wanted, n) ==
    LET Searched(g, hits) ==
          IF hits = {} THEN [p EXCEPT !.fs = g.fs]
          ELSE [r |-> "ok", fs |-> g.fs, slot |-> <<g.b, Least(hits)>>]
        Got(g) ==
          IF g.r # "ok" THEN [p EXCEPT !.r = g.r, !.fs = g.fs]
          ELSE Searched(g, {j \in 1..BLKDIRENTS : g.fs.ents[g.b][j].name \in wanted}) IN
    IF p.r # "ENOENT" THEN p ELSE Got(inode_get_block(p.fs, dir, n))

ScanDir(f, dir, wanted) ==
    LET Turn[n \in 0..nblock(f, dir)] ==
          IF n = 0 THEN [r |-> "ENOENT", fs |-> f, slot |-> <<0, 0>>]
          ELSE ScanTurn(Turn[n-1], dir, wanted, n - 1) IN
    Turn[nblock(f, dir)]

dir_lookup(f, dir, name) == ScanDir(f, dir, {name})

dir_alloc_dirent(f, dir) ==
    LET Got(g) == [r |-> g.r, fs |-> g.fs, slot |-> <<g.b, 1>>]
        Scanned(s) ==
          IF s.r # "ENOENT" THEN s
          ELSE Got(inode_get_block([s.fs EXCEPT !.inode[dir].size = @ + 1], dir, nblock(f, dir))) IN
    Scanned(ScanDir(f, dir, {""}))

WalkTurn(w, path, k) ==
    LET Found(l, last) ==
          IF l.r = "ok"
          THEN [r |-> "ok", fs |-> l.fs, dir |-> w.ino,
                ino |-> l.fs.ents[l.slot[1]][l.slot[2]].inum, slot |-> l.slot]
          ELSE [w EXCEPT !.r = l.r, !.fs = l.fs, !.dir = IF l.r = "ENOENT" /\ last THEN w.ino ELSE 0] IN
    IF w.r # "ok" THEN w
    ELSE IF w.fs.inode[w.ino].mode # "dir" THEN [w EXCEPT !.r = "ENOENT", !.dir = 0]
    ELSE Found(dir_lookup(w.fs, w.ino, path[k]), k = Len(path))

walk_path(f, path) ==
    LET Turn[k \in 0..Len(path)] ==
          IF k = 0 THEN [r |-> "ok", fs |-> f, dir |-> 0, ino |-> Root, slot |-> <<0, 0>>]
          ELSE WalkTurn(Turn[k-1], path, k) IN
    Turn[Len(path)]

inode_open(f, path) == walk_path(f, path)

SetEnt(f, slot, e) == [f EXCEPT !.ents[slot[1]][slot[2]] = e]

(* Mutant: the pointers to the freed blocks stay.                              *)
SizeKeepsPointers(f, ino, n) ==
    [f EXCEPT !.free = @ \cup ({f.inode[ino].blk[k] : k \in {j \in 0..MaxBlocks-1 : j >= n}} \ {0}),
              !.inode[ino].size = n]

(* inode_set_size, in blocks: inode_truncate_blocks frees those past the end.  *)
inode_set_size(f, ino, n) ==
    LET past == {k \in 0..MaxBlocks-1 : k >= n} IN
    [f EXCEPT !.free = @ \cup ({f.inode[ino].blk[k] : k \in past} \ {0}),
              !.inode[ino].blk = [k \in 0..MaxBlocks-1 |-> IF k \in past THEN 0 ELSE @[k]],
              !.inode[ino].size = n]

(* inode_create together with the fields mknod, mkdir and symlink set.         *)
inode_create(f, path, mode, size) ==
    LET Allocated(a, slot) ==
          IF a.r # "ok" THEN a
          ELSE [r |-> "ok", ino |-> a.b,
                fs |-> SetEnt([a.fs EXCEPT !.inode[a.b] = [NoInode EXCEPT !.mode = mode, !.nlink = 1, !.size = size]],
                              slot, [name |-> Last(path), inum |-> a.b])]
        Entered(d) == IF d.r # "ok" THEN d ELSE Allocated(alloc_block(d.fs), d.slot)
        Walked(w) ==
          IF w.r = "ok" THEN [w EXCEPT !.r = "EEXIST"]
          ELSE IF w.r # "ENOENT" \/ w.dir = 0 THEN w
          ELSE Entered(dir_alloc_dirent(w.fs, w.dir)) IN
    Walked(walk_path(f, path))

(* Mutant: the blocks of the inode stay allocated.                             *)
FreeInodeOnly(f, ino) == [f EXCEPT !.free = @ \cup {ino}, !.inode[ino] = NoInode]

(* inode_free: the blocks of the inode, then the inode's own block.  The bytes *)
(* a free block keeps are read by nobody: every block is cleared when it is    *)
(* allocated (HandleValid says that no handle reads one either).               *)
inode_free(f, ino) ==
    LET bs == {f.inode[ino].blk[n] : n \in 0..MaxBlocks-1} \ {0} IN
    [free  |-> f.free \cup bs \cup {ino},
     inode |-> [f.inode EXCEPT ![ino] = NoInode],
     ents  |-> [b \in DOMAIN f.ents |-> IF b \in bs THEN EmptyBlk ELSE f.ents[b]]]

inode_unlink(f, path) ==
    LET Unnamed(g, ino) == IF g.inode[ino].nlink = 0 THEN inode_free(g, ino) ELSE g
        Walked(w) ==
          IF w.r # "ok" THEN w
          ELSE [w EXCEPT !.fs = Unnamed(SetEnt([w.fs EXCEPT !.inode[w.ino].nlink = @ - 1], w.slot, NoEnt), w.ino)] IN
    Walked(walk_path(f, path))

(* Mutant: the link is not counted.                                            *)
CountedNot(f, ino) == f

Counted(f, ino) == [f EXCEPT !.inode[ino].nlink = @ + 1]

inode_link(f, src, dst) ==
    LET Entered(d, ino) ==
          IF d.r # "ok" THEN d
          ELSE [d EXCEPT !.fs = SetEnt(Counted(d.fs, ino), d.slot, [name |-> Last(dst), inum |-> ino])]
        Walked(w, ino) ==
          IF w.r = "ok" THEN [w EXCEPT !.r = "EEXIST"]
          ELSE IF w.r # "ENOENT" \/ w.dir = 0 THEN w
          ELSE Entered(dir_alloc_dirent(w.fs, w.dir), ino)
        Opened(s) == IF s.r # "ok" THEN s ELSE Walked(walk_path(s.fs, dst), s.ino) IN
    Opened(inode_open(f, src))

-----------------------------------------------------------------------------
(* The callbacks.                                                              *)

fs_mknod(f, path) == inode_create(f, path, "file", 0)
fs_mkdir(f, path) == inode_create(f, path, "dir", 0)

fs_symlink(f, path) ==
    LET Got(g) == IF g.r = "ok" THEN g ELSE [g EXCEPT !.fs = inode_unlink(g.fs, path).fs]
        Created(c) == IF c.r # "ok" THEN c ELSE Got(inode_get_block(c.fs, c.ino, 0)) IN
    Created(inode_create(f, path, "symlink", 1))

fs_readlink(f, path) ==
    LET Opened(w) == IF w.r # "ok" THEN w ELSE inode_get_block(w.fs, w.ino, 0) IN
    Opened(inode_open(f, path))

fs_unlink(f, path) ==
    LET Opened(w) ==
          IF w.r # "ok" THEN w
          ELSE IF w.fs.inode[w.ino].mode = "dir" THEN [w EXCEPT !.r = "EISDIR"]
          ELSE inode_unlink(w.fs, path) IN
    Opened(inode_open(f, path))

(* Mutant: a directory goes whatever it holds.                                 *)
EmptyUnlooked(f, dir) == [r |-> "ENOENT", fs |-> f]

(* The loop over the directory's blocks stops at the first entry in use or at  *)
(* the first hole it cannot fill.                                              *)
InUse(f, dir) == ScanDir(f, dir, Names \cup {Hidden})

fs_rmdir(f, path) ==
    LET Scanned(s) ==
          IF s.r = "ok" THEN [s EXCEPT !.r = "ENOTEMPTY"]
          ELSE IF s.r # "ENOENT" THEN s
          ELSE inode_unlink(s.fs, path)
        Opened(w) ==
          IF w.r # "ok" THEN w
          ELSE IF w.ino = Root THEN [w EXCEPT !.r = "EPERM"]
          ELSE IF w.fs.inode[w.ino].mode # "dir" THEN [w EXCEPT !.r = "ENOTDIR"]
          ELSE Scanned(InUse(w.fs, w.ino)) IN
    Opened(inode_open(f, path))

(* Mutant: the destination is unlinked before the source is looked for.        *)
RenameUnlinksFirst(f, src, dst) ==
    LET Linked(l) == IF l.r # "ok" THEN l ELSE inode_unlink(l.fs, src) IN
    Linked(inode_link(inode_unlink(f, dst).fs, src, dst))

fs_rename(f, src, dst) ==
    LET Linked(l) == IF l.r # "ok" THEN l ELSE inode_unlink(l.fs, src)
        Unlinked(u) == IF u.r # "ok" THEN u ELSE Linked(inode_link(u.fs, src, dst))
        Tried(l) ==
          IF l.r # "EEXIST" THEN Linked(l)
          ELSE IF src = dst THEN [l EXCEPT !.r = "ok"]
          ELSE Unlinked(inode_unlink(l.fs, dst)) IN
    Tried(inode_link(f, src, dst))

(* Mutant: directories are linked like files.                                  *)
LinkAny(f, src, dst) == inode_link(f, src, dst)

fs_link(f, src, dst) ==
    LET Opened(w) ==
          IF w.r # "ok" THEN w
          ELSE IF w.fs.inode[w.ino].mode = "dir" THEN [w EXCEPT !.r = "EPERM"]
          ELSE inode_link(w.fs, src, dst) IN
    Opened(inode_open(f, src))

(* chmod, chown: the root keeps its mode and owner.                            *)
fs_chmod(f, path) ==
    LET Opened(w) == IF w.r = "ok" /\ w.ino = Root THEN [w EXCEPT !.r = "EPERM"] ELSE w IN
    Opened(inode_open(f, path))

(* getattr, utimens and opendir only find the inode.                           *)
fs_getattr(f, path) == inode_open(f, path)

(* What readdir passes to filler: inode_read reads a hole as zeroes.           *)
fs_readdir(f, dir) ==
    {e \in UNION {{f.ents[b][j] : j \in 1..BLKDIRENTS} :
                  b \in {f.inode[dir].blk[n] : n \in 0..f.inode[dir].size-1} \ {0}} : e.name # ""}

(* statfs: the free blocks in the bitmap.                                      *)
block_is_free(f, b) == b \in f.free
fs_statfs(f) == Cardinality({b \in 0..Root \cup Free : block_is_free(f, b)})

(* fs_test (--test-ops), a chain of calls on the files msg and linkmsg that    *)
(* asks after each whether it did what it should.                              *)
fs_test(f, msg, linkmsg, notfound) ==
    LET ino == inode_open(f, msg).ino
        Opens(g, p) == inode_open(g, p).r
        Unlinked(u) ==
          [fs |-> u.fs, good |-> /\ u.r = "ok" /\ u.fs.inode[ino].nlink = 1
                                 /\ Opens(u.fs, linkmsg) = "ENOENT" /\ Opens(u.fs, msg) = "ok"]
        Linked(l) ==
          IF l.r = "ok" /\ l.fs.inode[ino].nlink = 2 /\ inode_open(l.fs, linkmsg).ino = ino
          THEN Unlinked(inode_unlink(l.fs, linkmsg)) ELSE [fs |-> l.fs, good |-> FALSE]
        Grown(g) == IF g.r = "ok" THEN Linked(inode_link(g.fs, msg, linkmsg)) ELSE [fs |-> g.fs, good |-> FALSE]
        Cut(g) ==
          IF g.inode[ino].blk[0] = 0 THEN Grown(inode_get_block(inode_set_size(g, ino, 1), ino, 0))
          ELSE [fs |-> g, good |-> FALSE]
        Got(g) == IF g.r = "ok" THEN Cut(inode_set_size(g.fs, ino, 0)) ELSE [fs |-> g.fs, good |-> FALSE]
        Allocated(a) == a.r = "ok" /\ block_is_free(f, a.b) /\ ~block_is_free(a.fs, a.b) IN
    IF Allocated(alloc_block(f)) /\ Opens(f, notfound) = "ENOENT" /\ Opens(f, msg) = "ok"
    THEN Got(inode_get_block(f, ino, 0)) ELSE [fs |-> f, good |-> FALSE]

-----------------------------------------------------------------------------
(* The calls.  The kernel and libfuse are not in this repository; what they    *)
(* do is: a rename never moves a directory into itself or onto its own parent, *)
(* and replaces like with like; removing the name of an open file renames it   *)
(* to Hidden instead (a call of its own for the driver), and the last close    *)
(* unlinks Hidden (the driver does not ask for hard_remove).                   *)

Done(x) == fs' = x.fs

Mknod(path)   == Done(fs_mknod(fs, path))   /\ UNCHANGED <<fh, dropped>>
Mkdir(path)   == Done(fs_mkdir(fs, path))   /\ UNCHANGED <<fh, dropped>>
Symlink(path) == Done(fs_symlink(fs, path)) /\ UNCHANGED <<fh, dropped>>
Link(src, dst) == Done(fs_link(fs, src, dst)) /\ UNCHANGED <<fh, dropped>>
Rmdir(path)   == Done(fs_rmdir(fs, path))   /\ UNCHANGED <<fh, dropped>>
Getattr(path) == Done(fs_getattr(fs, path)) /\ UNCHANGED <<fh, dropped>>
Chmod(path)   == Done(fs_chmod(fs, path))   /\ UNCHANGED <<fh, dropped>>

Mode(f, path) ==
    LET ModeOf(w) == IF w.r = "ok" THEN w.fs.inode[w.ino].mode ELSE "none" IN ModeOf(walk_path(f, path))

Readlink(path) ==
    /\ Mode(fs, path) = "symlink"
    /\ Done(fs_readlink(fs, path)) /\ UNCHANGED <<fh, dropped>>

HiddenPath(path) == Append(Front(path), Hidden)

Hide(f, path) == IF Mode(f, HiddenPath(path)) = "none" THEN fs_rename(f, path, HiddenPath(path))
                 ELSE [r |-> "EBUSY", fs |-> f]

IsOpen(path) == fh # NoHandle /\ fh.path = path

(* Mutant: open files are unlinked too (hard_remove).                          *)
UnlinkHard(path) == Done(fs_unlink(fs, path)) /\ UNCHANGED <<fh, dropped>>

Unlink(path) ==
    /\ ~IsOpen(path)
    /\ Done(fs_unlink(fs, path)) /\ UNCHANGED <<fh, dropped>>

(* Also the first half of a rename onto an open file: then Rename(src, path).  *)
UnlinkOpen(path) ==
    LET Was(x) ==
          /\ Done(x)
          /\ fh' = IF x.r = "ok" THEN [fh EXCEPT !.path = HiddenPath(path)] ELSE fh IN
    /\ IsOpen(path) /\ Was(Hide(fs, path))
    /\ UNCHANGED dropped

(* Where a path leads after src has been renamed to dst.                       *)
Moved(p, src, dst) == IF IsPrefix(src, p) THEN dst \o SubSeq(p, Len(src) + 1, Len(p))
                      ELSE IF IsPrefix(dst, p) THEN Nowhere ELSE p

Renameable(src, dst) ==
    /\ src # <<>> /\ dst # <<>>
    /\ src = dst \/ ~(IsPrefix(src, dst) \/ IsPrefix(dst, src))
    /\ Mode(fs, dst) = "none" \/ (Mode(fs, dst) = "dir" <=> Mode(fs, src) = "dir")

Rename(src, dst) ==
    LET Renamed(x, old) ==
          /\ Done(x)
          /\ fh' = IF x.r = "ok" /\ fh # NoHandle THEN [fh EXCEPT !.path = Moved(@, src, dst)] ELSE fh
          /\ dropped' = (dropped \/ (/\ fs.inode[old].mode = "dir" /\ fs_readdir(fs, old) # {}
                                     /\ x.fs.inode[old] = NoInode)) IN
    /\ Renameable(src, dst)
    /\ src = dst \/ ~IsOpen(dst)
    /\ Renamed(fs_rename(fs, src, dst), walk_path(fs, dst).ino)

Open(path) ==
    LET Opened(w) == Done(w) /\ fh' = [ino |-> w.ino, path |-> path] IN
    /\ fh = NoHandle /\ Mode(fs, path) = "file"
    /\ Opened(inode_open(fs, path))
    /\ UNCHANGED dropped

Release ==
    /\ fh # NoHandle
    /\ IF Last(fh.path) = Hidden THEN Done(fs_unlink(fs, fh.path)) ELSE UNCHANGED fs
    /\ fh' = NoHandle
    /\ UNCHANGED dropped

(* The driver is killed between two calls and mounted again: main() maps the   *)
(* image, finds in it what the shared mapping held, and makes sure of the root.*)
Remount ==
    /\ fh # NoHandle /\ fh' = NoHandle
    /\ fs' = [fs EXCEPT !.inode[Root].mode = "dir"]
    /\ UNCHANGED dropped

Init ==
    /\ fs = [free  |-> Free,
             inode |-> [i \in Inums |-> IF i = Root THEN [NoInode EXCEPT !.mode = "dir", !.nlink = 1] ELSE NoInode],
             ents  |-> [b \in {0} \cup Free |-> EmptyBlk]]
    /\ fh = NoHandle /\ dropped = FALSE

Next ==
    \/ \E p \in Paths : \/ Mknod(p) \/ Mkdir(p) \/ Symlink(p) \/ Getattr(p) \/ Chmod(p) \/ Readlink(p)
                           \/ Unlink(p) \/ UnlinkOpen(p) \/ Rmdir(p)
    \/ \E p, q \in Paths : Link(p, q) \/ Rename(p, q)
    \/ \E p \in OpenPaths : Open(p)
    \/ Release \/ Remount

Spec == Init /\ [][Next]_vars

-----------------------------------------------------------------------------
Disks == [free  : SUBSET Free,
          inode : [Inums -> [mode : {"none", "file", "dir", "symlink"}, nlink : Nat, size : 0..MaxBlocks,
                             blk : [0..MaxBlocks-1 -> Free \cup {0}]]],
          ents  : [{0} \cup Free -> [1..BLKDIRENTS -> [name : Names \cup {"", Hidden}, inum : {0} \cup Free]]]]

TypeOK ==
    /\ fs \in Disks /\ fs.ents[0] = EmptyBlk
    /\ fh = NoHandle \/ fh.ino \in Inums
    /\ dropped \in BOOLEAN

BlocksOf(f, i) == {f.inode[i].blk[n] : n \in 0..MaxBlocks-1} \ {0}
Live(f) == {i \in Inums : f.inode[i].mode # "none"}
Dirs(f) == {i \in Inums : f.inode[i].mode = "dir"}

(* The entries of the name space: directory, name and inode.                   *)
Entries(f) == UNION {{<<d, e.name, e.inum>> : e \in fs_readdir(f, d)} : d \in Dirs(f)}

(* A directory that could not grow keeps its new size without the block: the   *)
(* hole is its last block, and it is filled before the directory grows again.  *)
HolesAreLast ==
    \A d \in Dirs(fs) : \A n \in 0..fs.inode[d].size-1 : fs.inode[d].blk[n] = 0 => n = fs.inode[d].size - 1

(* bitmap.c and inode.c agree: a block in use has one use (inode, directory    *)
(* block or symbolic link's block), and a block that is neither is free.  The  *)
(* only pointer to block 0 within a directory's size is the hole at its end.   *)
BlocksAccounted ==
    /\ TypeOK /\ HolesAreLast
    /\ \A i, j \in Live(fs) : i # j => BlocksOf(fs, i) \cap BlocksOf(fs, j) = {}
    /\ \A i \in Live(fs) : BlocksOf(fs, i) \cap Live(fs) = {}
    /\ fs_statfs(fs) + Cardinality(Live(fs) \ {Root})
         + Cardinality(UNION {BlocksOf(fs, i) : i \in Live(fs)}) = Cardinality(Free)
    /\ fs.free = Free \ (Live(fs) \cup UNION {BlocksOf(fs, i) : i \in Live(fs)})

(* i_nlink is the number of names of an inode, so that inode_unlink frees it   *)
(* with its last name.  It is more only for what was in a directory that a     *)
(* rename replaced (fs_rename does not look whether it was empty).             *)
SlotsOf(f, i) == {s \in (UNION {BlocksOf(f, d) : d \in Dirs(f)}) \X (1..BLKDIRENTS) : f.ents[s[1]][s[2]].inum = i}

LinksCounted ==
    \A i \in Live(fs) \ {Root} :
        /\ Cardinality(SlotsOf(fs, i)) <= fs.inode[i].nlink
        /\ ~dropped => Cardinality(SlotsOf(fs, i)) = fs.inode[i].nlink

(* The name space is a tree: no name is in a directory twice, every name leads *)
(* to an inode, a directory has one name, and unless a rename has replaced a   *)
(* directory with entries all directories hang from the root.                  *)
NameSpaceIsTree ==
    LET E == Entries(fs)
        depth == Cardinality(Dirs(fs))
        Reach[k \in 0..depth] ==
          IF k = 0 THEN {Root} ELSE Reach[k-1] \cup {e[3] : e \in {x \in E : x[1] \in Reach[k-1]}} IN
    /\ Cardinality({<<e[1], e[2]>> : e \in E}) = Cardinality(E)
    /\ \A e \in E : e[3] \in Live(fs) \ {Root}
    /\ \A i \in Dirs(fs) : Cardinality(SlotsOf(fs, i)) <= 1
    /\ ~dropped => Live(fs) = Reach[depth]

(* fi->fh, kept by fs_open and used by fs_read, fs_write and fs_fgetattr       *)
(* without another look, is the inode of the file that was opened.             *)
HandleValid == fh # NoHandle => fs.inode[fh.ino].mode = "file" /\ fs.inode[fh.ino].nlink > 0

(* A call that fails changes no name, although it may enlarge a directory or   *)
(* fill a hole.  One call escapes: a rename on a full disk into a directory    *)
(* with a hole unlinks the destination and then cannot find that it is gone.   *)
Hole(f) == \E d \in Dirs(f) : f.inode[d].size > 0 /\ f.inode[d].blk[f.inode[d].size-1] = 0

KeepsNames(x) == x.r # "ok" => Entries(x.fs) = Entries(fs)

FailedCallsKeepNames ==
    /\ \A p \in Paths : /\ KeepsNames(fs_mknod(fs, p)) /\ KeepsNames(fs_mkdir(fs, p)) /\ KeepsNames(fs_symlink(fs, p))
                         /\ KeepsNames(fs_unlink(fs, p)) /\ KeepsNames(fs_rmdir(fs, p))
    /\ \A p, q \in Paths : /\ KeepsNames(fs_link(fs, p, q))
                            /\ Renameable(p, q) => KeepsNames(fs_rename(fs, p, q)) \/ (fs.free = {} /\ Hole(fs))

(* fs_test passes on every disk the callbacks leave that holds the file it     *)
(* wants, with one link, and two free blocks, and it changes no name.          *)
TestPassesAnywhere ==
    \A p, q \in Paths :
        /\ p # q /\ q # <<>> /\ Mode(fs, p) = "file" /\ Mode(fs, q) = "none"
        /\ q = <<Last(q)>> \/ Mode(fs, Front(q)) = "dir"
        /\ fs.inode[walk_path(fs, p).ino].nlink = 1
        /\ Cardinality(fs.free) > 1 /\ ~Hole(fs)
        => LET t == fs_test(fs, p, q, <<Hidden, Hidden>>) IN t.good /\ Entries(t.fs) = Entries(fs)

(* Under the blocks, slots, holes and link counts each callback adds, removes  *)
(* or moves one name, or changes none (NameSpace); a rename that fails after   *)
(* it unlinked the destination counts as an unlink.                            *)
Promise == INSTANCE NameSpace WITH entry <- Entries(fs), dirs <- Dirs(fs)

KeepsPromise == Promise!Spec
=============================================================================
