# A verification project for labs-24sp

TLA+ models of the programs in `src/`, the TLC runs that check them, and proofs
checked by TLAPS. `src/` holds the labs of an operating-systems course; most of
them are skeletons to be filled in. Two are programs with logic of their own:
WeensyOS (`lab4`), a small kernel, and a FUSE file system (`lab5`).

## Inventory

| Component | State | Operations | Interacts with |
|---|---|---|---|
| Kernel, `lab4/kernel.c` | `processes[]`, `current`, `pageinfo[]`, `ticks` | `kernel`, `process_setup`, `exception` (one case per vector), `schedule`, `run`, the self-checks | hardware layer (mapping, registers, keyboard), loader |
| Interrupt entry, `lab4/k-exception.S`, `segments_init` in `k-hardware.c` | the trap frame | save, `exception_return`, vector table | kernel |
| Virtual memory, `k-hardware.c` | `kernel_pagetables[5]` | `virtual_memory_init`, `_map`, `_lookup`, `set_pagetable` | kernel, loader, self-checks |
| Loader, `k-loader.c` | none | `program_load`, `program_load_segment`, `copyin` | page assignment, mapping |
| Keyboard, console, log, `k-hardware.c` | modifiers, last escape code, cursor | `keyboard_readc`, `check_keyboard`, `panic`, `fail`, `assert_fail`, `poweroff` | kernel (soft reboot) |
| Memory pictures and dumps, `kernel.c`, read by `parse_log.py` | `last_ticks`, `showing` | `memshow_*`, `memdump_*` | process table, `ticks`, the log |
| Processes, `p-*.c` | their registers and heap pointer | system calls | kernel |
| Boot loader, `boot.c`, `bootstart.S`, `build/mkbootdisk.c` | memory, disk sectors | `boot_readseg`, `boot_readsect` | disk, kernel image |
| C library, `lib.c` | random seed | string functions, `printer_vprintf` | everybody |
| Formatter, `lab5/fsformat.c` | `diskpos`, bitmap, entry array | `alloc`, `idiradd`, `finishinode`, `finishdisk` | disk image |
| File system, `disk_map.c`, `bitmap.c`, `inode.c`, `dir.c` | bitmap, inodes, directory blocks | `free_block`, `inode_create`, `inode_read`, `inode_write`, `dir_lookup`, `walk_path` ... | the image |
| FUSE driver, `fsdriver.c` | open handles (`fi->fh`) | `fs_mknod`, `fs_unlink`, `fs_rename`, `fs_rmdir`, `fs_write` ... | inode layer |
| E-store, `lab3` | task queue, store (all unwritten) | thread wrappers, request generator | pthreads |
| `ls`, `lab2`; list and arrays, `lab1` | local | local | none |

What makes each right, and what is hard about it:

* **Kernel.** Processes never notice a trap or a switch; memory has exact
  owners; nobody starves; a fault stops the process that made it and no other.
  Hard: a trap at any point of a process, a reboot from the keyboard at every
  poll with stale `current` and `ticks`, loads that fail half-way, a result that
  is not looked at, an equality test on a counter.
* **Virtual memory.** What `_lookup` finds is what `_map` was told, for any
  sequence of maps, with allocations that fail in the middle of a range.
* **Keyboard.** The decoder is in step with the keys, and no command comes from
  a key the user did not press. Hard: it is polled late, survives reboots, loses
  bytes, and some keys send codes about other keys.
* **Console and library.** Processes print on one shared screen with one shared
  cursor; a panic stays readable. Formatting keeps the number; copies keep bytes.
* **Log.** What the kernel dumps can be analysed afterwards: no tick twice, none
  missing, the last one where it is expected.
* **Boot disk and boot loader.** What `mkbootdisk` is told to write is where the
  loader looks for it, and reaches memory without overwriting what is still needed.
* **Formatter.** What is written can be read back: the block pointers name the
  file's blocks and the bitmap covers them.
* **File system.** A block has one user, the bitmap agrees with the inodes, link
  counts with the names, names are a tree, an operation that fails changes no
  name, a file is a sequence of bytes. Hard: `ENOSPC` in the middle of any of
  these, directories with holes, handles that outlive the name. The allocator and
  the block walk are stubs in `src/` that panic, so these are statements about the
  code around them.

## Modules

| Module | What it is |
|---|---|
| `Kernel` | the kernel: state, actions, properties |
| `Processes` | what a process is promised: the abstract specification |
| `KernelImplements` | the refinement mapping from `Kernel` to `Processes` |
| `KernelInv` | the inductive invariant |
| `KernelProofs` | the theorems about `Kernel` and `LogDump`, and that `Kernel` implements `Processes` |
| `MCKernel` | small machines for TLC |
| `LogDump`, `MCLogDump` | `Kernel` with the dumps of a `TICK_LIMIT` build, and the analyser's view of them |
| `PageTable` | four-level page tables: `virtual_memory_init`, `_map`, `_lookup` |
| `AddressSpace` | the flat mapping they stand for: the abstract specification |
| `PageTableImplements` | the refinement mapping from `PageTable` to `AddressSpace` |
| `PageTableInv`, `PageTableProofs` | the inductive invariant, and the theorems about `PageTable` |
| `MCPageTable` | small tables for TLC |
| `Keyboard`, `MCKeyboard` | scan-code decoder and commands, with a user and a queue that loses bytes |
| `Console` | the shared screen and cursor, `app_printf`, both `panic`s |
| `Printf` | what one directive of `printer_vprintf` prints |
| `Library`, `MCLibrary` | memory and string routines, `snprintf`, with `Console` and `Printf` |
| `ConsoleProofs` | the theorem about `Console` |
| `Animate`, `AnimateProofs` | which process `memshow_virtual_animate` shows, and the theorem about it |
| `Boot`, `MCBoot` | `mkbootdisk` and the boot loader |
| `FsFormat` | the file system formatter, allocation by allocation |
| `FsImage` | the reader's side of the image, and the formatter's properties |
| `FsImageInv`, `FsImageProofs` | the inductive invariant, and the theorems about `FsFormat` and `FsImage` |
| `MCFsFormat` | small images and command lines for TLC |
| `FileSystem`, `MCFileSystem` | FUSE callbacks on names, over inodes, directories and bitmap |
| `FileSystemInv`, `FileSystemProofs` | the inductive invariant, and the theorems about `FileSystem` |
| `NameSpace`, `NameSpaceProofs` | what they promise of names: the abstract specification, and the theorem about it |
| `FileData`, `MCFileData` | reading, writing, cutting and flushing one file |
| `FileDataProofs` | the theorems about `FileData`, and that it implements `ByteFile` |
| `ByteFile` | what a file promises: the abstract specification |

How they compose. `LogDump` extends `Kernel`, each of its actions one of
`Kernel`'s with what it does to the log. `PageTable` refines what `Kernel` uses of
it: `Kernel` keeps the mapping (`kmap`), `PageTable` shows that the tables are one
(`ImplementsFlat`) and that a map never fails where `Kernel` takes that for granted
(`LowMapsSucceed`). `Keyboard` says which byte becomes which key, `Kernel` what a
key does to the kernel at each of the three polls. `FileSystem` has the blocks
that names need and shows that no two uses share a block; `FileData` then only
counts blocks, and knows what is in them. `FsImage` extends `FsFormat`, `Library`
extends `Console` and `Printf`. `Animate` keeps its own small copy of the process
table and the tick counter.

### From the code to `Kernel`

The kernel runs with interrupts off, so one pass through `exception()` is one
step, up to `run()` or to the loop of `schedule()`. That loop polls the keyboard
after every slot it passes over, and a key may throw away everything, so it takes
one step per slot (`SchedStep`). Boot takes one step per process
(`ProcessSetup`), which is where a load may fail and panic.

| Code | Model |
|---|---|
| `processes[i].p_state`, `p_pagetable`, `p_registers` | `p_state`, `p_pagetable`, `p_registers` |
| `current->p_pid`, `ticks`, `pageinfo[]` | `current`, `ticks`, `pageinfo` |
| the registers in the CPU while a process runs | `cpu` |
| `pid` in `schedule()` | `scan` |
| what `kernel_pagetable` maps | `kmap` |
| where the CPU is: setting up, in a process, in `schedule()`, in `fail()`'s loop, off | `mode` |
| `command`, the index of the boot loop | `command`, `setup` |
| one `case` of the switch in `exception()` | `SysGetpid`, `SysYield`, `SysPageAlloc`, `TimerInterrupt`, `PageFault`, `TrapPanics` |
| the `TICK_LIMIT` block | `AtTickLimit`, `TickLimitPoweroff` |
| `check_keyboard()` at its three call sites | `Polling`, `SoftReboot`, `QuitKey` |
| a vector for which the table has no gate | `ResetVectorFault` |

Abstractions. An address is a page number and whether it is aligned. Of the
registers, `%rax` (which the kernel writes) and `%rdi` (an argument, standing for
all that are only saved) are kept. The console is left out. A process is any code
that keeps to its own registers and to system calls: the kernel maps all memory
readable and writable for every process (`virtual_memory_init`), so nothing could
be said of one that writes over the kernel. The asserts that compare the page
table with the kernel's own addresses are `CheckPageTableMappings`.

The layout is constrained by the link scripts: `LayoutAssumption` says what they
and `physical_memory_isreserved` fix (kernel and reserved pages below the
processes, page 0 reserved, page tables in the kernel's data). Nothing is assumed
about the sizes of program images, which may run into the next process's region
or past the end of memory.

### From the code to `PageTable`

Addresses are page numbers; a table is a function from indexes to entries. The
two loops take one step per turn, so an allocation that fails leaves the tables
as they are in the code at that point. An allocator returns any page of `Pool`
that is no table yet, full of `Garbage`, or NULL. `Step` and `Lookup` are
`virtual_memory_lookup`.

| Code | Model |
|---|---|
| the arguments of `virtual_memory_map`, advanced by its loop | `req` |
| `last_index123`, `l4pagetable` | `last`, `l4` |
| `pt`, `i` of `lookup_l4pagetable` | `pt`, `level` |
| one turn of the loop | `LoopHead`, the walk when there is one, `StorePage` |
| a turn of the walk | `WalkDown`, `WalkAllocates` or `WalkFails` |

The abstract `AddressSpace` changes one page per step and may give up only a
request to map. Nothing in it knows of tables, so a table that is shared, linked
at the wrong level, not cleared, or cached for too long is a step it cannot take.

### From the code to `Animate`

Every trap draws before it is handled, a timer trap counts afterwards, and a soft
reboot gives a new process table while the two static variables stay. `NextLive`
is where the loop over free slots ends.

### From the code to `FsFormat`

The program is sequential and stops at the first `alloc()` that does not fit, so
one step is the code from one `alloc()` to the next; `OutOfBlocks` is the panic
in any of them (`Need` is the argument). A block holds a tagged record: the super
block, a set of free bits, an inode, pointers, a block of a file, or directory
entries. `finishinode()` is spread over `ReadFile` or `WriteDirectory` (sizes and
direct pointers), `AllocIndirect`, `AllocDouble` and `AllocSlot`, one step per
allocation. In `idiradd()` the entry's address is taken before the array may be
moved; where `realloc()` puts it is not determined, so the entry is either
written, or what `malloc()` left: any name of `StaleNames`, a file's among them, with
any number of `StaleInums`, of blocks in use, free ones and ones past the end of the
disk. The history variable `lost` has the files this happened to; no step depends on
it.

`FsImage` reads the image the way the file system does: `dir_lookup` and
`block_is_free` from their code, the block walk from the layout of `struct inode`
(`inode_block_walk()` is a stub in `src/`). An entry that was lost names no inode:
what a driver would find under its number is not part of the image the formatter
laid out.

### From the code to `LogDump`

`memdump_virtual_all()` runs at a timer interrupt before the tick is counted, and
only in a `TICK_LIMIT` build: `Dump` is part of `TimerTrap`, and of `KeyTyped` when
the trap that polls was the timer's. A dump is its tick and whether the two
invariants of `parse_log.py` hold of what would be printed, owners and counts cut
to a byte. `restarted` remembers that the machine entered `kernel()` again, by a
key or by a fault on a vector without a gate; `ticks` starts again then, and the
analyser, which takes no tick twice, can make nothing of the log.

### From the code to `Keyboard`

| Code | Model |
|---|---|
| `keymap[]`, `complex_keymap[]` | `keymap`, `complex_keymap` |
| static `modifiers`, `last_escape` | `modifiers` (the set of bits), `last_escape` |
| `keyboard_readc()` for a byte | `keyboard_readc`, `Pressed`, `Released` |
| `check_keyboard()` | `check_keyboard` |
| the controller's queue, the keys, the user (external) | `wire`, `held`, `Press`, `Repeat`, `Release`, `Pause` |

Every byte carries, for the properties only, which key it is about and what the
bytes before it said (`before`); `seen` is what all bytes sent say. Keys send what
set 1 says: an escape before the code of a grey key, an escaped Shift around it
while a Shift is held, six bytes for Pause, four for Break. A full queue drops the
bytes that do not fit, so a code may be cut in two.

`InStep` leaves two exceptions, both in its text: a modifier of which a byte was
lost and that has not moved since, and one of which two keys were held (the code
has one bit for both Shifts and drops it with the first release).

### From the code to `Console`, `Printf` and `Library`

A process may be interrupted between any two characters and between the store of
`cursorpos` and the test after it, so `app_printf()` is `app_printf`, one `Putc` per
character, `StoreCursor` and `WrapCursor`; `cursorpos` is not volatile, so the test
may use the stored value or read it again. The kernel prints with interrupts off:
`KernelPanic`, `SysPanic` and `PageFault` are one step each. `PANIC` stands for the
word. After `PageFault` the process stays as it is until the next boot. The message
goes to the last row, the second one of a panic, and so do the blanks of
`ClearLastRow`, which `p-forkexit.c` prints whenever it got a page; a process whose
panic is two rows long loses the second to either if it is interrupted before it traps.
The one other writer of these rows is `poweroff()`, when the machine does not go off.
The history variable `said` has what a panic printed until another writer
changes it.

`Printf` takes a directive after the loop over the format has read it, and its
argument as a word whose width is a constant; `Library` has the loops of `lib.c` as
functions on a memory, and makes one call on each memory it may start with;
`snprintf()` and the panic buffer, which read nothing there, on one that is all
`Filler`, not NUL, so that it shows whether each NUL was stored. The
loops that read a string stop at its NUL; a string without one is read past its
end in the code too, and no caller has one.

### From the code to `Boot`

`main()` of `mkbootdisk` is a loop over arguments: `BootSector`, `SkipTo`,
`CopyFile` (one read of the file), `PadFile`, `Fill`, `Made`. Each gives
`diskwrite()` its bytes (`out`), which leave in the pieces `write()` takes
(`Write`), or not at all (`WriteFails`); a file that cannot be opened ends the
program in the same way (`fopencheck()`) and is left out. `boot()` is `Boot`, then for each segment
the loop over sectors (`Command`, `DriveReady`, `ReadData`), `ClearBss` byte by
byte, and `NextSegment`. A byte of the kernel is its place in the file, so that a
byte in the wrong place shows; header `i` is byte `i`. In a partition (`-p`) nothing
is booted here: a master boot record would have to come first, which is not in
`src/`.

The segments are such that no two share a sector of memory. `boot_readseg()` reads
whole sectors, so that two that did would overwrite each other; the link scripts
align them.

### From the code to `FileSystem` and `NameSpace`

The disk is mapped shared and the driver runs single-threaded (`-s`): a callback is
one step, and what it wrote outlives the driver, so `Remount` is a kill between two
calls. A function of the code is an operator that takes the disk and returns its
result with the disk it leaves; what it does after a call is a local operator of
its own, named for what has been done. The `goto link_retry` of `fs_rename()` is written out
once: after the unlink no other call can make the name again, so the second try
does not answer `-EEXIST`. Only files are opened; `fs_readdir()` is what it returns
for a directory in use.

| Code | Model |
|---|---|
| the bitmap, the inodes, the directory blocks | `fs.free`, `fs.inode`, `fs.ents` |
| `fi->fh`, and libfuse's path to it | `fh.ino`, `fh.path` |
| `dir_lookup`, `dir_alloc_dirent`, `walk_path`, `inode_open`, `inode_create`, `inode_free` | operators of these names |
| `fs_mknod`, `fs_mkdir`, `fs_symlink`, `fs_readlink`, `fs_unlink`, `fs_rmdir`, `fs_rename`, `fs_link`, `fs_chmod`, `fs_getattr`, `fs_readdir`, `fs_statfs`, `fs_test` | operators of these names, and an action for each that changes the disk |
| `alloc_block`, `inode_get_block`, `inode_truncate_blocks`, `inode_link`, `inode_unlink` (stubs: external) | operators of these names |
| libfuse and the kernel (external) | the guards of `Unlink`, `UnlinkOpen`, `Rename`, `Open`, `Release` |

The stubs panic in `src/`; they are modelled as their comments promise and as their
callers use them: the lowest free block, cleared when it is allocated; `-ENOSPC`,
`-EINVAL`; pointers that are zeroed when a block is freed. `fi->fh` is the address of
the inode's block, and in the model its number.

`dir_lookup()` calls `inode_get_block()`, which allocates: a lookup may fill a hole
and may fail for want of space. Both are in `ScanDir`, and are why a getattr changes
the disk. `NameSpace` has none of this: a set of names, to which a call adds one,
takes one away, moves one, or does nothing. `dropped` is a history variable: a
rename has replaced a directory that was not empty, which `fs_rename()` does not
look at and the kernel leaves to it; what was in it is then lost with its blocks,
and `LinksCounted` and `NameSpaceIsTree` say which of their parts survive that.

### From the code to `FileData` and `ByteFile`

One file, on a disk that others fill and empty (`OthersTake`, `OthersGive`). A block
the inode can have is a data block by number, or the indirect block, the double
one, or one of the indirect blocks under it; `have` is the set of those it has.
The loops of `inode_read` and `inode_write` are functions `Turn` of the number of
turns made, a turn going up to the end of a block (`bn`); a loop that is through
stands still. `inode_write()` has moved the end of the file when it asks for
its first block. `ByteFile` is the promise that is left: a failed write has moved
the end and stored a prefix of whole blocks; a cut keeps what the last block held
behind the new end, and shows it again when the file grows.

### Runs

| Run | Question | Bounds | States |
|---|---|---|---|
| `kernel_memory` | do the kernel's assertions hold, is ownership exact, over allocation, faults, reboots, the tick limit and a load that does not fit; does `Kernel` implement `Processes` | 2 processes, 8 pages, 4 addresses, `TICK_LIMIT` 1 | 367,679 |
| `kernel_sched` | switches, ring order, no starvation, panic mode's polling | 3 processes in 4 slots with distinguishable contexts, no `TICK_LIMIT` | 55,288 |
| `log_dump` | does the tick limit end the run over reboots; is the log one that `parse_log.py` can read | limit 4, a dump every 2 ticks, counter modulo 8, images that collide, a page beyond memory | 374,637 |
| `page_table` | do the tables show a flat mapping, do the walk's assertions hold, is the cached table right | 4 entries per table, 8 pages, 3 pages for new tables, ranges of 2 pages across the ends of a level-4, a level-3 and a level-2 table | 44,760 |
| `keyboard` | is the decoder in step, are commands meant, is q answered | 8 keys and Pause, 2 held at a time, 5 moves, a queue of 4 bytes | 536,880 |
| `library` | does the cursor come back, do panics show, do copies, strings and numbers come out right | 2 processes with 2 prints each on 4 rows of 3; memory of 6 bytes; words of 4, 5 and 6 bits; all flags | 410,237 |
| `animate` | is there always a picture, does everyone get a turn | 5 slots, up to 4 processes, a counter modulo 9 | 243 |
| `boot` | is the disk as ordered, is the kernel in memory, does it boot | sectors of 4 bytes, disks of 6, kernels of 3 segments, partitions of 16 and 24 bytes | 12,940 |
| `fsformat` | does a finished image read back, is its bitmap exact, can its directory be worked on | up to 3 files of 5 lengths and 2 names, disks of 2 to 48 blocks, lost entries of 3 names and 4 numbers | 272,512 |
| `filesystem` | do blocks, link counts and names agree after any calls; do failed calls change no name; does `FileSystem` implement `NameSpace` | 2 names in 2 directories, 5 free blocks, 2 entries per block, 6 blocks in an inode, 1 open file | 59,931 |
| `filedata` | is every block found and given back; do reads return the bytes; does `FileData` implement `ByteFile` | 1 direct, 2 indirect, 4 double-indirect blocks of 2 bytes, 5 free blocks, writes of 1 and 3 bytes at every position | 19,494 |
| `doc_fsformat_entry` | a comment of the formatter, violated (see below) | as `fsformat` | |

The instances are small because each hazard needs few actors: one free page
outside any region, one that is reserved, one of the kernel's, and one of another
process give every outcome of `assign_physical_page`; three processes and the
free slot 0 are enough for the scan to pass over a broken slot, a free slot and
the wrap-around. The tick counter's width is a constant, so a short one shows
the wrap. `TickMod = 1` switches the counter off where no property needs it: the
tick limit is not set there, and nothing else in the model reads `ticks`. In a
`TICK_LIMIT` build `fail()` powers off instead of polling the keyboard, so that
part of a panic is in `kernel_sched`.

`page_table` starts ranges at page 7, whose successor is the first that the
kernel's own tables do not span and needs one new table, and at page 63, whose
successor needs all three; so the allocator can fail at each level, before and
after a success. Two permission values, one of them "not present", give mapping
and unmapping. `Animate`'s counter is short so that it wraps, with last_ticks = 0
meaning "never" then too; 5 slots with 1, 3 or 4 processes make the search start
behind the last process, on slot 0 and after a reboot into fewer. The formatter's
blocks have two entries and two pointers of each kind; the lengths are none, part
of a block, exactly the direct pointers, exactly those and the indirect ones, and
most of the double ones; the array grows at the second file, so there is one after
it; the disks end in the bitmap, in the root, in a file's pointers, or not at all,
with one to six blocks of bitmap.

`keyboard` has a letter that is a command and two that are commands with or without
Control, both Shifts, a grey Control, CapsLock and a grey arrow; five moves are a
modifier down, a letter, a modifier up and two more, and four bytes of queue cut a
grey key's code after each of its bytes. `library`'s screen has the two rows kept
for panics, which one of the two messages fills, and two above, so that two processes
can pass each other at the wrap; words of 4 to 6 bits have every edge of `int`, pointers and `long`. `boot`'s kernels
begin and end on and off a sector's edge, with files shorter and longer than one
read, and partitions that end too early. In `filesystem`, five blocks make a
directory with a file in it and a full disk, whichever way they are used; two
entries per block make a directory grow at the third name and leave a hole when it
cannot; an inode has more pointers than the disk has blocks, as in the code, where an
image's size in bytes has 32 bits (`fsformat.c:93`). In `filedata`, five blocks
are fewer than the seven data and four pointer blocks of a file, so that every kind
of block is missing at some time.

Deadlock is not checked for the kernel and the keyboard because the machine may be
switched off, nor for the formatter, the boot disk and the library's calls, which
end.

Fairness. The kernel's own code keeps running: weak fairness of `ProcessSetup`,
`RunFirst`, `SchedStep`, `TickLimitPoweroff`. `TimerInterrupt` is strongly fair:
an interrupt raised while interrupts are off stays pending and is taken when a
process runs, so system calls cannot put it off for ever. Nothing is assumed
about processes, faults or keys, and a yield is never assumed to happen. In
`Animate` the timer goes on while processes run (weak fairness of `TimerTrap`). In
`Keyboard`, `check_keyboard` is weakly fair: a process runs until the next timer
interrupt at the latest, and `schedule()` and `fail()` loop over the poll. In `Boot`
the programs run on and the drive answers (weak fairness of `Next`). The other
modules state no liveness: a callback or a call of a function ends by itself, and
nobody promises another one.

### Disagreements with comments and messages

* `fsformat.c:220` has "Copy name and inumber to directory entry"; the entry of
  the file that makes the array grow, the 128th, is written through a pointer into
  the old array. If `realloc()` moved it, the file is on the image and cannot be
  found, and the entry has a name and a number that nobody chose
  (`doc_fsformat_entry`). `FilesReadBack` and `DirectoryUsable` are stated for all
  other files. `BitmapExact` does not take the number in a lost entry for the name
  of a block, which may be free or not exist; the lost file's own blocks stay marked
  as used, so leaks are ruled out only for images without a lost entry.

Smaller ones, met while reading and not given runs:

* `k-hardware.c:112` has "most interrupts are effectively ignored" for the
  default handler; it panics (`TrapPanics`).
* `k-hardware.c:769` has `fail()` loop "until user presses Control-C, then
  poweroff"; the keys a, f and e leave it for a new boot.
* `kernel.c:506` and `:512` have the animation switch every 0.25 sec; `HZ / 2` is
  half a second. The comment also has it start with process 1; it has moved on to 2
  before the first picture.
* `fsformat.c:80` has "out of disk blocks", and says it with one block left.
* `dir.c:14` promises only `-ENOENT` as an error of `dir_lookup()`; with a hole in
  the directory and a full disk it is `-ENOSPC`. `fs_rename()` on such a disk may
  unlink the destination and then not find that it is gone; `FailedCallsKeepNames`
  names that case.
* `fs_rename()` onto a directory that is not empty is answered with success, and
  what it held keeps its blocks for ever (`dropped`).
* `parse_log.py:62` asserts that a tick is dumped once; after a reboot one is dumped
  twice (`restarted`).

## Proofs

For every value of the constants that satisfies the named assumptions,

* `KernelProofs` proves of `Kernel` `Inductive`: `Spec => []IInv`;
  `TypeCorrect`; `SelfChecks`, `MemoryExact`, `ProcessesLoaded`: the invariants of
  `kernel_memory`; `TicksBounded`; `SwitchesInvisible`, `FirstInRing`: the action
  properties of `kernel_sched`; `PromiseKept`: `Kernel` implements `Processes`;
  and of `LogDump` `LoggingIsInvisible`: a kernel with a log is a `Kernel`;
  `TicksBoundedInLog`, `LogAccepted`, `LastDumpThere`: the properties of `log_dump`;
* `PageTableProofs` proves `Inductive`, `WalksAlwaysSucceed` and
  `TablesAlwaysFormTree`: the invariants of `page_table`; and `FlatImplemented`:
  `PageTable` implements `AddressSpace`;
* `ConsoleProofs` proves `CursorAlwaysReturns`, the invariant `CursorReturns` of
  `library`, for any screen of at least three rows;
* `FsImageProofs` proves `Inductive`, and with it `FilesComeBack`, `DirectoryWorks`
  and `BitmapAlwaysExact`: the invariants of `fsformat`;
* `FileDataProofs` proves `FileDataInvariant`, and with it `NothingLost` and
  `ReadsRight`: the invariants of `filedata`; and `ByteFileImplemented`: `FileData`
  implements `ByteFile`;
* `FileSystemProofs` proves `FileSystemInvariant`, and with it `NoBlockLost`,
  `NamesAreCounted`, `FailuresKeepNames` and `NamesFormTree`: the invariants
  `BlocksAccounted`, `LinksCounted`, `FailedCallsKeepNames` and `NameSpaceIsTree` of
  `filesystem`; and `NamesAsPromised`: `FileSystem` implements `NameSpace`;
* `AnimateProofs` proves `AlwaysAPicture`, the action property `AlwaysDraws`;
* `NameSpaceProofs` proves `NamesStayUnique` of the abstract name space.

None of the kernel's invariants is inductive alone. `CheckVirtualMemory` compares a
reference count with the size of a set of processes; to know that the two change
together one must know that processes occupy slots 1 to `NSetUp` (`ProcsInv`) and
that the count is one more (`TableInv`). That a page's owner exists (`OwnersInv`)
needs the same. That a process owns its stack page although the result of the
assignment is dropped is the interesting one: the page may be taken, and the
argument (`StackIsFreeOrOwn`) is that an earlier process `q` that had it would
either have an image that covers the base of the new one, whose load would have
failed before, or have it for its own stack, which is in another region. For that
`OwnersInv` says that until the first process runs, owned pages are all within
their owners' claims. `PageInv` and `kmap = KernelMap` hold in every mode; the rest
while the machine is alive, since a load that fails leaves pages owned by a
process that does not exist. `LoadedProcesses` nevertheless holds in the stopped
machine: `LoadedStep` proves it step by step.

The order of the scan is proved through `ScanInv` (no runnable process has been
passed over), with the modular arithmetic in `RingArithmetic` and `RingStep`.

`PromiseKept` maps a process's context to its saved registers, or to the CPU's while
it runs, and hides `mode`, `scan`, `ticks` and the reference counts. Under it traps,
the scheduler's turns and timer interrupts stutter (`QuietImplements`,
`SchedImplements`, `YieldImplements`). A load that succeeds is one step of the
abstract specification, which demands that every page of the process was free;
`SetupImplements` takes that from the same argument about the stack page as
`LoadedStep`. A load that fails, a panic and a power-off are the abstract
machine going down, whatever pages the half-loaded process has taken; a reboot is
it coming up again with the owners of a fresh `pageinfo_init()`.

`LogReadable` needs to know when the next dump is due. `LogInv` relates the two
counters: while nobody has restarted the machine, the number of dumps is the
number of multiples of `HZ` below `ticks`, or the log is at its bound. With
`TickLimit <= MaxDumps * HZ` (`DumpAssumption`: the bound `MaxDumps` is there for
machines that are restarted and keeps no dump of an undisturbed run out of the log)
the last dump is then the one before the limit. That every dump passes the
analyser's checks comes from `kmap = KernelMap` of the kernel's invariant, through
`LoggingIsInvisible`.

The invariants of `PageTable` are not inductive: that each table has one link says
nothing of where in the tree it is, and the next walk may then come to one table by
two ways. `IInv` says that there is a function `depth` from tables to distances
from the root such that links lead from each depth to the next and no two links to
the same table (`Tree`), that the walk's `pt` is at depth `level` on the way of the
address (`WalkInv`), and that the cached table is the one a walk would find for
every address of its span, or that a walk would find none for any of them
(`CacheInv`). An address has one table at each depth, and two addresses have the
same one exactly when their indexes above it agree (`ReachesSpan`, `ReachesApart`,
`IndexUnique`): with that, `StorePage` changes what a lookup of one page shows
(`StoreLookup`). `WalkAllocates` changes nothing: the new table was reached by
nobody (`AllocReaches`), and who reaches it now finds it empty, where there was no
entry before (`AllocLookup`). `KernelLinks` and `RequestInv` give that maps of the
kernel's own range find their table. `TablesFormTree` counts tables in the first
three levels; `Generation` shows that the tables of each depth are those the
walk down the levels collects.

`CursorReturns` says that a cursor in the panic rows is about to be taken back.
It is not inductive: a process about to wrap may look at the position it stored
itself, and so miss that another process has stored one in the panic rows since.
`CursorInv` says more: some process about to wrap stored exactly the position that
is there, so that whichever value it looks at, it takes the cursor back. It also
has the position of every call under way, and the arithmetic of rows (`RowEnds`)
shows that a character, a newline included, ends on the screen or just past it,
where the next one wraps.

The properties of a finished image say nothing of one that is half done. `IInv` does:
the formatter allocates from front to back, so where the inode of each file is
(`At`), how many blocks of pointers it has (`Extra`) and what is in them (`LaidOut`)
follows from the lengths of the files before it alone, and `Stage` says how much
of the file at hand is there. Each action has one lemma; `Continue` and `StageInv`
have what they share, `PointerStep` the three that make a block of pointers.
`FilesComeBack` then is arithmetic: the walk divides a position by the numbers that
`SlotBase` multiplied (`Doubles`, `BlockRead`). `BitmapAlwaysExact` gives each block
of an inode the one place that names it (`Place`). `NamedInPlace` and `PlaceNames`
say that the two fit together, `JobsApart` that the blocks of two inodes have
nothing in common, so `Links` and `Linked` have as many elements; `NothingLeaks`
goes through a disk from its start to `diskpos`. `EntriesInv` keeps `lost` apart from
the entries that are their files'; of the number in a lost one nothing is used.
`DirectoryAssumption`
is one the code makes without a word: the names of a command line fit in a
directory, which with blocks of 4096 bytes holds millions of them. `At` and
`Capacity` are recursive functions; that they exist is `Recursion`, from
`SetInduction`, induction over a set instead of a predicate.

That a cut gives back every block is not inductive: it has to find them, and finds
only what is below the file's size and has its pointers. `Sound` says that this is
all there is, pointer blocks included, and that the data of a block the file does
not have are zeros; `Used` (blocks and free blocks) stays the same through every
`Alloc` and every `FreeSlots`, whether the operation succeeds or runs out of space
halfway (`GetBlock`, `Truncated`, `SizeSet`). With `Sound`, the content of a file is
its data by position (`ContentIs`), so the loops need only position arithmetic:
`DivUnique` and `SameBlock` say which byte of which block a position is, `Turn` that
a turn of a loop goes on and ends at a block's end. Each loop has an invariant
(`ReadSoFar`, `WriteSoFar`) and a lemma for one turn of it; that the functions
`Turn` exist is `ReadTurns` and `WriteTurns`, by `SetInduction`. `WriteIs` says more
than `ByteFile` asks: a write that reports no error has stored all its bytes.

The calls of the driver fail half way, and what they leave then must be as good as
what they leave when they succeed. `IInv` of `FileSystemInv` has what every function
of `FileSystem` finds and leaves, failing or not (`Sound`): a block is in one place of
one inode (`OneUse`); it is free, or an inode, or some inode's (`Partition`); a
directory has the blocks of its size, except perhaps the last, which is the hole that
a full disk leaves (`Shapes`); an entry leads to an inode, by a name no other entry
of its directory has (`Names1`); and no inode has more names than it counts (`Links`).
Beside it, a directory counts one name and nothing in use counts none (`OneName`),
and counts are exact unless a
directory with entries has been replaced (`Exact`). None of these is inductive alone:
that an inode is freed with its last name takes `Links`, that freeing its blocks takes
nobody else's takes `OneUse`, that an entry written is not one in use takes
`Partition`, and that a directory always has a pointer to spare when it grows takes
`SizeAssumption` (`RoomLeft`). Each function has a lemma that says what it does to a
sound disk: `HoleFilled`, `ScanIs`, `DirentIs`, `WalkIs`, `CreateIs`, `LinkIs`,
`UnlinkIs` and those for the calls built from them. A function that fails leaves the
names it found (`SameNames`), and one that succeeds adds an entry (`Named`), or takes
one away with the inode it was the last name of. The loops of `ScanDir` and `walk_path`
have an invariant each (`ScanSoFar`, `WalkSoFar`) and a lemma for one turn; that they
exist as functions is `SetInduction` again. A rename is the long case: it links,
unlinks and links, and each step may fill a hole, grow a directory or run out of space.

`NamesAsPromised` says what all this comes to for a user. `Entries` of a sound disk
are the steps from a directory by a name (`EntriesAre`), and of each call it is shown
which of them it adds and takes away (`Created`, `Linked`, `Removed`, `Renamed`), or
that it keeps them (`Kept`), and always that it keeps them if it returns an error
(`Does`). Two arguments carry the rename. A directory counts one name, so one path
leads to it (`DirPathIsOne`); hence the unlink of the destination disturbs no path
that does not begin with it (`ChainStays`), and the source, which does not, is still
found. And the place the unlink freed takes the new entry (`PlaceFreed`), so that the
second try can fail for one reason only: no block is free and the way to a name leads
through a hole (`MoveFails`). A rename between two names of one file comes to an
unlink of the old one (`TakenThenShifted`).

`NamesFormTree` needs one more invariant, that everything hangs from the root
(`AllRooted`, theorem `NothingAdrift`), and induction along paths is out of reach for
the provers. So `Rooted` says it by sets: every set that has the root and, with a
directory, what the directory has entries for (`Closed`) has every directory that has
an entry. A call that adds an entry keeps this because the directory it adds to had a
name (`AddedRooted`); one that removes an entry, because what it removes is empty
(`RemovedRooted`). A rename could cut a loop off the tree. It does not
(`RenamedRooted`) because the walk to the destination's directory never met what is
moved: if it had, the path of the source, the only one of a directory, would begin
the destination's (`ChainClear`), and that the kernel excludes. A directory inside one
that is replaced would stay in use without a name; as long as counts are exact there is
none, and this is where `AllRooted` fails once `dropped` is true. That the turns of
`Reach` in the invariant are enough is a count: each reaches another directory or
finds nothing new (`ReachGrows`).

`AlwaysDraws` rests on `RingInv`, types and the existence of a process. The search
is a `CHOOSE` of the least place where the loop ends; `MeetsSlot` shows that a turn
of the ring from any slot meets every slot before the second round ends, and the
least such place exists because `<` is well-founded on the naturals.

`NamesAreUnique` is inductive as it stands, and the refinement carries it over to the
driver. The step that is not obvious is a rename onto a directory, which must take the
entries under it out of the name space along with it.

Only model-checked:

* liveness (`RunsAgain`, `TickLimitEndsRun`, `EveryoneDrawn`, `QuitAnswered`,
  `Boots`), which is out of the prover's reach;
* what folds and recursive operators compute over data, which needs induction the
  provers cannot instantiate: `Printf` and the loops of `Library`, `PanicShows`,
  the layout of a disk in `Boot`;
* so far, `HandleValid` and `TestPassesAnywhere` of `FileSystem`; the invariants of
  `Keyboard`.

## Not modelled

* What the memory pictures paint, colours, the hardware cursor, device port
  protocols, descriptor bits: output only, or fixed tables.
* `do_multiboot()`, the partition search, the mode switches of `bootstart.S`: run
  once, with nothing before or beside them.
* The bytes of program images in the loader: no property depends on them; `Boot`
  has the same loop for the kernel's own.
* `memset`, the random generator, the reading of a format string, and `%C`, which
  sets a colour.
* Times, owners, permissions, the `msync` schedule and option parsing of `lab5`:
  no decision of the code depends on them.
* A directory that is removed while another program reads it: libfuse keeps its handle
  (`fsdriver.c:259`), and nothing in the code keeps its inode.
* A crash inside a callback: nothing in the code orders its writes or repairs
  them, so there is nothing it promises.
* `sys_fork`, `sys_exit` and per-process page tables, the queue, store and handlers
  of `lab3`, the listing of `lab2`, `lab1`: not written in `src/`. The thread
  wrappers of `lab3` are called by nobody.
* Test programs, build and grading infrastructure.

## Plan

Done: the kernel with its abstract specification, invariant and proofs; the log;
page tables; keyboard; console, printing and memory; the boot path; the formatter;
names and data of the file system with their abstract specifications; the kernel's
refinement, its log, its page tables, the formatter, the data of files, and the
blocks, link counts, names and tree of the file system proved. What is left, in order:

1. Proofs: `HandleValid` of `FileSystem`, from its invariant;
   `InStep` of `Keyboard`; `SectorsCounted` and `DiskAsOrdered` of `Boot`.
2. Positions of a file near 2^32, where the code's 32-bit arithmetic would wrap:
   `FileData` stays below its maximal size.
3. `lab3` and the missing system calls, once they are written.
