--------------------------------- MODULE Boot ---------------------------------
(* From the kernel's file to the kernel in memory (lab4): mkbootdisk writes    *)
(* the boot sector and the files of its command line to a disk, sector by      *)
(* sector; the boot loader (boot.c) reads the kernel's first page to scratch   *)
(* memory, finds the program headers in it and loads segment after segment.    *)
(* Addresses, offsets and sizes count bytes; a byte of the kernel is its place *)
(* in the file, so that a byte in the wrong place shows.                       *)
EXTENDS Naturals, SequencesExt

CONSTANTS SECTORSIZE,
          BUFSIZE,      \* what mkbootdisk reads of a file at a time
          PAGESIZE,     \* what boot() reads of the kernel for its headers
          DISKSECTORS,  \* sectors mkbootdisk fills (1024)
          MemSize,      \* bytes of memory; ELFHDR is at 0, below all segments
          BootCode,     \* length of the boot loader's code
          CommandLines, \* arguments after the boot sector: [skip] and [file] records
          Partitions    \* what find_partition sets maxoff to: 0 without -p

Junk      == 1000               \* memory nobody has written
Code      == 2000               \* a byte of the boot loader
Signature == <<3055, 3170>>
ELFHDR    == 0

VARIABLES args,     \* the command line; the kernel is its last file
          maxoff,   \* the end of the partition, 0 if there is none
          disk,     \* what is written, curoff bytes long
          out,      \* what is left of the current diskwrite()
          argi, pos, nsectors,          \* main() of mkbootdisk
          pc, mem, ph, seg, ready       \* boot(): seg is the local state of boot_readseg()

making  == <<disk, out, argi, pos, nsectors>>
loading == <<mem, ph, seg, ready>>
vars    == <<args, maxoff, making, pc, loading>>

Zeros(n)   == [i \in 1..n |-> 0]
Contents(f) == [i \in 1..f.len |-> i + f.from]

-----------------------------------------------------------------------------
(* mkbootdisk                                                                  *)

(* diskwrite(): the test for room comes first, then the bytes go out.          *)
diskwrite(data, next) ==
    IF maxoff > 0 /\ Len(disk) + Len(data) > maxoff
    THEN pc' = "failed" /\ UNCHANGED making
    ELSE out' = data /\ next /\ UNCHANGED <<disk, pc>>

(* write() takes any part of what it is given; interrupted, it is tried again. *)
Write ==
    /\ out # <<>> /\ pc # "failed"
    /\ \E w \in 1..Len(out) : disk' = disk \o SubSeq(out, 1, w) /\ out' = SubSeq(out, w + 1, Len(out))
    /\ UNCHANGED <<args, maxoff, argi, pos, nsectors, pc, loading>>

WriteFails ==
    /\ out # <<>> /\ pc' = "failed"
    /\ UNCHANGED <<args, maxoff, making, loading>>

Making == pc = "make" /\ out = <<>> /\ UNCHANGED <<args, maxoff, loading>>

(* With -p the first argument is a file like the others.                       *)
BootSector ==
    /\ Making /\ argi = 0
    /\ IF maxoff > 0 THEN argi' = 1 /\ UNCHANGED <<disk, out, pos, nsectors, pc>>
       ELSE IF BootCode > SECTORSIZE - 2 THEN pc' = "failed" /\ UNCHANGED making
       ELSE diskwrite([i \in 1..BootCode |-> Code] \o Zeros(SECTORSIZE - 2 - BootCode) \o Signature,
                      argi' = 1 /\ nsectors' = 1 /\ UNCHANGED pos)

ZeroSector == diskwrite(Zeros(SECTORSIZE), nsectors' = nsectors + 1 /\ UNCHANGED <<argi, pos>>)

Arg == args[argi]
InArgs == argi \in DOMAIN args

SkipTo ==
    /\ Making /\ InArgs /\ Arg.kind = "skip"
    /\ IF nsectors > Arg.sector THEN pc' = "failed" /\ UNCHANGED making
       ELSE IF nsectors < Arg.sector THEN ZeroSector
       ELSE argi' = argi + 1 /\ UNCHANGED <<disk, out, pos, nsectors, pc>>

CopyFile ==
    LET n == IF Arg.len - pos < BUFSIZE THEN Arg.len - pos ELSE BUFSIZE IN
    /\ Making /\ InArgs /\ Arg.kind = "file" /\ pos < Arg.len
    /\ diskwrite(SubSeq(Contents(Arg), pos + 1, pos + n), pos' = pos + n /\ UNCHANGED <<argi, nsectors>>)

(* Mutant: a sector of zeros after a file that ends with a sector.             *)
PadFileAlways ==
    /\ Making /\ InArgs /\ Arg.kind = "file" /\ pos >= Arg.len
    /\ LET pad == SECTORSIZE - (pos % SECTORSIZE) IN
       diskwrite(Zeros(pad), pos' = 0 /\ nsectors' = nsectors + (pos + pad) \div SECTORSIZE /\ argi' = argi + 1)

PadFile ==
    /\ Making /\ InArgs /\ Arg.kind = "file" /\ pos >= Arg.len
    /\ LET pad == IF pos % SECTORSIZE = 0 THEN 0 ELSE SECTORSIZE - (pos % SECTORSIZE)
           next == pos' = 0 /\ nsectors' = nsectors + (pos + pad) \div SECTORSIZE /\ argi' = argi + 1 IN
       IF pad > 0 THEN diskwrite(Zeros(pad), next) ELSE next /\ UNCHANGED <<disk, out, pc>>

Fill == Making /\ argi > Len(args) /\ nsectors < DISKSECTORS /\ ZeroSector

Made == Making /\ argi > Len(args) /\ nsectors >= DISKSECTORS /\ pc' = "made" /\ UNCHANGED making

-----------------------------------------------------------------------------
(* boot.c                                                                      *)

Kernel == Last(args)

(* The locals of boot_readseg() before its loops.                              *)
boot_readseg(ptr, src_sect, filesz, memsz) ==
    [ptr |-> ptr - (ptr % SECTORSIZE), sect |-> src_sect, end |-> ptr + filesz, mem |-> ptr + memsz]

Boot == /\ pc = "made" /\ maxoff = 0
        /\ pc' = "read" /\ ph' = 0 /\ seg' = boot_readseg(ELFHDR, 1, PAGESIZE, PAGESIZE)
        /\ UNCHANGED <<args, maxoff, making, mem, ready>>

(* boot_readsect(): wait for the drive, give the command, wait again.          *)
Command ==
    /\ pc = "read" /\ seg.ptr < seg.end /\ ready
    /\ pc' = "data" /\ ready' = FALSE
    /\ UNCHANGED <<args, maxoff, making, mem, ph, seg>>

DriveReady == ~ready /\ ready' = TRUE /\ UNCHANGED <<args, maxoff, making, pc, mem, ph, seg>>

(* Mutant: the pointer into memory stands still.                               *)
ReadDataInPlace ==
    /\ pc = "data" /\ ready
    /\ mem' = [a \in DOMAIN mem |-> IF a \in seg.ptr..seg.ptr+SECTORSIZE-1
                                    THEN disk[seg.sect * SECTORSIZE + a - seg.ptr + 1] ELSE mem[a]]
    /\ pc' = "read"
    /\ UNCHANGED <<args, maxoff, making, ph, seg, ready>>

ReadData ==
    /\ pc = "data" /\ ready
    /\ mem' = [a \in DOMAIN mem |-> IF a \in seg.ptr..seg.ptr+SECTORSIZE-1
                                    THEN disk[seg.sect * SECTORSIZE + a - seg.ptr + 1] ELSE mem[a]]
    /\ seg' = [seg EXCEPT !.ptr = @ + SECTORSIZE, !.sect = @ + 1]
    /\ pc' = "read"
    /\ UNCHANGED <<args, maxoff, making, ph, ready>>

AllRead == pc = "bss" \/ (pc = "read" /\ seg.ptr >= seg.end)

ClearBss ==
    /\ AllRead /\ seg.end < seg.mem
    /\ pc' = "bss"
    /\ mem' = [mem EXCEPT ![seg.end] = 0]
    /\ seg' = [seg EXCEPT !.end = @ + 1]
    /\ UNCHANGED <<args, maxoff, making, ph, ready>>

(* The header of segment i is at byte i of the file, the magic number before.  *)
Magic == mem[ELFHDR] = Contents(Kernel)[1] /\ Kernel.elf

(* Mutant: the offset's sector, forgetting that the kernel starts at sector 1. *)
NextSegmentSector0 ==
    /\ AllRead /\ seg.end >= seg.mem
    /\ ph = 0 => Magic
    /\ IF ph = Len(Kernel.segs) THEN pc' = "kernel" /\ UNCHANGED <<ph, seg>>
       ELSE LET p == Kernel.segs[ph + 1] IN
            /\ ph' = ph + 1 /\ seg' = boot_readseg(p.va, p.offset \div SECTORSIZE, p.filesz, p.memsz)
            /\ pc' = "read"
    /\ UNCHANGED <<args, maxoff, making, mem, ready>>

(* boot() between two calls of boot_readseg(); without the magic number it     *)
(* spins.                                                                      *)
NextSegment ==
    /\ AllRead /\ seg.end >= seg.mem
    /\ ph = 0 => Magic
    /\ IF ph = Len(Kernel.segs) THEN pc' = "kernel" /\ UNCHANGED <<ph, seg>>
       ELSE LET p == Kernel.segs[ph + 1] IN
            /\ ph' = ph + 1 /\ seg' = boot_readseg(p.va, p.offset \div SECTORSIZE + 1, p.filesz, p.memsz)
            /\ pc' = "read"
    /\ UNCHANGED <<args, maxoff, making, mem, ready>>

-----------------------------------------------------------------------------
Init ==
    /\ args \in CommandLines /\ maxoff \in Partitions
    /\ disk = <<>> /\ out = <<>> /\ argi = 0 /\ pos = 0 /\ nsectors = 0
    /\ pc = "make" /\ mem = [a \in 0..MemSize-1 |-> Junk] /\ ph = 0 /\ ready = TRUE
    /\ seg = boot_readseg(0, 0, 0, 0)

Next ==
    \/ Write \/ WriteFails \/ BootSector \/ SkipTo \/ CopyFile \/ PadFile \/ Fill \/ Made
    \/ Boot \/ Command \/ DriveReady \/ ReadData \/ ClearBss \/ NextSegment

(* The programs run on and the drive answers.                                  *)
Spec == Init /\ [][Next]_vars /\ WF_vars(Next)

-----------------------------------------------------------------------------
TypeOK ==
    /\ maxoff \in Nat /\ argi \in 0..Len(args)+1 /\ pos \in Nat /\ nsectors \in 0..DISKSECTORS
    /\ pc \in {"make", "made", "failed", "read", "data", "bss", "kernel"}
    /\ \A i \in DOMAIN disk : disk[i] \in Nat
    /\ DOMAIN mem = 0..MemSize-1 /\ ready \in BOOLEAN /\ ph \in 0..8
    /\ seg.ptr % SECTORSIZE = 0 /\ seg.sect <= DISKSECTORS

(* main() counts sectors while diskwrite() counts bytes: between files they    *)
(* agree, and no byte goes past the partition.                                 *)
SectorsCounted ==
    /\ out = <<>> /\ pos = 0 => Len(disk) = nsectors * SECTORSIZE \/ pc = "failed"
    /\ maxoff > 0 => Len(disk) + Len(out) <= maxoff

(* What the disk should hold: each file from a sector of its own, zeros        *)
(* between.                                                                    *)
StartOf == [i \in 1..Len(args)+1 |->
    LET Size(a) == (a.len + SECTORSIZE - 1) \div SECTORSIZE
        S[k \in 0..Len(args)] ==
          IF k = 0 THEN IF maxoff > 0 THEN 0 ELSE 1
          ELSE IF args[k].kind = "skip" THEN args[k].sector ELSE S[k-1] + Size(args[k]) IN
    S[i-1]]

(* Whatever pieces write() takes, the two counts stay in step, and a disk that *)
(* was made to its end holds what was ordered, where it was ordered.           *)
DiskAsOrdered ==
    /\ TypeOK /\ SectorsCounted
    /\ pc \notin {"make", "failed"} =>
        /\ Len(disk) = DISKSECTORS * SECTORSIZE
        /\ \A i \in DOMAIN args : args[i].kind = "file" =>
               SubSeq(disk, StartOf[i] * SECTORSIZE + 1, StartOf[i] * SECTORSIZE + args[i].len) = Contents(args[i])
        /\ maxoff = 0 => SubSeq(disk, SECTORSIZE - 1, SECTORSIZE) = Signature

(* boot() reads the program headers in scratch memory while it loads: no       *)
(* sector and no bss goes there before the last one is read.                   *)
HeadersStand ==
    ph > 0 => \A i \in 0..Len(Kernel.segs) : mem[ELFHDR + i] = Contents(Kernel)[i + 1]

(* When the kernel is entered each of its segments is in memory as its file    *)
(* says, its bss cleared.  The segments are such that no two share a sector of *)
(* memory: boot_readseg() reads whole sectors and would overwrite a bss.       *)
KernelInMemory ==
    /\ HeadersStand
    /\ pc = "kernel" => \A i \in DOMAIN Kernel.segs : \A o \in 0..Kernel.segs[i].memsz-1 :
        LET p == Kernel.segs[i] IN
        mem[p.va + o] = IF o < p.filesz THEN Contents(Kernel)[p.offset + o + 1] ELSE 0

(* If the image was made, it holds a kernel and the drive answers, it boots.   *)
Boots == pc = "made" /\ maxoff = 0 /\ Kernel.elf ~> pc = "kernel"
=============================================================================
