-------------------------------- MODULE MCBoot --------------------------------
EXTENDS Boot

(* Kernels of two segments and, as the linker makes them, an empty one that    *)
(* says where the stack may be; segments start anywhere in a sector.           *)
Text == {[va |-> 8 + o, offset |-> 4 + o, filesz |-> n, memsz |-> n] : o \in {0, 3}, n \in {3, 4}}
DataSeg == {[va |-> 16 + o, offset |-> 12 + o, filesz |-> n, memsz |-> n + z] : o \in {0, 1}, n \in {0, 1, 3}, z \in {0, 2, 5}}
Stack == [va |-> 0, offset |-> 0, filesz |-> 0, memsz |-> 0]

KernelFile(segs, elf, len) == [kind |-> "file", len |-> len, from |-> 0, segs |-> segs, elf |-> elf]
Kernels == {KernelFile(<<t, d, Stack>>, TRUE, 16) : t \in Text, d \in DataSeg}

MCCommandLines ==
    {<<k>> : k \in Kernels}
    \cup {<<KernelFile(<<>>, FALSE, 5)>>,
          <<[kind |-> "skip", sector |-> 1], KernelFile(<<Stack>>, TRUE, 9)>>,
          <<[kind |-> "file", len |-> 8, from |-> 500], KernelFile(<<>>, FALSE, 4)>>,
          <<[kind |-> "file", len |-> 5, from |-> 500], [kind |-> "skip", sector |-> 3], KernelFile(<<>>, FALSE, 4)>>,
          <<[kind |-> "file", len |-> 9, from |-> 500], [kind |-> "skip", sector |-> 2], KernelFile(<<>>, FALSE, 4)>>}

MCPartitions == {0, 16, 24}
=============================================================================
