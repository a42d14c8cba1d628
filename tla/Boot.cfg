CONSTANTS
  SECTORSIZE = 4
  BUFSIZE = 8
  PAGESIZE = 8
  DISKSECTORS = 6
  MemSize = 28
  BootCode = 1
  CommandLines <- MCCommandLines
  Partitions <- MCPartitions
SPECIFICATION Spec
INVARIANT DiskAsOrdered
INVARIANT KernelInMemory
PROPERTY Boots
CHECK_DEADLOCK FALSE
