SPECIFICATION DumpSpec
CONSTANTS
  NPROC = 3
  NPages = 8
  NVPages = 9
  ReservedPages <- MCReserved
  KernelPages <- MCKernelPages
  KernelText <- MCKernelText
  PageTables <- MCPageTables
  kernel_pagetable = 1
  ProcStart = 4
  ProcSize = 2
  NAlloc = 2
  ImageLen <- TwoProcessImages
  ForceFork = FALSE
  TickLimit = 4
  TickMod = 8
  Addresses <- EdgeAddresses
  HZ = 2
  CGAPage = 0
  MaxDumps = 3
INVARIANT TicksNeverPassLimit
INVARIANT LogReadable
PROPERTY TickLimitEndsRun
PROPERTY LastDumpExpected
CHECK_DEADLOCK FALSE
