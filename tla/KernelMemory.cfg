SPECIFICATION Spec
CONSTANTS
  NPROC = 3
  NPages = 8
  NVPages = 9
  ReservedPages <- MCReserved
  KernelPages <- MCKernelPages
  KernelText <- MCKernelText
  PageTables <- MCPageTables
  kernel_pagetable = 1
  ProcStart = 4
  ProcSize = 2
  NAlloc = 2
  ImageLen <- TwoProcessImages
  ForceFork = FALSE
  TickLimit = 1
  TickMod = 2
  Addresses <- MemoryAddresses
INVARIANT SelfChecksPass
INVARIANT MemoryAccounted
INVARIANT LoadedProcesses
PROPERTY KeepsPromise
CHECK_DEADLOCK FALSE
