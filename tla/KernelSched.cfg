SPECIFICATION Spec
CONSTANTS
  NPROC = 4
  NPages = 10
  NVPages = 11
  ReservedPages <- MCReserved
  KernelPages <- MCKernelPages
  KernelText <- MCKernelText
  PageTables <- MCPageTables
  kernel_pagetable = 1
  ProcStart = 4
  ProcSize = 2
  NAlloc = 3
  ImageLen <- ThreeProcessImages
  ForceFork = FALSE
  TickLimit = 0
  TickMod = 1
  Addresses <- OneAddress
PROPERTY SwitchTransparent
PROPERTY NextInRing
PROPERTY RunsAgain
CHECK_DEADLOCK FALSE
