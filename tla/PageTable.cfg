SPECIFICATION Spec
CONSTANTS
  NENTRIES = 4
  NPages = 8
  KernelTables <- MCKernelTables
  Pool = {5, 6, 7}
  Garbage <- MCGarbage
  Perms <- MCPerms
  Starts = {7, 63}
  Targets = {2}
  MaxPages = 2
INVARIANT TablesFormTree
INVARIANT WalksSucceed
PROPERTY ImplementsFlat
