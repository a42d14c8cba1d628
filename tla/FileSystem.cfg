CONSTANTS
  Paths <- MCPaths
  OpenPaths <- MCOpenPaths
  Hidden = "h"
  Free = {3, 4, 5, 6, 7}
  BLKDIRENTS = 2
  MaxBlocks = 6
SPECIFICATION Spec
INVARIANT BlocksAccounted
INVARIANT LinksCounted
INVARIANT NameSpaceIsTree
INVARIANT HandleValid
INVARIANT FailedCallsKeepNames
INVARIANT TestPassesAnywhere
PROPERTY KeepsPromise
