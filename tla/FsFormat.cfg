SPECIFICATION Spec
CONSTANTS
  BLKSIZE = 4
  BLKBITSIZE = 8
  DirentSize = 2
  N_DIRECT = 2
  N_INDIRECT = 2
  START_DIR_ENTS = 2
  NBlocks = {2, 3, 9, 20, 48}
  NoName = NoName
  StaleNames = {NoName, a, other}
  StaleInums = {0, 3, 7, 50}
  FileNames = {a, b}
  Lengths = {0, 3, 8, 16, 27}
  MaxFiles = 3
  Arguments <- MCArguments
INVARIANT FilesReadBack
INVARIANT BitmapExact
INVARIANT DirectoryUsable
CHECK_DEADLOCK FALSE
