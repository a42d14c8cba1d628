SPECIFICATION Spec
CONSTANTS
  Procs = {"p", "q"}
  Rows = 4
  Cols = 3
  Words <- MCWords
  MaxPrints = 2
  IntBits = 4
  LongBits = 6
  PtrBits = 5
  MemSize = 6
  Letters = {65, 200}
  Filler = 200
  Sizes <- MCSizes
  Widths <- MCWidths
  Precisions <- MCPrecisions
  Args <- MCArgs
  Strings <- MCStrings
INVARIANT CursorReturns
INVARIANT PanicShows
INVARIANT StringsRead
INVARIANT NumbersReadBack
PROPERTY StoresExact
CHECK_DEADLOCK FALSE
