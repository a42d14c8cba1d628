SPECIFICATION Spec
CONSTANTS
  NPROC = 5
  HZ = 4
  TickMod = 9
  Boots = {1, 3, 4}
PROPERTY AlwaysDraws
PROPERTY EveryoneDrawn
