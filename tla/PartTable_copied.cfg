SPECIFICATION Spec
CONSTANTS
  DevSize = 11
  MapSectors = 6
  Handles = {h1, h2}
  InitDisks <- CopiedDisk
  Sizes = {1, 2, 3}
  Crashes = FALSE
  BadSectors = {}
  NoTable = NoTable
  Blank = Blank
INVARIANT NoOverlap
