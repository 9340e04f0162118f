SPECIFICATION Spec
CONSTANTS
  DevSize = 11
  MapSectors = 6
  Handles = {h1, h2}
  InitDisks <- TiledDisks
  Sizes = {1, 2}
  Crashes = FALSE
  BadSectors = {}
  NoTable = NoTable
  Blank = Blank
SYMMETRY Symmetry
INVARIANTS Tiles InUseStable
PROPERTY AddKeepsData
