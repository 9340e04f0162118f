SPECIFICATION Spec
CONSTANTS
  DevSize = 10
  MapSectors = 5
  Handles = {h1, h2}
  InitDisks <- TornDisks
  Sizes = {1, 2}
  Crashes = TRUE
  BadSectors = {3}
  NoTable = NoTable
  Blank = Blank
SYMMETRY Symmetry
INVARIANTS TypeOK RefsBalanced InUseSurvivesCrash CleanReadsBack FirstFitIsLowest
