SPECIFICATION Spec
CONSTANTS
  DevSize <- MCDevSize
  Allocated = 20
  Worlds <- MCWorlds
  Options <- MCOptions
  MinAlloc = 8
  MinFree = 17
  Round = 4
  MapLen <- MCMapLen
  MaxRuns = 3
  NoTable = NoTable
  Blank = Blank
INVARIANTS VolumesSound NeverRefusedLate CanBeFinished LargestPair
PROPERTY OthersKept
CHECK_DEADLOCK FALSE
