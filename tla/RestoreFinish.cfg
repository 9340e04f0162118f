SPECIFICATION Spec
CONSTANTS
  Sets <- MCSets
  Options <- MCOptions
  Hosts = {"big", "little"}
  Cap = 6
  LogSectors = 4
  Stamp = 7
  MapLen = 3
  InodeLen = 2
  OtherLen = 2
  WordPages = 4
  MaxWords = 2
  SwapSizes = {1, 7, 8, 12, 14}
  Nil = Nil
INVARIANTS ListRight KeepsFiles NothingDangles LogRight SwapWhole
CHECK_DEADLOCK FALSE
