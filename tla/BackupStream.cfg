SPECIFICATION Spec
CONSTANTS
  PerSector = 4
  BufSectors = 7
  ZBuf = 6
  Sources <- MCSources
  Packed = {FALSE, TRUE}
  ReadSizes = {1, 2, 3, 5, 7}
  Lengths = {1, 3, 8}
INVARIANTS BackupWhole RestoredSoFar OutcomeRight
PROPERTY Ends
