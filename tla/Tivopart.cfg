SPECIFICATION Spec
CONSTANTS
  Word = 64
  Block = 2
  Mega = 4
  Size <- MCSize
  MinRoot = 2
  FixFree = 1
  NPart = 16
  Names <- MCNames
  InitMaps <- MCMaps
  Swaps = {1, 2, 16}
  InUse = {4}
  Tried = {1, 4}
  MaxFaults = 1
  None = None
INVARIANTS MfsIntact PoolGivenOut KernelTold
CHECK_DEADLOCK FALSE
