SPECIFICATION Spec
CONSTANTS
  Fixed = 14
  Slots = 17
  Texts <- MCTexts
  Round = 2
  InitMaps <- MCMaps
  Idle = Idle
  Stopped = Stopped
INVARIANTS KeepsData CleanMap
CHECK_DEADLOCK FALSE
