SPECIFICATION Spec
CONSTANTS
  Backups <- MCBackups
  Options <- MCOptions
  Drives <- MCDrives
  MaxTries = 2
  None = None
INVARIANTS PlanRight BuiltAsPlanned
CHECK_DEADLOCK FALSE
