SPECIFICATION Spec
CONSTANTS
  MediaSize = 8
  Word = 16
  MapSize = 3
  Probe = 2
  Users <- MCUsers
  InitDisks <- MCDisks
  Closed = Closed
  NoMap = NoMap
  Blank = Blank
INVARIANTS MapSound ReadsBackWhole ValidateIsRight SizeIsFound
PROPERTY StaysSound
CHECK_DEADLOCK FALSE
