SPECIFICATION Spec
CHECK_DEADLOCK FALSE
CONSTANTS
  Settings <- MCSettings
  MaxTime = 3
  MaxLength = 2
  MaxHole = 1
  QueueTime = 1
  EmptyWindows = TRUE
  ControlHoles = TRUE
  None = None
INVARIANTS
  FlagsAgree
  HolesFlagged
  SegmentsTrue
PROPERTIES
  BothEndUnbroken
