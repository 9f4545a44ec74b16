SPECIFICATION Spec
CONSTANTS
  SECOND = 10
  SilentTime = 2
  RefreshInterval = 2
  RefreshOffset = 2
  MaxGap = 2
  MaxTime = 13
  MaxVersion = 2
  None = None
INVARIANTS
  AssignedFromAllScales
