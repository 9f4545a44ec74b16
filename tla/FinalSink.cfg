SPECIFICATION FairSpec
CONSTANTS
  Banks = {1, 2}
  Ifos = {"H1"}
  Triggers <- MCLateTriggers
  Timestamps <- MCLateTimestamps
  BufferDuration = 3
  ClusterWindow = 4
  NegativeLatency = 1
  EndTimeSlack = 1
  SnapshotInterval = 6
  OutputPrefix = TRUE
  ClusterAvailable = FALSE
  InOrder = FALSE
  FarThreshold = 40
  RecentSpan = 8
  NoTime = NoTime
INVARIANTS
  TypeOK
  Separation
  DropJustified
  RecordedOnce
PROPERTIES
  SnapshotsLoseNothing
  ImplementsSelection
  ClusterTerminates
