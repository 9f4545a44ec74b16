SPECIFICATION OnlineSpec
CONSTANTS
  Banks = {1, 2, 3}
  Sinks = {1, 2, 3}
  Streams <- MCStreams
  NoBuffer = NoBuffer
  NoThread = NoThread
  Ifos = {"H1"}
  Triggers <- MCTriggers
  Timestamps <- MCTimestamps
  BufferDuration = 2
  ClusterWindow = 2
  NegativeLatency = 0
  EndTimeSlack = 0
  SnapshotInterval = NoTime
  OutputPrefix = TRUE
  ClusterAvailable = TRUE
  InOrder = TRUE
  FarThreshold = 40
  RecentSpan = 6
  NoTime = NoTime
INVARIANTS
  TimeOrdered
  NeverLate
  SubmittedImprove
  
PROPERTIES
  AllHandedOverEventually
