SPECIFICATION Spec
CONSTANTS
  Ifos = {1, 2}
  PreservedLen = 2
  ExeLen = 2
  HistTrials = 2
  TrialSampleInv = 2
  RefreshInterval = 1
  Bps = 8
  Starts <- MCStarts
  MaxFirst = 2
  Faulty = {2}
  MaxTime = 7
  MaxLength = 3
  MaxHole = 1
  Zero = Zero
INVARIANTS
  AdapterFound
  CoherentOnceStarted
  NeighboursApart
  ParticipantsHaveData
  AllProcessed
PROPERTIES
  SearchEnds
