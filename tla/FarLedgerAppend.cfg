SPECIFICATION Spec
CONSTANTS
  Workers = {1}
  Updaters = {"loop 1", "by hand"}
  WorkerOf <- MCWorkerOf
  Loops = {"loop 1"}
  Triggers <- MCTriggers
  Chunks <- MCChunks
  Started <- MCStartedAlone
  MaxTime = 5
  MaxLag = 1
  Window = 2
  Update = 2
  MinFeatures = 1
  MaxNewWindows = 1
  Crashing = {"loop 1"}
  Failing = {}
  None = None
PROPERTIES
  LedgerAppendOnly
