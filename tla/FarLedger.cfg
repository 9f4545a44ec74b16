SPECIFICATION Spec
CONSTANTS
  Workers = {1, 2}
  Updaters = {"loop 1", "loop 2", "by hand"}
  WorkerOf <- MCWorkerOf
  Loops = {"loop 1", "loop 2"}
  Triggers <- MCTriggers
  Chunks <- MCChunks
  Started <- MCStarted
  MaxTime = 5
  MaxLag = 1
  Window = 2
  Update = 2
  MinFeatures = 1
  MaxNewWindows = 1
  Crashing = {"by hand"}
  Failing = {"by hand"}
  None = None
INVARIANTS
  BackgroundFrozen
  ProductFromLedgers
