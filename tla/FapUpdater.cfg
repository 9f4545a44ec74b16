SPECIFICATION Spec
CONSTANTS
  Banks = {1, 2}
  Walltimes <- MCWalltimes
  CalcfapInterval = 2
  CombineInterval = 1
  CombineDuration = 4
  MaxStatsPerBank = 3
  MaxBanksPerJob = 2
  ShouldBlock = FALSE
  CalcfapMax = 2
  CombineMax = 1
  SubprocessMayFail = FALSE
  MayRestart = FALSE
  MaxTime = 7
  None = None
INVARIANTS
  CountedOnce
  NamedByContent
  ReadsIntact
