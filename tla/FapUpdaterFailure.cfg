SPECIFICATION Spec
CONSTANTS
  Banks = {1}
  Walltimes <- MCWalltimes
  CalcfapInterval = 2
  CombineInterval = 1
  CombineDuration = 4
  MaxStatsPerBank = 2
  MaxBanksPerJob = 1
  ShouldBlock = FALSE
  CalcfapMax = 0
  CombineMax = 1
  SubprocessMayFail = TRUE
  MayRestart = FALSE
  MaxTime = 7
  None = None
INVARIANTS
  NothingLost
