SPECIFICATION Spec
CONSTANTS
  Banks = {1}
  Walltimes <- MCWalltimes
  CalcfapInterval = 2
  CombineInterval = 3
  CombineDuration = 4
  MaxStatsPerBank = 2
  MaxBanksPerJob = 1
  ShouldBlock = TRUE
  CalcfapMax = 0
  CombineMax = 1
  SubprocessMayFail = TRUE
  MayRestart = TRUE
  MaxTime = 7
  None = None
INVARIANTS
  WalltimeRespected
  BackgroundKept
  CleanupNeverFails
