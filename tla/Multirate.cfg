SPECIFICATION Spec
CONSTANTS
  Banks <- MCBanks
  Lengths = {0, 3, 4}
  MaxHole = 1
  MaxTime = 16
  None = None
INVARIANTS
  OutputTrue
  ChainSound
  BacklogBounded
