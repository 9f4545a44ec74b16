SPECIFICATION Spec
CONSTANTS
  Entries <- MCEntries
  Timestamps = {1, 2, 4, 5, 7, 9}
  SECOND = 2
  SnapshotIntervals = {0, 1}
  None = None
INVARIANTS
  CountedOnce
  NamedByContent
