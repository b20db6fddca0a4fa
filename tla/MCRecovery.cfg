SPECIFICATION Spec
CONSTANTS
  MaxBlocks = 8
  MaxLosses = 1
INVARIANTS TypeOK KeptAreIntact KeptCommits SomeFileHasThem CheckIsRight SyncedKept
CHECK_DEADLOCK FALSE
