SPECIFICATION Spec
CONSTANTS
  Keys <- MCKeys
  UNCOMMITTED = 100
  MaxClock = 6
  MaxOff = 3
  MinRecords = 1
INVARIANTS
  TypeOK
  CreatedMatchesActs
  DeletedMatchesActs
  SnapshotRead
  UniqueKeys
  IndexAndCount
  FinalIsExact
PROPERTY
  Serializable
