SPECIFICATION Spec
CONSTANTS
  Keys <- MCKeys
  UNCOMMITTED = 100
  MaxClock = 6
  MaxOff = 2
  MinRecords = 0
PROPERTY
  ImplementsSnapshotDb
