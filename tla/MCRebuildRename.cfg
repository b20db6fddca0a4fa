SPECIFICATION Spec
CONSTANTS
  Names = {n1, n2}
  Columns = {c1, c2}
  Requests = {"rename"}
  MaxLog = 9
  MaxTables = 2
  MaxRecords = 2
  MaxRebuilds = 2
SYMMETRY Alike
INVARIANT RenamesAreRebuilt
CHECK_DEADLOCK FALSE
