SPECIFICATION Spec
CONSTANTS
  Names = {n1, n2}
  Columns = {c1, c2}
  Requests = {"create", "drop", "rename", "add column", "remove column", "rename column", "add index", "remove index"}
  MaxLog = 9
  MaxTables = 2
  MaxRecords = 2
  MaxRebuilds = 2
SYMMETRY Alike
INVARIANTS TypeOK RebuildIgnoresNothing SchemaRecordsTrue
PROPERTIES RebuildRestores RebuildInventsNothing
CHECK_DEADLOCK FALSE
