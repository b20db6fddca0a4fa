SPECIFICATION Spec
CONSTANTS
  Ids = {1, 2}
  Name1 = n1
  Name2 = n2
  Names <- MCNames
  Nos = {3, 4}
  EMPTY = 0
  Trans = {c1, c2}
  Tables <- MCTables
  MaxFile = 6
  MaxDone = 2
SYMMETRY Alike
INVARIANT CascadesSeeRewrittenLines
CHECK_DEADLOCK FALSE
