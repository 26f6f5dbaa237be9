CONSTANTS
  t1 = t1
  t2 = t2
  c1 = c1
  c2 = c2
  d1 = d1
  d2 = d2
  i1 = i1
  Tables <- MCTables
  Cols <- MCCols
  Dbs <- MCDbs
  DbOf <- MCDbOf
  Idxs <- MCIdxs
  NoTable = NoTable
  MaxStmts = 3
  Ops <- MCOps
  MixedAlter = TRUE
  MergeKnob = 1
SPECIFICATION Spec
PROPERTY ImplementsSchemaSpec
