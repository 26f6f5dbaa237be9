\* Two databases and two tables, so that keys can differ in the database
\* alone or in the table alone; four statements per batch, so that a run can
\* be interrupted by a USE or SET and resumed.
CONSTANTS
  d1 = d1
  d2 = d2
  tA = tA
  tB = tB
  Dbs <- MCDbs
  Tbls <- MCTbls
  NoName = NoName
  MaxStmts = 4
SPECIFICATION Spec
INVARIANT TypeOK
INVARIANT SplitIsMaximalRuns
