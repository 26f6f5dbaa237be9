CONSTANTS
  MaxStmts <- MCMaxStmts
  MaxBatches <- MCMaxBatches
  CheckReadOnly = TRUE
  Throttle = TRUE
SPECIFICATION Spec
INVARIANT ExecutedOnlyThroughGate
