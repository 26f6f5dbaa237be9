CONSTANTS
  MaxStmts <- MCMaxStmts
  MaxBatches <- MCMaxBatches
  CheckReadOnly = TRUE
  Throttle = TRUE
SPECIFICATION Spec
PROPERTY BatchKeptWhileActive
