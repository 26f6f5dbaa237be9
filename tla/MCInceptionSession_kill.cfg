CONSTANTS
  MaxStmts <- MCMaxStmts
  MaxBatches <- MCMaxBatches
  CheckReadOnly = TRUE
  Throttle = TRUE
SPECIFICATION OwnerSpec
PROPERTY KillStopsExecution
