\* The session's safety invariants, the inductive strengthenings the proofs
\* use, and completion of a commit under fairness, on a small instance.
CONSTANTS
  MaxStmts <- MCMaxStmts
  MaxBatches <- MCMaxBatches
  CheckReadOnly = TRUE
  Throttle = TRUE
SPECIFICATION FairSpec
INVARIANT TypeOK
INVARIANT GateRespected
INVARIANT StopRespected
INVARIANT AbortOnlyKilled
INVARIANT IInv
INVARIANT KillInv
INVARIANT StopInv
INVARIANT OutcomeForAll
INVARIANT OutcomeInv
PROPERTY LevelsOnlyRise
PROPERTY CommitCompletes
