------------------------ MODULE MCInceptionSession -------------------------
(* Model-checking instance of InceptionSession: three statements per batch, *)
(* two batches, with the read_only gate and the throttle both configured.   *)
EXTENDS InceptionSession

MCMaxStmts == 3
MCMaxBatches == 2
=============================================================================
