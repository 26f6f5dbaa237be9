--------------------- MODULE MCInceptionSessionProofs ----------------------
(* The inductive strengthenings of InceptionSessionProofs and             *)
(* InceptionOutcomeProofs, checked as invariants of the same small        *)
(* instance as MCInceptionSession before they are proved for every        *)
(* instance.                                                               *)
EXTENDS InceptionOutcomeProofs

MCMaxStmts == 3
MCMaxBatches == 2
=============================================================================
