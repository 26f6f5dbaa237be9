---------------------------- MODULE MCSplitGroup ----------------------------
(* Constants of SplitGroup for TLC. *)
EXTENDS SplitGroupProofs, TLC

CONSTANTS d1, d2, tA, tB

MCDbs == {d1, d2}
MCTbls == {tA, tB}
=============================================================================
