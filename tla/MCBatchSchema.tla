---------------------------- MODULE MCBatchSchema ----------------------------
(* Constants of BatchSchema for TLC. *)
EXTENDS BatchSchema, TLC

CONSTANTS t1, t2, c1, c2, d1, d2, i1

MCTables == {t1, t2}
MCCols == {c1, c2}
MCDbs == {d1, d2}
\* t1 and t2 live in different databases.
MCDbOf == (t1 :> d1) @@ (t2 :> d2)
MCIdxs == {i1}
\* Every handler with a tracker or existence rule, DROP TABLE aside.
MCOps == {"create", "alter", "insert", "update", "delete", "truncate",
          "createdb", "dropdb"}
\* The same with DROP TABLE.
MCOpsDrop == MCOps \cup {"drop"}
=============================================================================
