-------------------------- MODULE MCAlterAlgorithm --------------------------
(* Constants of AlterAlgorithm for TLC. *)
EXTENDS AlterAlgorithm

(* One flag of each level and kind the code tests: the column, index,   *)
(* table and partition operations, and OPTIONS with and without ENGINE. *)
MCFlags ==
  {"ADD_COLUMN", "DROP_COLUMN", "CHANGE_COLUMN", "CHANGE_COLUMN_DEFAULT",
   "ADD_INDEX", "RENAME", "OPTIONS", "RECREATE", "ADD_PARTITION",
   "IMPORT_TABLESPACE", "COLUMN_VISIBILITY"}

(* A 5.7 and an 8.0 target. *)
MCMajors == {5, 8}
=============================================================================
