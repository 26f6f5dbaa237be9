---------------------------- MODULE AlterAlgorithm ----------------------------
(***************************************************************************)
(* predict_alter_algorithm (inception_audit.cc), the ddl_algorithm label   *)
(* audit_alter_table gives an ALTER TABLE.  The code tests the bits of     *)
(* alter_info->flags one after another and raises a running worst level   *)
(* (0 INSTANT, 1 INPLACE, 2 COPY).  An Alter_info flag bit is modelled by *)
(* its name: `flags & Alter_info::ALTER_X` is "X" \in flags.              *)
(*                                                                         *)
(* Next to the code the module keeps spec.md's table (3.4, "Algorithm     *)
(* prediction"): each operation has a level and an ALTER gets the worst.  *)
(***************************************************************************)
EXTENDS Naturals

CONSTANTS
  Flags,      \* the Alter_info flag bits a run enumerates
  Majors      \* the db_version_major values a target may report

(* The Alter_info flags predict_alter_algorithm tests by name. *)
PartitionFlags ==
  {"ADD_PARTITION", "DROP_PARTITION", "COALESCE_PARTITION",
   "REORGANIZE_PARTITION", "EXCHANGE_PARTITION", "TRUNCATE_PARTITION",
   "REMOVE_PARTITIONING"}

CodeFlags ==
  {"ADD_COLUMN", "DROP_COLUMN", "CHANGE_COLUMN", "CHANGE_COLUMN_DEFAULT",
   "COLUMN_ORDER", "ADD_INDEX", "DROP_INDEX", "RENAME_INDEX",
   "INDEX_VISIBILITY", "RENAME", "ORDER", "OPTIONS", "KEYS_ONOFF",
   "RECREATE", "DISCARD_TABLESPACE", "IMPORT_TABLESPACE",
   "COLUMN_VISIBILITY"} \cup PartitionFlags

(* The partition bits of Alter_info the code does not name: PARTITION BY *)
(* (ALTER_PARTITION) and REBUILD PARTITION.                              *)
OtherPartitionFlags == {"PARTITION", "REBUILD_PARTITION"}

ASSUME AlterAssumption ==
  /\ Flags \subseteq CodeFlags \cup OtherPartitionFlags
  /\ Majors \subseteq Nat

VARIABLES
  flags,      \* alter_info->flags of the last ALTER audited
  major,      \* ctx->db_version_major
  engine,     \* create_info->used_fields & HA_CREATE_USED_ENGINE
  algo,       \* node->ddl_algorithm (as a level)
  specAlgo    \* the level spec.md's table gives the same ALTER

vars == <<flags, major, engine, algo, specAlgo>>

(* The worse of two levels. *)
Worse == [w \in 0..2 |-> [l \in 0..2 |-> IF l > w THEN l ELSE w]]

(* `if (flags & X) raise(level)`: the running worst, raised when the bit *)
(* is set (raising to 0 leaves it as it is).                             *)
Raise(w, set, level) == Worse[w][IF set THEN level ELSE 0]

(* Mutant: DROP COLUMN is taken to be INSTANT. *)
PredictDropInstant(f, is80, eng) ==
  LET w1  == Raise(0,   "ADD_COLUMN" \in f, IF is80 THEN 0 ELSE 1)
      w2  == Raise(w1,  "DROP_COLUMN" \in f, 0)
      w3  == Raise(w2,  "CHANGE_COLUMN" \in f, 2)
      w4  == Raise(w3,  "CHANGE_COLUMN_DEFAULT" \in f, 0)
      w5  == Raise(w4,  "COLUMN_ORDER" \in f, 1)
      w6  == Raise(w5,  "ADD_INDEX" \in f, 1)
      w7  == Raise(w6,  "DROP_INDEX" \in f, 1)
      w8  == Raise(w7,  "RENAME_INDEX" \in f, 1)
      w9  == Raise(w8,  "INDEX_VISIBILITY" \in f, 1)
      w10 == Raise(w9,  "RENAME" \in f, 0)
      w11 == Raise(w10, "ORDER" \in f, 2)
      w12 == Raise(w11, "OPTIONS" \in f, IF eng THEN 2 ELSE 0)
      w13 == Raise(w12, "KEYS_ONOFF" \in f, 1)
      w14 == Raise(w13, "RECREATE" \in f, 2)
      w15 == Raise(w14, f \cap PartitionFlags # {}, 2)
      w16 == Raise(w15, f \cap {"DISCARD_TABLESPACE", "IMPORT_TABLESPACE"} # {}, 1)
  IN  Raise(w16, "COLUMN_VISIBILITY" \in f, 0)

(***************************************************************************)
(* predict_alter_algorithm: the flag tests in the code's order.  is80 is  *)
(* db_version_major >= 8; eng says whether ALTER_OPTIONS changed ENGINE.  *)
(***************************************************************************)
PredictAlterAlgorithm(f, is80, eng) ==
  LET w1  == Raise(0,   "ADD_COLUMN" \in f, IF is80 THEN 0 ELSE 1)
      w2  == Raise(w1,  "DROP_COLUMN" \in f, 1)
      w3  == Raise(w2,  "CHANGE_COLUMN" \in f, 2)
      w4  == Raise(w3,  "CHANGE_COLUMN_DEFAULT" \in f, 0)
      w5  == Raise(w4,  "COLUMN_ORDER" \in f, 1)
      w6  == Raise(w5,  "ADD_INDEX" \in f, 1)
      w7  == Raise(w6,  "DROP_INDEX" \in f, 1)
      w8  == Raise(w7,  "RENAME_INDEX" \in f, 1)
      w9  == Raise(w8,  "INDEX_VISIBILITY" \in f, 1)
      w10 == Raise(w9,  "RENAME" \in f, 0)
      w11 == Raise(w10, "ORDER" \in f, 2)
      w12 == Raise(w11, "OPTIONS" \in f, IF eng THEN 2 ELSE 0)
      w13 == Raise(w12, "KEYS_ONOFF" \in f, 1)
      w14 == Raise(w13, "RECREATE" \in f, 2)
      w15 == Raise(w14, f \cap PartitionFlags # {}, 2)
      w16 == Raise(w15, f \cap {"DISCARD_TABLESPACE", "IMPORT_TABLESPACE"} # {}, 1)
  IN  Raise(w16, "COLUMN_VISIBILITY" \in f, 0)

(* The label the switch at the end returns. *)
AlgorithmName(w) == IF w = 0 THEN "INSTANT" ELSE IF w = 1 THEN "INPLACE" ELSE "COPY"

-----------------------------------------------------------------------------
(***************************************************************************)
(* spec.md's table: rename, add column on 8.0, change default, column     *)
(* visibility and a comment-only OPTIONS are 0; add column on 5.7, drop   *)
(* column, column order, index add/drop/rename/visibility, keys on/off    *)
(* and tablespace discard/import are 1; change column, order by, force,   *)
(* any partition operation and an ENGINE change are 2.  Several           *)
(* operations: the maximum.                                               *)
(***************************************************************************)
CopyOps(is80, eng) ==
  {"CHANGE_COLUMN", "ORDER", "RECREATE"} \cup PartitionFlags \cup
  OtherPartitionFlags \cup (IF eng THEN {"OPTIONS"} ELSE {})

InplaceOps(is80) ==
  {"DROP_COLUMN", "COLUMN_ORDER", "ADD_INDEX", "DROP_INDEX", "RENAME_INDEX",
   "INDEX_VISIBILITY", "KEYS_ONOFF", "DISCARD_TABLESPACE",
   "IMPORT_TABLESPACE"} \cup (IF is80 THEN {} ELSE {"ADD_COLUMN"})

SpecAlgorithm(f, is80, eng) ==
  IF f \cap CopyOps(is80, eng) # {} THEN 2
  ELSE IF f \cap InplaceOps(is80) # {} THEN 1
  ELSE 0

-----------------------------------------------------------------------------
Init ==
  /\ flags = {}
  /\ major \in Majors
  /\ engine = FALSE
  /\ algo = 0
  /\ specAlgo = 0

(***************************************************************************)
(* audit_alter_table ends with node->ddl_algorithm =                       *)
(* predict_alter_algorithm(lex, ctx): any non-empty flag set, on a target  *)
(* whose version maybe_detect_remote_db_profile set at magic_start.       *)
(***************************************************************************)
AuditAlter ==
  /\ flags = {}
  /\ \E f \in (SUBSET Flags) \ {{}}, m \in Majors, e \in BOOLEAN :
       /\ e => "OPTIONS" \in f
       /\ flags' = f
       /\ major' = m
       /\ engine' = e
       /\ algo' = PredictAlterAlgorithm(f, m >= 8, e)
       /\ specAlgo' = SpecAlgorithm(f, m >= 8, e)

(* The next statement gets a fresh SqlCacheNode (ddl_algorithm empty). *)
NextStatement ==
  /\ flags # {}
  /\ flags' = {}
  /\ engine' = FALSE
  /\ algo' = 0
  /\ specAlgo' = 0
  /\ UNCHANGED major

Next == AuditAlter \/ NextStatement

Spec == Init /\ [][Next]_vars

-----------------------------------------------------------------------------
(* Every variable stays in its domain. *)
TypeOK ==
  /\ flags \subseteq Flags
  /\ major \in Majors
  /\ engine \in BOOLEAN
  /\ algo \in 0..2
  /\ specAlgo \in 0..2

(***************************************************************************)
(* The ddl_algorithm label of every ALTER TABLE is the worst level spec.md *)
(* gives its operations, whatever they are combined with and on either    *)
(* server version: the code's sequence of raise() calls never lets a      *)
(* cheaper operation mask a costlier one, nor leaves an operation out.   *)
(***************************************************************************)
PredictionMatchesSpec == AlgorithmName(algo) = AlgorithmName(specAlgo)
====
