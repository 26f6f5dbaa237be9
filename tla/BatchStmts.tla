----------------------------- MODULE BatchStmts -----------------------------
(***************************************************************************)
(* The vocabulary shared by the batch-schema tracker of                  *)
(* inception_audit.cc (BatchSchema) and the rules of spec.md 4.3/4.4 it   *)
(* implements (SchemaSpec): the statements the audit dispatches on, by    *)
(* the parts of the AST the existence rules read, the remote schemas a    *)
(* target can have, and the levels a statement can get.                   *)
(***************************************************************************)
EXTENDS Naturals, FiniteSets

CONSTANTS
  Tables,      \* qualified "db.table" keys (batch_table_key)
  Dbs,         \* database names
  DbOf,        \* the database part of each key
  Idxs,        \* index names
  Cols,        \* column names, already lower-cased
  NoTable,     \* a key with no entry / a table the remote lacks
  MaxStmts,    \* statements audited per batch (a bound of the model)
  Ops,         \* the statement kinds a run enumerates
  MixedAlter,  \* whether one ALTER may combine ADD and MODIFY COLUMN
  MergeKnob    \* opt_check_merge_alter_table: 0 OFF, 1 WARNING, 2 ERROR

ASSUME BatchAssumption ==
  /\ MaxStmts \in Nat
  /\ DbOf \in [Tables -> Dbs]
  /\ Ops \subseteq {"create", "alter", "insert", "update", "delete",
                    "truncate", "drop", "createdb", "dropdb"}
  /\ MixedAlter \in BOOLEAN
  /\ MergeKnob \in 0..2

(***************************************************************************)
(* An ALTER's column lists: add (ADD COLUMN), drop (DROP COLUMN), modify  *)
(* (MODIFY/CHANGE, same name), the indexes it drops (DROP INDEX) and the  *)
(* columns an ADD INDEX names without a prefix length.  MySQL puts ADD    *)
(* and MODIFY fields in one create_list.                                  *)
(***************************************************************************)
NonEmpty == (SUBSET Cols) \ {{}}

(* A remote schema: every table the target has has at least one column, *)
(* lives in a database the target has, and only a table has indexes and  *)
(* BLOB/TEXT columns.                                                     *)
Schemas == [Tables -> NonEmpty \cup {NoTable}]

Consistent(dbs, tbl, idx, blob) ==
  \A t \in Tables :
    /\ tbl[t] # NoTable => DbOf[t] \in dbs /\ blob[t] \subseteq tbl[t]
    /\ tbl[t] = NoTable => idx[t] = {} /\ blob[t] = {}

(* The target's schema at the start of a batch. *)
RemoteSchema(dbs, tbl, idx, blob) ==
  /\ dbs \in SUBSET Dbs
  /\ tbl \in Schemas
  /\ idx \in [Tables -> SUBSET Idxs]
  /\ blob \in [Tables -> SUBSET Cols]
  /\ Consistent(dbs, tbl, idx, blob)

Alter(a, d, m, di, ai) ==
  [add |-> a, drop |-> d, modify |-> m, dropIdx |-> di, addIdx |-> ai]

(* One kind of change per ALTER, or ADD together with MODIFY. *)
SingleShapes ==
  {Alter(a, {}, {}, {}, {}) : a \in NonEmpty} \cup
  {Alter({}, d, {}, {}, {}) : d \in NonEmpty} \cup
  {Alter({}, {}, m, {}, {}) : m \in NonEmpty} \cup
  {Alter({}, {}, {}, i, {}) : i \in (SUBSET Idxs) \ {{}}} \cup
  {Alter({}, {}, {}, {}, k) : k \in NonEmpty}

MixedShapes ==
  UNION {{Alter(a, {}, m, {}, {}) : m \in {x \in NonEmpty : x \cap a = {}}} :
         a \in NonEmpty}

AlterShapes == SingleShapes \cup (IF MixedAlter THEN MixedShapes ELSE {})

Stmts ==
  {[op |-> "create", t |-> t, cols |-> c] : t \in Tables, c \in NonEmpty} \cup
  {[op |-> "alter", t |-> t, alt |-> a] : t \in Tables, a \in AlterShapes} \cup
  {[op |-> o, t |-> t, cols |-> c] :
     o \in {"insert", "update"}, t \in Tables, c \in NonEmpty} \cup
  {[op |-> o, t |-> t] : o \in {"delete", "truncate", "drop"}, t \in Tables} \cup
  {[op |-> o, d |-> d] : o \in {"createdb", "dropdb"}, d \in Dbs}

(* The statement record of a batch nothing was audited in yet. *)
NoStmt == [op |-> "none"]

(* append_error / append_warning: the level the rules raise. *)
Level(err, warn) == IF err THEN 2 ELSE IF warn THEN 1 ELSE 0

(* The statement's errlevel only rises (SqlCacheNode::report). *)
Worst(a, b) == IF a > b THEN a ELSE b
=============================================================================
