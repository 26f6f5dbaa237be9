----------------------------- MODULE BatchSchema -----------------------------
(***************************************************************************)
(* The batch-schema tracker of inception_audit.cc.  While a batch is      *)
(* audited, ctx->batch_tables maps each table a CREATE TABLE of the batch *)
(* named to its (lower-cased) columns; ALTER TABLE keeps the column set   *)
(* up to date, and the existence rules of later statements consult it    *)
(* instead of the remote server.  The remote schema does not change while *)
(* a batch is audited (execution happens at commit).  DROP DATABASE      *)
(* records its database in ctx->batch_databases.  Two rules of ALTER     *)
(* TABLE read the same state: the merge-ALTER rule reports a table an     *)
(* earlier ALTER of the batch named (ctx->altered_tables), and ADD INDEX   *)
(* asks the remote for the type of each column it indexes without a      *)
(* prefix length (BLOB/TEXT needs one), skipping batch-created tables.    *)
(*                                                                         *)
(* The module ends with the refinement mapping under which the tracker    *)
(* implements SchemaSpec, spec.md 4.3/4.4's rules over the virtual schema.*)
(***************************************************************************)
EXTENDS BatchStmts

VARIABLES
  remote,      \* the target's tables and columns
  remoteDbs,   \* the target's databases
  remoteIdx,   \* the target's indexes, per table
  remoteBlob,  \* the target's BLOB/TEXT columns, per table
  batch,       \* ctx->batch_tables
  batchDbs,    \* ctx->batch_databases
  altered,     \* ctx->altered_tables
  n,           \* statements audited so far
  verdict,     \* the errlevel the rules gave the last statement
  stmt         \* the last statement audited (its SqlCacheNode's AST summary)

vars == <<remote, remoteDbs, remoteIdx, remoteBlob, batch, batchDbs, altered,
          n, verdict, stmt>>

(* ctx->batch_tables.count(key) > 0 *)
InBatch(t) == batch[t] # NoTable

(* remote_table_exists / remote_column_exists: a missing table has no columns. *)
RemoteHas(t) == remote[t] # NoTable
RemoteCols(t) == IF remote[t] = NoTable THEN {} ELSE remote[t]

(* remote_db_exists / remote_index_exists *)
RemoteDbHas(d) == d \in remoteDbs
RemoteIdx(t) == remoteIdx[t]

(* remote_column_info + is_blob_type_name: the DATA_TYPE of a column the *)
(* target has; a column it lacks gives no row and no error.              *)
RemoteBlob(t) == remoteBlob[t]

Init ==
  /\ RemoteSchema(remoteDbs, remote, remoteIdx, remoteBlob)
  /\ batch = [t \in Tables |-> NoTable]
  /\ batchDbs = {}
  /\ altered = {}
  /\ n = 0
  /\ verdict = 0
  /\ stmt = NoStmt

-----------------------------------------------------------------------------
(***************************************************************************)
(* The code: one operator per audit_* handler; each gives the statement's *)
(* existence error and the new batch_tables.                              *)
(***************************************************************************)

(* audit_create_table: already in the batch, else already on the remote; *)
(* then batch_tables[key] = the statement's columns, error or not.       *)
CreateErr(s) == InBatch(s.t) \/ RemoteHas(s.t)
(* Mutant: the tracking block at the end of audit_create_table is lost. *)
CreateTrackNone(s) == batch

CreateTrack(s) == [batch EXCEPT ![s.t] = s.cols]

(***************************************************************************)
(* audit_alter_table.  in_batch is read once.  The ADD loop and the       *)
(* MODIFY loop both walk alter_info->create_list, which holds the ADD and *)
(* the MODIFY fields alike; the ADD loop tracks each field it visits.     *)
(***************************************************************************)
AlterErr(s) ==
  LET a  == s.alt
      cl == a.add \cup a.modify
      addList == IF a.add # {} THEN cl ELSE {}
      modList == IF a.modify # {} THEN cl ELSE {}
      b1 == IF InBatch(s.t) THEN batch[s.t] \cup addList ELSE {}
  IN  IF InBatch(s.t)
      THEN \/ addList \cap batch[s.t] # {}
           \/ a.drop \ b1 # {}
           \/ modList \ (b1 \ a.drop) # {}
      ELSE \/ ~RemoteHas(s.t)
           \/ addList \cap RemoteCols(s.t) # {}
           \/ a.drop \ RemoteCols(s.t) # {}
           \/ modList \ RemoteCols(s.t) # {}

AlterTrack(s) ==
  LET a  == s.alt
      addList == IF a.add # {} THEN a.add \cup a.modify ELSE {}
  IN  IF InBatch(s.t)
      THEN [batch EXCEPT ![s.t] = (@ \cup addList) \ a.drop]
      ELSE batch

(* DROP INDEX: remote_index_exists, skipped for a batch-created table. *)
DropIndexErr(s) == ~InBatch(s.t) /\ s.alt.dropIdx \ RemoteIdx(s.t) # {}

(***************************************************************************)
(* ADD INDEX: check_index is given the remote only for a table without a  *)
(* batch entry; each key part without a prefix length is looked up in the *)
(* ALTER's create_list (empty for an ADD INDEX shape) and then asked of   *)
(* the remote; a BLOB/TEXT column is an error.                            *)
(***************************************************************************)
IndexPrefixErr(s) == ~InBatch(s.t) /\ s.alt.addIdx \cap RemoteBlob(s.t) # {}

(* Mutant: the merge-ALTER rule tests the set after inserting the table. *)
MergeLevelAfterInsert(s) ==
  IF s.op = "alter" /\ MergeKnob > 0 THEN MergeKnob ELSE 0

(* The merge-ALTER rule: report a table already in altered_tables, at the *)
(* knob's level, then insert it (whatever the other rules found).        *)
MergeLevel(s) ==
  IF s.op = "alter" /\ MergeKnob > 0 /\ s.t \in altered THEN MergeKnob ELSE 0

AlteredTrack(s) ==
  IF s.op = "alter" /\ MergeKnob > 0 THEN altered \cup {s.t} ELSE altered

(* "Check table exists (batch or remote)": only a table without a batch *)
(* entry is probed.                                                      *)
TableMissing(t) == ~InBatch(t) /\ ~RemoteHas(t)

(* The column check: batch_column_exists for a table with a batch entry, *)
(* remote_column_exists otherwise (false for a missing table).          *)
ColumnsMissing(t, cols) ==
  IF InBatch(t) THEN cols \ batch[t] # {} ELSE cols \ RemoteCols(t) # {}

(* audit_insert and audit_update make the same two checks; audit_delete *)
(* and audit_truncate only the first.                                   *)
AuditInsert(s) == TableMissing(s.t) \/ ColumnsMissing(s.t, s.cols)

AuditUpdate(s) == TableMissing(s.t) \/ ColumnsMissing(s.t, s.cols)

AuditDelete(s) == TableMissing(s.t)

AuditTruncate(s) == TableMissing(s.t)

(* audit_create_db: an error if the target has the database. *)
AuditCreateDb(s) == RemoteDbHas(s.d)

(* audit_drop_db: a warning if the target lacks the database; the name *)
(* is then recorded in batch_databases.                                *)
AuditDropDb(s) == ~RemoteDbHas(s.d)

DbTrack(s) == IF s.op = "dropdb" THEN batchDbs \cup {s.d} ELSE batchDbs

(* audit_drop_table only reports the DROP TABLE knob. *)
DropTrack(s) == batch

CodeErr(s) ==
  CASE s.op = "create"   -> CreateErr(s)
    [] s.op = "alter"    -> AlterErr(s) \/ DropIndexErr(s) \/ IndexPrefixErr(s)
    [] s.op = "insert"   -> AuditInsert(s)
    [] s.op = "update"   -> AuditUpdate(s)
    [] s.op = "delete"   -> AuditDelete(s)
    [] s.op = "truncate" -> AuditTruncate(s)
    [] s.op = "createdb" -> AuditCreateDb(s)
    [] s.op \in {"drop", "dropdb"} -> FALSE

CodeWarn(s) == s.op = "dropdb" /\ AuditDropDb(s)

CodeTrack(s) ==
  CASE s.op = "create" -> CreateTrack(s)
    [] s.op = "alter"  -> AlterTrack(s)
    [] s.op = "drop"   -> DropTrack(s)
    [] OTHER           -> batch

-----------------------------------------------------------------------------
(***************************************************************************)
(* One statement of the batch is audited: add_sql records it and         *)
(* audit_statement dispatches to its handler.                             *)
(***************************************************************************)
AuditStatement ==
  /\ n < MaxStmts
  /\ \E s \in Stmts :
       /\ s.op \in Ops
       /\ stmt' = s
       /\ verdict' = Worst(Level(CodeErr(s), CodeWarn(s)), MergeLevel(s))
       /\ batch' = CodeTrack(s)
       /\ batchDbs' = DbTrack(s)
       /\ altered' = AlteredTrack(s)
  /\ n' = n + 1
  /\ UNCHANGED <<remote, remoteDbs, remoteIdx, remoteBlob>>

(* The batch ends and InceptionContext::reset clears the tracker.  The   *)
(* next batch may meet another remote schema (the batch was executed, or *)
(* other clients ran DDL); a batch begun on any schema is already a      *)
(* behaviour from Init, so the remote is kept here.                      *)
ResetBatch ==
  /\ n > 0
  /\ batch' = [t \in Tables |-> NoTable]
  /\ batchDbs' = {}
  /\ altered' = {}
  /\ n' = 0
  /\ verdict' = 0
  /\ stmt' = NoStmt
  /\ UNCHANGED <<remote, remoteDbs, remoteIdx, remoteBlob>>

Next == AuditStatement \/ ResetBatch

Spec == Init /\ [][Next]_vars

-----------------------------------------------------------------------------
(***************************************************************************)
(* The refinement mapping: batch_tables is the projection of spec.md 4.4, *)
(* altered_tables the altered set; batch_databases, which no rule reads,  *)
(* is hidden.                                                              *)
(***************************************************************************)
Abs == INSTANCE SchemaSpec WITH proj <- batch

(***************************************************************************)
(* The tracker implements spec.md 4.3/4.4: every statement the audit      *)
(* handles gets the level the spec's rules give it against the remote    *)
(* overlaid with what the earlier statements of the batch created, added *)
(* and dropped, and batch_tables moves exactly as the projection does,    *)
(* over any sequence of DDL and DML.                                      *)
(***************************************************************************)
ImplementsSchemaSpec == Abs!Spec
=============================================================================
