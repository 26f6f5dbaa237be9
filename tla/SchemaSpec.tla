----------------------------- MODULE SchemaSpec -----------------------------
(***************************************************************************)
(* What the audit of a batch promises about existence, after spec.md     *)
(* 4.3/4.4, stated without the code's data structures.  Each statement is *)
(* judged against the *virtual schema*: the remote overlaid with the      *)
(* batch's projection, which CREATE TABLE inserts into, ALTER ADD/DROP    *)
(* COLUMN updates and DROP TABLE erases.  The projection holds column     *)
(* names only and remote probes are skipped for a projected table, so    *)
(* DROP INDEX and the BLOB/TEXT prefix rule of ADD INDEX are judged       *)
(* against the remote for an unprojected table only.  Databases: CREATE   *)
(* DATABASE of one the target has is an error, DROP DATABASE of one it    *)
(* lacks a warning.  spec.md 3's altered set makes a second ALTER of a    *)
(* table in the batch get the merge-ALTER report, at the knob's level.    *)
(*                                                                         *)
(* BatchSchema, the code's tracker, implements this specification under  *)
(* the mapping proj <- batch_tables.                                       *)
(***************************************************************************)
EXTENDS BatchStmts

VARIABLES
  remote,      \* the target's tables and columns
  remoteDbs,   \* the target's databases
  remoteIdx,   \* the target's indexes, per table
  remoteBlob,  \* the target's BLOB/TEXT columns, per table
  proj,        \* the batch's projection: table -> columns, or NoTable
  altered,     \* the altered set
  n,           \* statements judged in this batch
  verdict,     \* the level the last statement got
  stmt         \* the last statement judged

vars == <<remote, remoteDbs, remoteIdx, remoteBlob, proj, altered, n,
          verdict, stmt>>

NoProj == [t \in Tables |-> NoTable]

Init ==
  /\ RemoteSchema(remoteDbs, remote, remoteIdx, remoteBlob)
  /\ proj = NoProj
  /\ altered = {}
  /\ n = 0
  /\ verdict = 0
  /\ stmt = NoStmt

(* The virtual schema: the projection where it has the table. *)
View(t) == IF proj[t] # NoTable THEN proj[t] ELSE remote[t]
ViewCols(t) == IF View(t) = NoTable THEN {} ELSE View(t)

(* Column types are known of an unprojected table's columns alone. *)
ViewBlob(t) == IF proj[t] # NoTable THEN {} ELSE remoteBlob[t]

(* The index rules consult the remote for an unprojected table only. *)
ViewIdx(t) == IF proj[t] # NoTable THEN Idxs ELSE remoteIdx[t]

(* An ALTER's names refer to the table as it was before the statement. *)
AlterErrSpec(t, a) ==
  \/ View(t) = NoTable
  \/ a.add \cap ViewCols(t) # {}
  \/ a.drop \ ViewCols(t) # {}
  \/ a.modify \ ViewCols(t) # {}
  \/ a.dropIdx \ ViewIdx(t) # {}
  \/ a.addIdx \cap ViewBlob(t) # {}

DmlErrSpec(t, cols) == View(t) = NoTable \/ cols \ ViewCols(t) # {}

Err(s) ==
  CASE s.op = "create" -> View(s.t) # NoTable
    [] s.op = "alter"  -> AlterErrSpec(s.t, s.alt)
    [] s.op \in {"insert", "update"} -> DmlErrSpec(s.t, s.cols)
    [] s.op \in {"delete", "truncate"} -> View(s.t) = NoTable
    [] s.op = "createdb" -> s.d \in remoteDbs
    [] s.op \in {"drop", "dropdb"} -> FALSE

Warn(s) == s.op = "dropdb" /\ s.d \notin remoteDbs

Merge(s) == IF s.op = "alter" /\ s.t \in altered THEN MergeKnob ELSE 0

Project(s) ==
  CASE s.op = "create" -> [proj EXCEPT ![s.t] = s.cols]
    [] s.op = "alter" /\ proj[s.t] # NoTable ->
         [proj EXCEPT ![s.t] = (@ \cup s.alt.add) \ s.alt.drop]
    [] s.op = "drop"   -> [proj EXCEPT ![s.t] = NoTable]
    [] OTHER           -> proj

(* The altered set is kept for the merge-ALTER rule while it is on. *)
Remember(s) ==
  IF s.op = "alter" /\ MergeKnob > 0 THEN altered \cup {s.t} ELSE altered

(* One statement of the batch is judged. *)
Judge ==
  /\ n < MaxStmts
  /\ \E s \in Stmts :
       /\ s.op \in Ops
       /\ stmt' = s
       /\ verdict' = Worst(Level(Err(s), Warn(s)), Merge(s))
       /\ proj' = Project(s)
       /\ altered' = Remember(s)
  /\ n' = n + 1
  /\ UNCHANGED <<remote, remoteDbs, remoteIdx, remoteBlob>>

(* The batch ends; the next one starts from an empty projection, on      *)
(* whatever schema the target has by then.                               *)
NewBatch ==
  /\ n > 0
  /\ proj' = NoProj
  /\ altered' = {}
  /\ n' = 0
  /\ verdict' = 0
  /\ stmt' = NoStmt
  /\ RemoteSchema(remoteDbs', remote', remoteIdx', remoteBlob')

Next == Judge \/ NewBatch

Spec == Init /\ [][Next]_vars
=============================================================================
