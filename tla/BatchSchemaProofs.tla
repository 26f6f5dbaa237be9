-------------------------- MODULE BatchSchemaProofs --------------------------
(***************************************************************************)
(* The batch-schema tracker implements SchemaSpec, for every set of       *)
(* tables, columns, databases and indexes, every bound and every level of *)
(* the merge-ALTER knob, on the statements the batch_schema run           *)
(* enumerates: no DROP TABLE, and no ALTER that adds and modifies columns *)
(* at once (the two kinds of statement drop_table_tracked and mixed_alter *)
(* show to break it).                                                      *)
(*                                                                         *)
(* The argument: a type invariant of the tracker, then the same statement *)
(* is a step of the specification (Judge) because each handler's error,   *)
(* warning, merge level and new batch_tables agree with the spec's rules  *)
(* read against proj = batch_tables.                                      *)
(***************************************************************************)
EXTENDS BatchSchema, TLAPS

(* The shape of the tracker's state the agreement needs. *)
BatchTypeOK ==
  /\ RemoteSchema(remoteDbs, remote, remoteIdx, remoteBlob)
  /\ batch \in [Tables -> (SUBSET Cols) \cup {NoTable}]
  /\ altered \subseteq Tables
  /\ n \in 0..MaxStmts

-----------------------------------------------------------------------------
(* What each kind of statement carries. *)
LEMMA StmtParts ==
  ASSUME NEW s \in Stmts
  PROVE  /\ s.op \in {"create", "alter", "insert", "update", "delete",
                      "truncate", "drop", "createdb", "dropdb"}
         /\ s.op \in {"create", "insert", "update"} =>
              s.t \in Tables /\ s.cols \in NonEmpty
         /\ s.op = "alter" => s.t \in Tables /\ s.alt \in AlterShapes
         /\ s.op \in {"delete", "truncate", "drop"} => s.t \in Tables
         /\ s.op \in {"createdb", "dropdb"} => s.d \in Dbs
BY DEF Stmts

(* An ALTER of one kind: its lists are sets of names, and no two of ADD, *)
(* DROP and MODIFY COLUMN are given together.                            *)
LEMMA SingleParts ==
  ASSUME NEW a \in SingleShapes
  PROVE  /\ a.add \subseteq Cols /\ a.drop \subseteq Cols
         /\ a.modify \subseteq Cols /\ a.dropIdx \subseteq Idxs
         /\ a.addIdx \subseteq Cols
         /\ a.add = {} \/ a.modify = {}
         /\ a.add = {} \/ a.drop = {}
         /\ a.modify = {} \/ a.drop = {}
BY DEF SingleShapes, Alter, NonEmpty

-----------------------------------------------------------------------------
(* The tracker's state keeps its shape. *)
LEMMA TypeInvariant ==
  ASSUME ~MixedAlter
  PROVE  Spec => []BatchTypeOK
<1> USE BatchAssumption
<1>1. Init => BatchTypeOK
  BY DEF Init, BatchTypeOK
<1>2. BatchTypeOK /\ [Next]_vars => BatchTypeOK'
  <2> SUFFICES ASSUME BatchTypeOK, [Next]_vars PROVE BatchTypeOK'
    OBVIOUS
  <2>1. CASE AuditStatement
    <3>1. PICK s \in Stmts : /\ s.op \in Ops
                             /\ batch' = CodeTrack(s)
                             /\ altered' = AlteredTrack(s)
      BY <2>1 DEF AuditStatement
    <3>2. s.op = "alter" => s.alt \in SingleShapes
      BY StmtParts DEF AlterShapes
    <3>3. batch' \in [Tables -> (SUBSET Cols) \cup {NoTable}]
      <4>1. CASE s.op = "create"
        <5>1. s.t \in Tables /\ s.cols \in NonEmpty
          BY <4>1, StmtParts
        <5>. QED
          BY <3>1, <4>1, <5>1 DEF BatchTypeOK, CodeTrack, CreateTrack, NonEmpty
      <4>2. CASE s.op = "alter"
        <5>1. s.t \in Tables /\ s.alt \in SingleShapes
          BY <3>2, <4>2, StmtParts
        <5>2. s.alt.add \subseteq Cols /\ s.alt.modify \subseteq Cols
          BY <5>1, SingleParts
        <5>. QED
          BY <3>1, <4>2, <5>1, <5>2 DEF BatchTypeOK, CodeTrack, AlterTrack, InBatch
      <4>3. CASE s.op \notin {"create", "alter"}
        BY <3>1, <4>3 DEF BatchTypeOK, CodeTrack, DropTrack
      <4>. QED
        BY <4>1, <4>2, <4>3
    <3>4. altered' \subseteq Tables
      BY <3>1, StmtParts DEF BatchTypeOK, AlteredTrack
    <3>. QED
      BY <2>1, <3>3, <3>4 DEF AuditStatement, BatchTypeOK
  <2>2. CASE ResetBatch
    BY <2>2 DEF ResetBatch, BatchTypeOK
  <2>3. CASE UNCHANGED vars
    BY <2>3 DEF vars, BatchTypeOK
  <2>. QED
    BY <2>1, <2>2, <2>3 DEF Next
<1>. QED
  BY <1>1, <1>2, PTL DEF Spec
-----------------------------------------------------------------------------
(***************************************************************************)
(* Each handler agrees with the spec's rule for its statement, read       *)
(* against proj = batch_tables: the same error, warning and merge level,  *)
(* and batch_tables moves as the projection does.  DROP TABLE is left     *)
(* out: audit_drop_table does not erase the batch entry.                  *)
(***************************************************************************)
LEMMA HandlersAgree ==
  ASSUME ~MixedAlter, BatchTypeOK,
         NEW s \in Stmts, s.op \in Ops, s.op # "drop"
  PROVE  /\ CodeErr(s) <=> Abs!Err(s)
         /\ CodeWarn(s) <=> Abs!Warn(s)
         /\ MergeLevel(s) = Abs!Merge(s)
         /\ CodeTrack(s) = Abs!Project(s)
         /\ AlteredTrack(s) = Abs!Remember(s)
<1> USE BatchAssumption
<1>1. MergeLevel(s) = Abs!Merge(s) /\ AlteredTrack(s) = Abs!Remember(s)
  BY DEF MergeLevel, Abs!Merge, AlteredTrack, Abs!Remember
<1>2. CodeWarn(s) <=> Abs!Warn(s)
  BY DEF CodeWarn, AuditDropDb, RemoteDbHas, Abs!Warn
<1>3. CASE s.op = "create"
  <2>1. s.t \in Tables
    BY <1>3, StmtParts
  <2>2. CodeErr(s) <=> Abs!Err(s)
    BY <1>3 DEF CodeErr, CreateErr, InBatch, RemoteHas, Abs!Err, Abs!View
  <2>3. CodeTrack(s) = Abs!Project(s)
    BY <1>3 DEF CodeTrack, CreateTrack, Abs!Project
  <2>. QED
    BY <1>1, <1>2, <2>2, <2>3
<1>4. CASE s.op = "alter"
  <2>1. s.t \in Tables /\ s.alt \in SingleShapes
    BY <1>4, StmtParts DEF AlterShapes
  <2> DEFINE a == s.alt
  <2>2. /\ a.add \subseteq Cols /\ a.drop \subseteq Cols
        /\ a.modify \subseteq Cols /\ a.dropIdx \subseteq Idxs
        /\ a.add = {} \/ a.modify = {}
        /\ a.add = {} \/ a.drop = {}
        /\ a.modify = {} \/ a.drop = {}
    BY <2>1, SingleParts
  <2>3. CASE InBatch(s.t)
    <3>1. /\ Abs!View(s.t) = batch[s.t]
          /\ Abs!ViewCols(s.t) = batch[s.t]
          /\ Abs!ViewIdx(s.t) = Idxs
          /\ Abs!ViewBlob(s.t) = {}
      BY <2>3 DEF InBatch, Abs!View, Abs!ViewCols, Abs!ViewIdx, Abs!ViewBlob
    <3>2. batch[s.t] \subseteq Cols
      BY <2>1, <2>3 DEF BatchTypeOK, InBatch
    <3> DEFINE b == batch[s.t]
    <3>3. AlterErr(s) <=> \/ a.add \cap b # {}
                          \/ a.drop \ (b \cup a.add) # {}
                          \/ a.modify \ ((b \cup a.add) \ a.drop) # {}
      BY <2>2, <2>3 DEF AlterErr
    <3>4. /\ a.drop \ (b \cup a.add) # {} <=> a.drop \ b # {}
          /\ a.modify \ ((b \cup a.add) \ a.drop) # {} <=> a.modify \ b # {}
          /\ a.dropIdx \ Idxs = {}
      BY <2>2
    <3>5. AlterErr(s) <=> Abs!AlterErrSpec(s.t, a)
      BY <2>3, <3>1, <3>3, <3>4 DEF Abs!AlterErrSpec, InBatch
    <3>6. ~DropIndexErr(s) /\ ~IndexPrefixErr(s)
      BY <2>3 DEF DropIndexErr, IndexPrefixErr
    <3>7. CodeErr(s) <=> Abs!Err(s)
      BY <1>4, <3>5, <3>6 DEF CodeErr, Abs!Err
    <3>8. CodeTrack(s) = Abs!Project(s)
      BY <1>4, <2>2, <2>3 DEF CodeTrack, AlterTrack, InBatch, Abs!Project
    <3>. QED
      BY <1>1, <1>2, <3>7, <3>8
  <2>4. CASE ~InBatch(s.t)
    <3>1. /\ Abs!View(s.t) = remote[s.t]
          /\ Abs!ViewCols(s.t) = RemoteCols(s.t)
          /\ Abs!ViewIdx(s.t) = RemoteIdx(s.t)
          /\ Abs!ViewBlob(s.t) = RemoteBlob(s.t)
      BY <2>4 DEF InBatch, Abs!View, Abs!ViewCols, Abs!ViewIdx, Abs!ViewBlob,
                  RemoteCols, RemoteIdx, RemoteBlob
    <3>2. AlterErr(s) <=> \/ Abs!View(s.t) = NoTable
                          \/ a.add \cap Abs!ViewCols(s.t) # {}
                          \/ a.drop \ Abs!ViewCols(s.t) # {}
                          \/ a.modify \ Abs!ViewCols(s.t) # {}
      BY <2>2, <2>4, <3>1 DEF AlterErr, RemoteHas
    <3>3. CodeErr(s) <=> Abs!Err(s)
      BY <1>4, <2>4, <3>1, <3>2
      DEF CodeErr, DropIndexErr, IndexPrefixErr, Abs!Err, Abs!AlterErrSpec
    <3>4. CodeTrack(s) = Abs!Project(s)
      BY <1>4, <2>4 DEF CodeTrack, AlterTrack, InBatch, Abs!Project
    <3>. QED
      BY <1>1, <1>2, <3>3, <3>4
  <2>. QED
    BY <2>3, <2>4
<1>5. CASE s.op \in {"insert", "update", "delete", "truncate"}
  <2>1. CodeErr(s) <=> Abs!Err(s)
    BY <1>5 DEF CodeErr, AuditInsert, AuditUpdate, AuditDelete, AuditTruncate,
                TableMissing, ColumnsMissing, InBatch, RemoteHas, RemoteCols,
                Abs!Err, Abs!DmlErrSpec, Abs!View, Abs!ViewCols
  <2>2. CodeTrack(s) = Abs!Project(s)
    BY <1>5 DEF CodeTrack, Abs!Project
  <2>. QED
    BY <1>1, <1>2, <2>1, <2>2
<1>6. CASE s.op \in {"createdb", "dropdb"}
  <2>1. CodeErr(s) <=> Abs!Err(s)
    BY <1>6 DEF CodeErr, AuditCreateDb, RemoteDbHas, Abs!Err
  <2>2. CodeTrack(s) = Abs!Project(s)
    BY <1>6 DEF CodeTrack, Abs!Project
  <2>. QED
    BY <1>1, <1>2, <2>1, <2>2
<1>. QED
  BY <1>3, <1>4, <1>5, <1>6, StmtParts
-----------------------------------------------------------------------------
(***************************************************************************)
(* The batch-schema tracker implements spec.md 4.3/4.4 (ImplementsSchema- *)
(* Spec, the property of the batch_schema run) whatever the tables,       *)
(* columns, databases, indexes, bound and merge-ALTER level, when no      *)
(* statement is a DROP TABLE and no ALTER both adds and modifies columns: *)
(* each audited statement is a Judge step with the same statement, and    *)
(* InceptionContext::reset a NewBatch step on the unchanged target.       *)
(***************************************************************************)
THEOREM Refinement ==
  ASSUME ~MixedAlter, "drop" \notin Ops
  PROVE  Spec => ImplementsSchemaSpec
<1> USE BatchAssumption
<1>1. Init => Abs!Init
  BY DEF Init, Abs!Init, Abs!NoProj, NoStmt, Abs!NoStmt,
         RemoteSchema, Abs!RemoteSchema, Schemas, Abs!Schemas,
         Consistent, Abs!Consistent, NonEmpty, Abs!NonEmpty
<1>2. BatchTypeOK /\ [Next]_vars => [Abs!Next]_Abs!vars
  <2> SUFFICES ASSUME BatchTypeOK, [Next]_vars PROVE [Abs!Next]_Abs!vars
    OBVIOUS
  <2>1. CASE AuditStatement
    <3>1. PICK s \in Stmts :
            /\ s.op \in Ops
            /\ stmt' = s
            /\ verdict' = Worst(Level(CodeErr(s), CodeWarn(s)), MergeLevel(s))
            /\ batch' = CodeTrack(s)
            /\ altered' = AlteredTrack(s)
      BY <2>1 DEF AuditStatement
    <3>2. /\ CodeErr(s) <=> Abs!Err(s)
          /\ CodeWarn(s) <=> Abs!Warn(s)
          /\ MergeLevel(s) = Abs!Merge(s)
          /\ CodeTrack(s) = Abs!Project(s)
          /\ AlteredTrack(s) = Abs!Remember(s)
      BY <3>1, HandlersAgree
    <3>3. Level(CodeErr(s), CodeWarn(s)) = Level(Abs!Err(s), Abs!Warn(s))
      BY <3>2 DEF Level
    <3>4. /\ s.op \in Ops
          /\ stmt' = s
          /\ verdict' = Worst(Level(Abs!Err(s), Abs!Warn(s)), Abs!Merge(s))
          /\ batch' = Abs!Project(s)
          /\ altered' = Abs!Remember(s)
      BY <3>1, <3>2, <3>3
    <3>5. s \in Abs!Stmts
      BY DEF Stmts, Abs!Stmts, AlterShapes, Abs!AlterShapes, SingleShapes,
             Abs!SingleShapes, MixedShapes, Abs!MixedShapes, Alter, Abs!Alter,
             NonEmpty, Abs!NonEmpty
    <3>6. Worst(Level(Abs!Err(s), Abs!Warn(s)), Abs!Merge(s))
            = Abs!Worst(Abs!Level(Abs!Err(s), Abs!Warn(s)), Abs!Merge(s))
      BY DEF Worst, Abs!Worst, Level, Abs!Level
    <3>7. Abs!Judge
      BY <2>1, <3>4, <3>5, <3>6 DEF AuditStatement, Abs!Judge
    <3>. QED
      BY <3>7 DEF Abs!Next
  <2>2. CASE ResetBatch
    <3>1. Abs!NewBatch
      BY <2>2 DEF ResetBatch, BatchTypeOK, Abs!NewBatch, Abs!NoProj, NoStmt,
                  Abs!NoStmt, RemoteSchema, Abs!RemoteSchema, Schemas,
                  Abs!Schemas, Consistent, Abs!Consistent, NonEmpty, Abs!NonEmpty
    <3>. QED
      BY <3>1 DEF Abs!Next
  <2>3. CASE UNCHANGED vars
    BY <2>3 DEF vars, Abs!vars
  <2>. QED
    BY <2>1, <2>2, <2>3 DEF Next
<1>. QED
  BY <1>1, <1>2, TypeInvariant, PTL DEF Spec, ImplementsSchemaSpec, Abs!Spec
=============================================================================
