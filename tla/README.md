# Verification of the inception SQL audit/execute plugin

This directory holds TLA+ models of the `inception` subsystem in
`src/sql/inception/`. The models are checked with TLC, and the main
invariants are proved with TLAPS.

## The system

A client connection opens a *batch* with a `/*--inception_magic_start;...*/`
comment and closes it with `inception_magic_commit;`. Each connection has an
`InceptionContext` (`inception_context.h`). A global map keyed by the THD holds
the contexts, guarded by `g_ctx_mutex` (`inception_context.cc`).

The parts, and how they interact:

| part | source | role |
|---|---|---|
| session lifecycle | `inception.cc` (`before_parse`, `setup_inception_session`, `intercept_statement`, `handle_parse_error`, `do_inception_commit`), `inception_parse.cc` (`parse_inception_start`) | `magic_start` resets the context and sets the mode (CHECK, EXECUTE, SPLIT, QUERY_TREE) and the flags; each later statement is cached and audited; `magic_commit` executes (EXECUTE), sends the results, logs and resets. |
| audit rule engine | `inception_audit.cc` | `audit_statement` connects once per batch to the target (`get_remote_conn`) and gives each statement an error level of 0, 1 or 2. It keeps a projection of the tables the batch creates (`batch_tables`). |
| execution engine | `inception_exec.cc` | `execute_statements`: killed check, connect, pre-scan gate (levels vs `force` / `ignore_warnings`), then one statement at a time: kill check, skip after an error, read_only pre-check, `wait_for_remote_ready` throttle, `execute_one` and `SHOW WARNINGS`. |
| admin commands | `inception.cc` (`handle_inception_command`), `inception_context.cc` | `inception kill <id> [force]` comes from another connection. It sets `killed` under `g_ctx_mutex`, captures `remote_exec_thread_id`, and after unlocking sends `KILL <id>` to the target. Also `show sessions`, `set sleep` and `get`. |
| audit log | `inception_log.cc` | A process-wide file (`g_log_fp`) that every session appends to. |
| SPLIT / QUERY_TREE | `inception.cc`, `inception_tree.cc` | Instead of auditing, they record grouping or AST records. |
| results, rollback, sysvars | `inception_result.cc`, `inception_backup.cc`, `inception_sysvars.cc` | Output formatting, a rollback stub, and the option declarations. |

Two threads touch one context: the owner connection's thread, and the thread of
an admin connection running `kill`. The target MySQL/TiDB server is the
environment. It accepts or refuses connections, reports `read_only` and load,
and completes, fails or aborts statements.

## Modules

### `InceptionSession.tla`: one session, its execution, and kills

State (VARIABLES) and the code each one stands for:

- `active`, `mode`, `force`, `ignoreWarnings`, `killed`: the matching fields
  of `InceptionContext`.
- `auditConn`: `remote_conn` / `remote_conn_failed` (`"none"`, `"open"`,
  `"failed"`).
- `cache`: `cache_nodes`. Each node is `[audit, lvl, stage, status, ran]`:
  - `lvl`, `stage`, `status` are `errlevel`, `stage`, `stage_status`;
  - `audit` is a history field, the level the audit gave;
  - `ran` is a history field: `execute_one` was called on the node.
- `others`: the number of `split_nodes` / `tree_nodes` records.
- `pc`: where the owner thread is.
  - `idle` is between client statements.
  - `loop` is the head of the statement loop.
  - `wait` is inside `wait_for_remote_ready`.
  - `run` is the statement sent by `execute_one`.
  - `finish` is the tail of `do_inception_commit`.
- `idx`, `stopExec`, `hasError`: the locals of `execute_statements`.
- `execTid`: `remote_exec_thread_id`.
- `connTid`: the thread id of the open execution connection.
- `nextTid`: the last thread id the target handed out. Ids are distinct and
  increasing, as MySQL connection ids are.
- `aborted`: the running statement was hit by a remote `KILL`.
- `pendingKill`: the id a force kill captured and has not sent yet.
- `handles`: remote handles the session opened and has not closed.
- `batches`: `magic_start` comments so far. This is a bound of the model.

Actions map one-to-one to handlers and to branches of `execute_statements`.
PROJECT.json's `map` gives the lines of each.

- Owner thread, between statements: `MagicStart`, `MagicStartParseFail`,
  `Intercept` (CHECK/EXECUTE audit, including the once-per-batch connect),
  `ParseError`, `InterceptOther` (SPLIT/QUERY_TREE), `CommitNoExec`,
  `Disconnect` (`destroy_context`).
- Owner thread, inside the commit: `ExecStartKilled`, `ExecConnectFail`,
  `ExecPrescanBlocked`, `ExecBegin`, `LoopKilled`, `LoopSkip`, `PrecheckFail`,
  `PrecheckPass`, `RunStatement` (`ExecuteOne`), `CommitFinish`.
- Environment: `ThrottleClear`, the remote dropping below the load and
  replication-delay caps. While it does not, the poll loop stutters.
- Admin thread: `KillSession`, the critical section of `kill_session`, and
  `KillRemote`, the `KILL` sent after the unlock.

Abstracted away:

- Statement text, the individual audit rules (each statement's rules become
  the level they give), the replica connections (the constant `Throttle`),
  sequence tokens, timing, logging and result formatting.
- The pause between statements (`set sleep`): it only delays the loop.

Constants:

| constant | meaning | model value |
|---|---|---|
| `MaxStmts` | statements per batch | 3 |
| `MaxBatches` | `magic_start` comments | 2 |
| `CheckReadOnly` | `opt_exec_check_read_only` | TRUE |
| `Throttle` | a load or replication-delay cap is configured | TRUE |

### `InceptionSessionProofs.tla`: TLAPS proofs about the session

It holds the inductive strengthenings `IInv`, `KillInv` and `StopInv`, lemmas
about the helpers, and the theorems built on them. See "What is proved" below.

### `InceptionOutcomeProofs.tla`: the loop's outcome and the levels

It extends `InceptionSessionProofs.tla`. It holds the strengthening
`OutcomeInv` of `OutcomeForAll`, the step predicate `LevelStep` behind the
action property `LevelsOnlyRise`, and their proofs.

### `AuditLog.tla`: the process-wide audit log

State:

- `opt`: the option `inception_audit_log`, a path or `Disabled`.
- `fp`: `g_log_fp`, the path of the open file or `Null`.
- `logPath`: `g_log_path`.
- `handles`: FILEs that `fopen` returned and `fclose` has not closed.
- `pc[t]`: where session `t` is inside `audit_log_session` or
  `audit_log_statement`.
- `crashed`: a session called `fprintf` on a null `FILE*`.

Actions:

- `SessionOpen` / `StatementOpen`: the locked `audit_log_open` (`OpenLog`),
  whose `fopen` may fail.
- `SessionCheck` / `StatementCheck`: the unlocked `if (!g_log_fp) return;`.
- `SessionWrite` / `StatementWrite`: the locked `fprintf` and `fflush`.
- `SetAuditLog`: `SET GLOBAL inception_audit_log`.

Record contents (JSON, time stamps, escaping) are abstracted away. A file is
identified with the path it was opened for.

`AuditLogProofs.tla` proves `LogTypeCorrect` and `HandleSafety`. `TypeOK /\
HandleConsistent` is itself inductive, so no strengthening is needed.

### `BatchStmts.tla`, `SchemaSpec.tla`, `BatchSchema.tla`: the batch-schema tracker

`ctx->batch_tables` maps each table that a CREATE TABLE of the batch named to
its columns. Later statements' existence rules read it instead of the remote.
Three modules cover it:

- `BatchStmts.tla` is the shared vocabulary and has no variables. It holds the
  constants, the remote schemas a target can have (`RemoteSchema`), the
  statements (`Stmts`) and the levels (`Level`, `Worst`). A statement is one of
  CREATE, ALTER, INSERT/UPDATE with columns, DELETE, TRUNCATE, DROP TABLE,
  CREATE DATABASE and DROP DATABASE. An ALTER carries `add`/`drop`/`modify`
  column sets, the `dropIdx` indexes, or `addIdx`, the columns an ADD INDEX
  names without a prefix length.
- `SchemaSpec.tla` is the abstract specification: spec.md 4.3/4.4 without the
  code's data structures. `Judge` scores a statement against the *virtual
  schema*, the remote overlaid with the projection `proj`. It then updates
  `proj` as 4.4 says: CREATE inserts, ALTER adds and drops columns, DROP TABLE
  erases. The merge-ALTER report comes from spec.md 3's altered set. `NewBatch`
  starts the next batch on whatever schema the target has by then.
- `BatchSchema.tla` is the code, one operator per handler of
  `inception_audit.cc`:
  - `CreateErr`/`CreateTrack`;
  - `AlterErr`/`AlterTrack`;
  - `DropIndexErr`;
  - `IndexPrefixErr`, for `check_index`, which asks the remote for each
    column's type, and only for a table without a batch entry;
  - `MergeLevel`/`AlteredTrack`;
  - `AuditInsert`, `AuditUpdate`, `AuditDelete`, `AuditTruncate`,
    `AuditCreateDb`, `AuditDropDb`/`DbTrack`, `DropTrack`.

  These are built from the checks they share (`TableMissing`,
  `ColumnsMissing`). `AuditStatement` dispatches one statement, and
  `ResetBatch` is `InceptionContext::reset`.

The code's state:

- `remote`, `remoteDbs`, `remoteIdx`, `remoteBlob`: the target's tables
  with their columns, its databases, each table's indexes and its BLOB/TEXT
  columns. They are fixed while a batch is audited. A table lives in a
  database the target has (`DbOf` gives the database of each key). The next
  batch may meet another schema. `Init` already ranges over every schema, so
  `ResetBatch` keeps the remote and loses no reachable state.
- `batch`: `batch_tables`.
- `batchDbs`: `batch_databases`.
- `altered`: `altered_tables`, the tables an earlier ALTER of the batch
  named. It feeds the merge-ALTER rule, whose knob is `MergeKnob` (default
  WARNING).
- `n`: statements audited so far.
- `verdict`: the level (0, 1 warning, 2 error) the rules gave the last
  statement.
- `stmt`: that statement.

The refinement mapping, at the end of `BatchSchema.tla`, is
`Abs == INSTANCE SchemaSpec WITH proj <- batch`. Under it `altered` is the
altered set, and the remote, `n`, `verdict` and `stmt` map to themselves.
`batchDbs` is hidden because no rule reads it. `ImplementsSchemaSpec ==
Abs!Spec` says the tracker implements the specification: every statement
gets the spec's level, and `batch_tables` moves exactly as the projection
does.

Statement text, the rules that read one AST only, a failed remote
connection and a failed remote lookup are left out. The lookups
`RemoteHas`, `RemoteCols`, `RemoteIdx` and `RemoteDbHas` always answer from
the remote's schema. In the code, `remote_db_exists`, `remote_table_exists`
and `remote_column_exists` return false when a query fails
(`inception_audit.cc:77-80`, 92-101, 114-117). The audit then reads that as
"does not exist" and records no connectivity error, where spec.md 7 says a
failed lookup becomes one. This is listed as a hazard and is not checked. `batch_tables` and the 4.4 projection both hold
column names only. So an ADD INDEX on a TEXT column the batch created escapes
the prefix rule on both sides; this is listed as a hazard, not checked.
`audit_drop_db` fills `batch_databases` where spec.md 4.4 has CREATE DATABASE
fill it. Nothing reads `batch_databases`, so nothing can observe that
difference yet (a hazard in PROJECT.json).

A CREATE TABLE that gets an error is still tracked, in the code and in the
spec. This is how 4.4 reads: "insert ...; block on pre-existing entry".

### `SplitGroup.tla`: SPLIT mode's grouping

In SPLIT mode, `intercept_statement` (`inception.cc:478-588`) does not audit.
It folds each statement into `ctx->split_nodes`:

- `USE db` (`SplitUse`) changes `current_usedb` and the connection's database.
- `SET` (`SplitSet`) is dropped.
- Any other statement (`SplitAppend`) joins the last group when its key
  (database, table, DDL or DML) equals that group's (`SameGroup`), and starts
  a new group otherwise. The new group records the USE prefix it is given.
  A group's `ddlflag` becomes 1 once it holds an ALTER or DROP TABLE.

An unqualified table takes the connection's database (`StmtDb`). With no
database selected, such a statement fails to parse and never reaches the
branch (`Parses`). `Commit` is the reset after `magic_commit`. Statement text
is abstracted to the statement's position in the batch. `placed` is a history
variable: for each grouped statement it records its position, key, command,
and the group and index where the code put it.

`SplitGroupProofs.tla` proves `SplitTypeCorrect` and `SplitGroupsCorrect`.
See "What is proved" below.

### `AlterAlgorithm.tla`: the ALTER TABLE algorithm label

`predict_alter_algorithm` (`inception_audit.cc:1365-1462`) gives each ALTER
TABLE its `ddl_algorithm`: INSTANT, INPLACE or COPY. It tests the bits of
`alter_info->flags` one after another and raises a running worst level
(0, 1, 2). In the model, a flag bit is its name: `flags & ALTER_X` becomes
`"X" \in f`.

- `PredictAlterAlgorithm` is the chain of tests in the code's order.
- `Raise` is the `raise` lambda. `Worse[w][l]` is the maximum of two levels.
- `SpecAlgorithm` is spec.md's table ("Algorithm prediction"): the worst of
  the operations' levels.
- `AuditAlter` audits one ALTER with any non-empty set of flags, on a 5.7 or
  8.0 target, with or without an ENGINE change.
- `NextStatement` is the next statement's fresh node.

`CodeFlags` is the 24 bits the code tests. `OtherPartitionFlags` is the two
partition bits of MySQL's `Alter_info` that the code does not name:
`ALTER_PARTITION` (PARTITION BY) and `ALTER_REBUILD_PARTITION`.

### MC modules

- `MCInceptionSession.tla` gives the constants for TLC's violation runs.
- `MCAuditLog.tla` gives the audit log two sessions and two paths.
- `MCBatchSchema.tla` gives the tracker two tables in two databases, two
  columns, one index and the statement kinds of each run.
- `MCAlterAlgorithm.tla` gives the predictor eleven flags (one of each kind
  and level) and the two server versions.
- `MCSplitGroup.tla` gives the grouper two databases and two tables. It
  extends `SplitGroupProofs.tla`, so the run evaluates its assumption.
- `MCInceptionSessionProofs.tla` gives the same constants to the proof
  module. It extends `InceptionOutcomeProofs.tla`. The `session` run uses it,
  so that TLC checks the strengthenings `IInv`, `KillInv`, `StopInv` and
  `OutcomeInv` next to the properties they are proved for.

## Runs

| run | cfg | expect | checks |
|---|---|---|---|
| `session` | `MCInceptionSessionProofs.cfg` | pass | `TypeOK`, `GateRespected`, `StopRespected`, `AbortOnlyKilled`, `IInv`, `KillInv`, `StopInv`, `OutcomeForAll`, `OutcomeInv`, `CommitCompletes`, `LevelsOnlyRise` |
| `gate_bypass` | `MCInceptionSession_gate.cfg` | violation | `ExecutedOnlyThroughGate` |
| `nested_start` | `MCInceptionSession_nesting.cfg` | violation | `BatchKeptWhileActive` |
| `handle_leak` | `MCInceptionSession_handles.cfg` | violation | `HandlesAccounted` |
| `kill_wait` | `MCInceptionSession_kill.cfg` | violation | `KillStopsExecution` |
| `audit_log` | `MCAuditLog.cfg` | pass | `TypeOK`, `HandleConsistent` |
| `null_log_write` | `MCAuditLog_null.cfg` | violation | `NoNullWrite` |
| `batch_schema` | `MCBatchSchema.cfg` | pass | `ImplementsSchemaSpec` |
| `drop_table_tracked` | `MCBatchSchema_drop.cfg` | violation | `ImplementsSchemaSpec` |
| `mixed_alter` | `MCBatchSchema_mixed.cfg` | violation | `ImplementsSchemaSpec` |
| `split_groups` | `MCSplitGroup.cfg` | pass | `TypeOK`, `SplitIsMaximalRuns` |
| `alter_algorithm` | `MCAlterAlgorithm.cfg` | pass | `PredictionMatchesSpec` |

What the passing properties say:

- `GateRespected`: `execute_one` is called in a batch only when every audit
  level is 0, or warnings are ignored and errors are forced. Breaking it takes
  a wrong pre-scan, or a state where the levels the pre-scan reads differ from
  the audit's.
- `StopRespected`: after a statement that stops the batch, no later statement
  of the batch is sent. Such a statement is a failed read_only pre-check (which
  stops even with `force`), a failed execution without `force`, or a kill seen
  at the loop head.
- `AbortOnlyKilled`: a remote `KILL` only ever aborts a statement of a
  session that was killed. The thread id `kill_session` captures can be stale
  by the time the `KILL` is sent: the batch may have ended, another may have
  started, or the pre-scan may have closed the connection while leaving the id
  set. The property holds because the target's ids are fresh per connection.
- `OutcomeForAll`: when a commit finishes, either every statement of the
  batch has an outcome (its status is no longer "Audit completed") or none
  has. The loop gives each statement it reaches an outcome, and a kill, a
  stop or the end of the batch marks all the rest with `mark_all`.
  `continue` where the code needs `break` (or the converse) at
  `inception_exec.cc:457` leaves some statements without one.
- `LevelsOnlyRise` (an action property): no step lowers a statement's
  `errlevel`. Every step may only raise it, including the `SHOW WARNINGS`
  merge after an execution and the `mark_all` of a kill or stop. Assigning
  the execution's level instead of raising to it breaks the property.
- `CommitCompletes`: once the owner thread starts a commit, it comes back to
  idle (under the fairness below).
- `HandleConsistent`: exactly one FILE is open while `g_log_fp` is set, and
  `g_log_path` names it. No FILE is open otherwise. This holds across option
  changes, failed `fopen`s and interleaved log calls. The `audit_log` run
  turns off deadlock checking: the only state with no successor is the crash
  that `null_log_write` exhibits, after which the server takes no more steps.

The violation runs and what they show are in the Findings section.

Bounds: 2 batches of up to 3 statements give about 93,000 distinct states, and
the search reaches depth 21. This is the smallest instance that has all of:

- a second batch, which is needed for a stale kill id to matter and for a
  nested `magic_start`;
- a statement before and after a stopping one (`StopRespected` needs both);
- every branch of the loop.

- `ImplementsSchemaSpec`: the tracker refines `SchemaSpec`. Every statement
  gets the level the spec's rules give it against the virtual schema,
  including the BLOB/TEXT prefix rule of ADD INDEX and the merge-ALTER
  report, and `batch_tables` is the 4.4 projection after every step. This
  covers batches of CREATE, single-kind ALTER (columns or indexes), INSERT,
  UPDATE, DELETE, TRUNCATE, CREATE DATABASE and DROP DATABASE. A statement's
  verdict depends on what every earlier statement of the batch did to the
  projection. The `drop_table_tracked` and `mixed_alter` runs show the two
  kinds of statement that break the refinement.

The audit log's two sessions and two paths are enough: a crash needs one
session between its check and its write while the other reopens the file.
Reaching it takes either a path change followed by a failed `fopen`, or
disabling the log. The full graph, about 230 states, is explored.

The tracker uses two tables in two databases, two columns, one index and 3
statements per batch, with resets between batches. That gives every remote
starting schema (324 of them, with BLOB columns), a CREATE then an ALTER then
a DML statement on one table, statements on the other table in between, a
DROP or ADD INDEX on a tracked and on an untracked table, and a table
altered twice. It is about 956,000 states, checked in about a minute.

- `SplitIsMaximalRuns` (spec.md 4.8): the groups are exactly the maximal runs
  of consecutive grouped statements with one key, in batch order. Each
  statement sits at its place in its group. Neighbouring groups have different
  keys. A group's flag is 1 exactly when it holds an ALTER or DROP TABLE. USE
  and SET never break a run. Breaking it takes a merge test that compares too
  little (only the table), or a statement whose database is resolved
  differently from the group's.

The grouper uses two databases, two tables and 4 statements per batch, with
the connection's database free at the start. That covers a USE between two
statements on one table, the same table name in two databases, and a DDL/DML
switch on one table. It is about 1,150,000 states, explored in under 20
seconds.

- `PredictionMatchesSpec`: every ALTER's label is the worst level spec.md
  gives its operations, whatever they are combined with, on either server
  version. The run enumerates all 2,047 non-empty sets of eleven flags, which
  covers every level, both version-dependent cases (ADD COLUMN, OPTIONS with
  and without ENGINE), and a cheap operation tested after a costly one. The
  theorem `PredictionCorrect` extends this to all 2^24 sets of the flags the
  code tests.

## Fairness

`OwnerFairness` puts weak fairness on the owner's commit steps (`OwnerStep`)
and on `KillRemote`. Once `do_inception_commit` is running it executes
straight-line code. `kill_session` sends the `KILL` right after the unlock.

The client actions (`MagicStart`, `Intercept`, ...) get no fairness. A client
need not send anything.

`ThrottleFairness` (weak fairness on `ThrottleClear`) assumes the remote
eventually drops below its caps. `CommitCompletes` is checked under it.
`KillStopsExecution` is checked without it (`OwnerSpec`), because a kill should
end the execution whatever the remote's load. That run shows it does not.

## What is proved (TLAPS)

These theorems hold for every value of the constants satisfying
`MaxStmtsAssumption`, `MaxBatchesAssumption` and `FlagsAssumption` (positive
naturals and Booleans).

- `TypeCorrect`: `Spec => []TypeOK`.
- `GateSafety`: `Spec => []GateRespected`.
- `AbortSafety`: `Spec => []AbortOnlyKilled`.
- `StopSafety`: `Spec => []StopRespected`.
- `IInvariant`, `KillInvariant` and `StopInvariant`: `Spec => []IInv`,
  `Spec => []KillInv` and `Spec => []StopInv`, the strengthenings themselves.
  The runs check them too.
- `OutcomeSafety` and `OutcomeInvariant` (`InceptionOutcomeProofs.tla`):
  `Spec => []OutcomeForAll` and `Spec => []OutcomeInv`. `OutcomeForAll` is
  not inductive alone: a step inside the loop must know which statements
  already have an outcome. `OutcomeInv` adds that at `idle` no statement has
  one, and that inside the loop exactly the statements before `idx` have
  one. Each loop step gives the current statement an outcome and advances
  `idx` (`LoopStepOutcome`, `AdvanceEnd`). `mark_all` gives every statement
  one (`MarkAllFields`). So at `finish` either all have one, or none
  has because the loop was never entered. `NextOutcomeInv` has one case per action and uses `IInv` for
  the bounds of `idx`.
- `LevelSafety` (`InceptionOutcomeProofs.tla`): `Spec => LevelsOnlyRise`, an
  action property. `NextLevelStep` shows that every step of `Next` (or a
  stutter) under `IInv` satisfies `LevelStep`: no statement's level goes
  down. `UpdateLevel` covers the steps that rewrite one node, and
  `MarkAllFields` covers `mark_all`. The theorem then follows by `PTL`.
- `LogTypeCorrect` and `HandleSafety` (`AuditLogProofs.tla`): the audit log
  state is well typed and `HandleConsistent` holds, for any sets of sessions
  and paths, under `ConstAssumption` (the sentinels are not paths).
- `PredictionCorrect` (`AlterAlgorithmProofs.tla`): if every flag an ALTER
  may set is one the code tests (`Flags \subseteq CodeFlags`), then
  `Spec => []PredictionMatchesSpec`. It rests on the lemma
  `PredictMatchesTable`: for every set of such flags, every version and either
  ENGINE case, the code's chain gives the table's level. The proof follows the
  chain one test at a time. After the k-th test, the level is
  `Lvl(c_k, i_k)`, where `c_k` and `i_k` say whether a COPY or an INPLACE bit
  is among the first k tests. Each intermediate level is hidden once its
  value is proved. Without that, the nested terms grow past what the provers
  handle.
- `Refinement` (`BatchSchemaProofs.tla`): `Spec => ImplementsSchemaSpec`
  when no ALTER both adds and modifies columns (`~MixedAlter`) and no
  statement is a DROP TABLE. These are the two conditions the violation runs
  show are needed. It holds for any tables, columns, databases, indexes,
  bound and merge-ALTER level. The argument has three parts:
  - `TypeInvariant` shows that `batch` maps tables to column sets or
    `NoTable`, and that the remote stays a `RemoteSchema`. `ResetBatch`
    needs the second fact to be a `NewBatch` step.
  - `HandlersAgree` takes one case per statement kind. It shows that the
    handler's error, warning, merge level, new `batch_tables` and new
    `altered_tables` are the spec's, read against `proj = batch_tables`. For
    ALTER, `SingleParts` supplies the fact that a single-kind ALTER never
    gives two of ADD, DROP and MODIFY. That is what makes the code's
    `create_list` walk and its DROP-after-ADD lookup equal to the spec's rule.
  - Each `AuditStatement` is then a `Judge` step with the same statement,
    and the last step combines these facts by `PTL`.
- `SplitTypeCorrect` and `SplitGroupsCorrect` (`SplitGroupProofs.tla`):
  `Spec => []TypeOK` and `Spec => []SplitIsMaximalRuns` for the grouper, for
  any databases and tables and any bound, under `SplitAssumption`.
  `SplitIsMaximalRuns` is not inductive alone. A statement's position must
  exceed every earlier one, and a new group must come after every group
  already used. `SplitInv` adds the two facts that give this:
  - `PosBound`: every recorded position is at most `fed`, the count of
    statements seen, and each new statement gets `fed + 1`;
  - `GMono`: the group indexes of `placed` never decrease.

  `MergeStep` (a statement joins the last group) and `NewGroupStep` (it opens
  a new one) each show that one append keeps the runs' conjuncts.
  `NextSplit` picks the statement, resolves its key and applies one of the
  two. USE, SET and the reset leave nothing to show.

Neither `TypeOK` nor `GateRespected` is inductive on its own. `IInv` adds:

- `TidInv`: `nextTid <= batches`, and strictly less while a batch is active and
  idle. This keeps ids within `Tids` across the `ExecBegin` increments.
- `HandlesLower`: the open audit and execution connections are counted in
  `handles`, so closing one never makes it negative.
- `LoopInv`: inside the loop, `idx` is a statement of the batch, and the
  execution connection is open exactly there.
- `IdleClean`: between client statements no node has run, and every `lvl` is
  still its `audit`. This is what lets the pre-scan, which reads `lvl`, stand
  for the audit levels.
- `GateInv`: inside the loop, or once a node ran, the gate holds.

`KillInv` strengthens `AbortOnlyKilled`:

- an aborted statement is the running one, in a killed session;
- captured and stored ids are at most `nextTid`;
- the open execution connection is the newest id;
- a pending `KILL` that names the open connection comes from a kill of this
  batch.

`StopInv` strengthens `StopRespected`:

- inside the loop only statements before `idx` were sent;
- inside the loop, once a statement before `idx` stopped the batch,
  `stop_exec` or `killed` is set. Both stay set for the rest of the loop, and
  either one keeps the loop head away from `execute_one`;
- at `wait` and `run`, `stop_exec` is clear and no earlier statement stopped
  the batch, because `PrecheckPass` needs `~stopExec /\ ~killed`.

At `idle` it follows from `IdleClean`, since nothing has run. The lemma
`LoopStepStop` covers the four loop steps that rewrite the current node,
and `NextStopInv` has one case per kind of step.

The proof structure:

- `InitIInv` and `NextIInv` (one step per action) show that `IInv` is
  inductive.
- `NextKillInv` shows `KillInv` is inductive given `IInv`.
- Each theorem then follows by `PTL`.
- Helper lemmas: `RaiseLevel`, `MarkAllProps`, `UpdateAt`, `NodeUpdate`,
  `AppendNode`, `GateStable`, `AdvanceProps`.

Only model-checked:

- The liveness properties (`CommitCompletes` and the `KillStopsExecution`
  violation). Fairness and ENABLED are beyond TLAPS.
- `SplitGroup`'s statements are taken one at a time and whole. The proofs
  say nothing about how the code turns text into keys. `KeyOf` and
  `Parses` are taken as the model gives them.

## Findings

Each violation run checks a sentence of `spec.md` against what the code does.

1. `gate_bypass`, `inception_exec.cc:384` (and `:373`). A failed
   `connect_remote`, or a kill before the start, marks every statement
   `EXECUTED`, including a batch the audit would have blocked. Spec: "A
   statement reaches executed only when ... the batch gating rules pass."
2. `nested_start`, `inception_parse.cc:167`. A second `magic_start` inside an
   active batch resets the context, and the statements already audited are
   silently dropped. Spec: "There is no nesting; a second magic_start inside
   active is an error."
3. `handle_leak`, `inception_context.cc:28`. `destroy_context` erases the
   context without closing `remote_conn`; there is no destructor. A connection
   dropped mid-batch leaks the audit connection. Spec: on connection drop "the
   context closes the remote handle".
4. `null_log_write`, `inception_log.cc:121` (a code bug). `audit_log_session`
   tests `g_log_fp` without `g_log_mutex`, then takes the mutex and calls
   `fprintf(g_log_fp)` at line 135. `audit_log_statement` does the same at
   lines 156 and 172. Between the test and the write, another session's
   `audit_log_open` can close the file: either the option was disabled, or
   it names a path that `fopen` cannot open. The server then crashes in
   `fprintf`. Spec: the handle is "guarded by a dedicated mutex".
5. `kill_wait`, `inception_exec.cc:236`. `wait_for_remote_ready` never reads
   `killed`, so a killed session waits as long as the remote stays overloaded
   or a replica reports a NULL delay. Spec: the engine "may observe it at most
   once per wait-for-ready poll".
6. `drop_table_tracked`, `inception_audit.cc:2084`. `audit_drop_table` leaves
   the `batch_tables` entry. After `CREATE t; DROP TABLE t`, an INSERT into
   `t` passes the existence check, and a second CREATE of `t` is refused as
   "created earlier in this batch". Spec 4.4: "DROP TABLE (db, t) -> erase
   entry."
7. `mixed_alter`, `inception_audit.cc:1500` (a code bug). The ADD COLUMN loop
   and the MODIFY loop (line 1554) both walk `alter_info->create_list`. That
   list holds the fields of both clauses. `ALTER TABLE t ADD COLUMN x,
   MODIFY COLUMN y` is told that `y` already exists, and that `x` does not
   exist on a remote table.

Two more disagreements were met while modelling; they are listed as hazards
in PROJECT.json rather than as runs.

- `inception_audit.cc:1925` and `:2034`. UPDATE and DELETE run `EXPLAIN` on
  the remote for a table that exists only as a batch entry. Spec 4.4: "Remote
  probes are skipped whenever a (db, t) entry is present." The row estimate
  changes no state the existence rules read, so `BatchSchema` leaves it out.
- `inception_audit.cc:1439`. The partition test names seven of
  `Alter_info`'s partition bits. `ALTER TABLE t PARTITION BY ...` sets
  `ALTER_PARTITION`, and `REBUILD PARTITION` sets `ALTER_REBUILD_PARTITION`.
  Neither is tested, so both are labelled INSTANT (and get sub-type OTHER
  from `resolve_alter_sub_type`). spec.md's table says any partition
  operation is COPY. The flag names come from MySQL's `Alter_info`, which is
  not in this repository. `AlterAlgorithm` keeps them as
  `OtherPartitionFlags`: with `Flags` extended by them, TLC reports
  `PredictionMatchesSpec` violated on `{"PARTITION"}`. `PredictionCorrect`
  assumes `Flags \subseteq CodeFlags`.

## Not modelled (yet)

- The unlocked read of the `opt_audit_log` string while `SET GLOBAL` may
  replace it. Option changes are atomic in the model.
- `batch_databases`. `audit_drop_db` fills it and `audit_create_db` does
  not, the reverse of spec 4.4, but nothing reads it.
- The query tree extractor, result formatting, option parsing and password
  decryption. They are pure conversions of text.
- The rollback stub, which does nothing.
- A remote lookup query that fails on an open connection. The code takes it
  as "does not exist" (see `BatchSchema.tla` above).
- The data race between `kill_session` and the owner thread on the plain
  fields. Every model action is atomic.
