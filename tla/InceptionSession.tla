-------------------------- MODULE InceptionSession --------------------------
(***************************************************************************)
(* One inception session (the InceptionContext of one THD) through its     *)
(* batch lifecycle, and the remote execution engine that runs inside       *)
(* inception_magic_commit, interleaved with the administrative             *)
(* "inception kill <id> [force]" issued from another connection.           *)
(*                                                                         *)
(*   owner thread : magic_start, intercepted statements, parse errors,     *)
(*                  magic_commit (execute_statements step by step),        *)
(*                  connection close                                       *)
(*   admin thread : kill_session (graceful or force) and the remote KILL   *)
(*                  it issues after releasing g_ctx_mutex                  *)
(*   environment  : remote connect results, read_only, load/replication    *)
(*                  throttle, success, failure and warnings of statements  *)
(*                                                                         *)
(* The rule engine is abstracted to the level it reports for a statement;  *)
(* statement text, timing, sequence tokens and logging are left out.       *)
(***************************************************************************)
EXTENDS Naturals, Sequences

CONSTANTS
  MaxStmts,       \* statements cached per batch (bound of the model)
  MaxBatches,     \* magic_start comments accepted (bound of the model)
  CheckReadOnly,  \* opt_exec_check_read_only
  Throttle        \* opt_exec_max_threads_running > 0, or replicas with
                  \* opt_exec_max_replication_delay > 0

ASSUME MaxStmtsAssumption   == MaxStmts \in Nat \ {0}
ASSUME MaxBatchesAssumption == MaxBatches \in Nat \ {0}
ASSUME FlagsAssumption      == CheckReadOnly \in BOOLEAN /\ Throttle \in BOOLEAN

\* ERRLEVEL_OK, ERRLEVEL_WARNING, ERRLEVEL_ERROR
Levels == 0..2
\* STAGE_NONE, STAGE_CHECKED, STAGE_EXECUTED, STAGE_SKIPPED
Stages == {"NONE", "CHECKED", "EXECUTED", "SKIPPED"}
\* the stage_status strings the code assigns
Statuses == {"Audit completed", "Execute completed", "Execute failed",
             "Killed by user", "Skipped due to prior error",
             "Pre-check failed"}
Modes == {"CHECK", "EXECUTE", "SPLIT", "QUERY_TREE"}
\* where the owner thread is: waiting for the client ("idle"), or inside
\* do_inception_commit: the statement loop, the wait_for_remote_ready loop,
\* execute_one, and the send/log/reset tail ("finish")
PCs == {"idle", "loop", "wait", "run", "finish"}
\* remote connection ids handed out by the target (0 = none)
Tids == 0..MaxBatches

(***************************************************************************)
(* A SqlCacheNode: the level the audit gave it (audit, a history field     *)
(* never changed afterwards), its current errlevel (lvl), stage,           *)
(* stage_status, and whether execute_one was called on it (ran, a history *)
(* field).                                                                 *)
(***************************************************************************)
Node == [audit : Levels, lvl : Levels, stage : Stages, status : Statuses,
         ran : BOOLEAN]

VARIABLES
  active,          \* ctx->active
  mode,            \* ctx->mode
  force,           \* ctx->force
  ignoreWarnings,  \* ctx->ignore_warnings
  killed,          \* ctx->killed
  auditConn,       \* ctx->remote_conn / remote_conn_failed: "none","open","failed"
  cache,           \* ctx->cache_nodes
  others,          \* number of split_nodes / tree_nodes records
  pc,              \* owner thread position
  idx,             \* index of the statement the execution loop is at
  stopExec,        \* stop_exec of execute_statements
  hasError,        \* has_error of execute_statements
  execTid,         \* ctx->remote_exec_thread_id
  connTid,         \* thread id of the open execution connection (0 = closed)
  nextTid,         \* last thread id the remote handed out
  aborted,         \* the running statement was aborted by a remote KILL
  pendingKill,     \* remote_tid captured by kill_session, KILL not yet sent
  handles,         \* remote MYSQL handles opened for this session, not closed
  batches          \* magic_start comments accepted so far

vars == <<active, mode, force, ignoreWarnings, killed, auditConn, cache,
          others, pc, idx, stopExec, hasError, execTid, connTid, nextTid,
          aborted, pendingKill, handles, batches>>

ctxVars == <<active, mode, force, ignoreWarnings, killed, auditConn, cache,
             others>>
execVars == <<idx, stopExec, hasError, execTid, connTid>>

-----------------------------------------------------------------------------
\* mutant: levels accumulated instead of taking the maximum
RaiseSum(l, x) == l + x

(* SqlCacheNode::append_error / append_warning / report: errlevel only rises *)
Raise(l, x) == IF l < x THEN x ELSE l

(* InceptionContext::reset, which also mysql_close()s the audit connection *)
Reset ==
  /\ active' = FALSE
  /\ mode' = "CHECK"
  /\ force' = FALSE
  /\ ignoreWarnings' = FALSE
  /\ killed' = FALSE
  /\ execTid' = 0
  /\ auditConn' = "none"
  /\ cache' = << >>
  /\ others' = 0

\* handles left after reset() closed the audit connection
ClosedAudit == IF auditConn = "open" THEN handles - 1 ELSE handles

Init ==
  /\ active = FALSE
  /\ mode = "CHECK"
  /\ force = FALSE
  /\ ignoreWarnings = FALSE
  /\ killed = FALSE
  /\ auditConn = "none"
  /\ cache = << >>
  /\ others = 0
  /\ pc = "idle"
  /\ idx = 0
  /\ stopExec = FALSE
  /\ hasError = FALSE
  /\ execTid = 0
  /\ connTid = 0
  /\ nextTid = 0
  /\ aborted = FALSE
  /\ pendingKill = 0
  /\ handles = 0
  /\ batches = 0

-----------------------------------------------------------------------------
(***************************************************************************)
(* Owner thread, between statements of the client.                         *)
(***************************************************************************)

(* before_parse on a magic_start comment: setup_inception_session.          *)
(* parse_inception_start resets the context (whatever it held), reads the   *)
(* options and sets active; maybe_detect_remote_db_profile then opens the   *)
(* audit connection through get_remote_conn, which may fail.                *)
MagicStart ==
  /\ pc = "idle"
  /\ batches < MaxBatches
  /\ \E m \in Modes, f, iw \in BOOLEAN, ok \in BOOLEAN :
       /\ active' = TRUE
       /\ mode' = m
       /\ force' = f
       /\ ignoreWarnings' = iw
       /\ auditConn' = IF ok THEN "open" ELSE "failed"
       /\ handles' = ClosedAudit + (IF ok THEN 1 ELSE 0)
  /\ killed' = FALSE
  /\ execTid' = 0
  /\ cache' = << >>
  /\ others' = 0
  /\ batches' = batches + 1
  /\ UNCHANGED <<pc, idx, stopExec, hasError, connTid, nextTid, aborted,
                 pendingKill>>

(* parse_inception_start resets the context, then rejects an explicit port *)
(* of 0 or above 65535 before setting active.                              *)
MagicStartParseFail ==
  /\ pc = "idle"
  /\ batches < MaxBatches
  /\ Reset
  /\ handles' = ClosedAudit
  /\ batches' = batches + 1
  /\ UNCHANGED <<pc, idx, stopExec, hasError, connTid, nextTid, aborted,
                 pendingKill>>

(* intercept_statement in CHECK/EXECUTE mode: add_sql then audit_statement. *)
(* The audit first connects if no connection was tried; a failed connection *)
(* adds an error to every statement; the rules add level a.                 *)
Intercept ==
  /\ pc = "idle"
  /\ active
  /\ mode \in {"CHECK", "EXECUTE"}
  /\ Len(cache) < MaxStmts
  /\ \E ok \in BOOLEAN, a \in Levels :
       LET conn == IF auditConn = "none"
                   THEN (IF ok THEN "open" ELSE "failed") ELSE auditConn
           l    == IF conn = "failed" THEN Raise(a, 2) ELSE a
       IN /\ auditConn' = conn
          /\ handles' = IF auditConn = "none" /\ conn = "open"
                        THEN handles + 1 ELSE handles
          /\ cache' = Append(cache, [audit |-> l, lvl |-> l,
                                     stage |-> "CHECKED",
                                     status |-> "Audit completed",
                                     ran |-> FALSE])
  /\ UNCHANGED <<active, mode, force, ignoreWarnings, killed, others, pc,
                 execVars, nextTid, aborted, pendingKill, batches>>

(* handle_parse_error: a statement that failed to parse is cached CHECKED   *)
(* with an error.                                                          *)
ParseError ==
  /\ pc = "idle"
  /\ active
  /\ Len(cache) < MaxStmts
  /\ cache' = Append(cache, [audit |-> 2, lvl |-> 2, stage |-> "CHECKED",
                             status |-> "Audit completed", ran |-> FALSE])
  /\ UNCHANGED <<active, mode, force, ignoreWarnings, killed, auditConn,
                 others, pc, execVars, nextTid, aborted, pendingKill,
                 handles, batches>>

(* intercept_statement in SPLIT / QUERY_TREE mode: a split or tree record  *)
InterceptOther ==
  /\ pc = "idle"
  /\ active
  /\ mode \in {"SPLIT", "QUERY_TREE"}
  /\ others < MaxStmts
  /\ others' = others + 1
  /\ UNCHANGED <<active, mode, force, ignoreWarnings, killed, auditConn,
                 cache, pc, execVars, nextTid, aborted, pendingKill,
                 handles, batches>>

(* do_inception_commit when nothing is executed: SPLIT, QUERY_TREE, CHECK, *)
(* or EXECUTE with an empty cache; results are sent and the context reset. *)
CommitNoExec ==
  /\ pc = "idle"
  /\ active
  /\ mode # "EXECUTE" \/ cache = << >>
  /\ Reset
  /\ handles' = ClosedAudit
  /\ UNCHANGED <<pc, idx, stopExec, hasError, connTid, nextTid, aborted,
                 pendingKill, batches>>

(* destroy_context on connection close: the map entry is erased; the      *)
(* context has no destructor, so its audit connection is not closed.      *)
Disconnect ==
  /\ pc = "idle"
  /\ Reset
  /\ UNCHANGED <<pc, idx, stopExec, hasError, connTid, nextTid, aborted,
                 pendingKill, handles, batches>>

-----------------------------------------------------------------------------
(***************************************************************************)
(* Owner thread inside execute_statements (EXECUTE mode, non-empty cache). *)
(***************************************************************************)

ExecCommit == pc = "idle" /\ active /\ mode = "EXECUTE" /\ cache # << >>

(* every node marked with stage s and status t, errlevel raised to x *)
MarkAll(s, t, x) ==
  [i \in 1..Len(cache) |-> [cache[i] EXCEPT !.stage = s, !.status = t,
                                            !.lvl = Raise(@, x)]]

(* killed before the start: every node EXECUTED "Killed by user" *)
ExecStartKilled ==
  /\ ExecCommit
  /\ killed
  /\ cache' = MarkAll("EXECUTED", "Killed by user", 0)
  /\ pc' = "finish"
  /\ UNCHANGED <<active, mode, force, ignoreWarnings, killed, auditConn,
                 others, idx, stopExec, hasError, execTid, connTid, nextTid,
                 aborted, pendingKill, handles, batches>>

(* connect_remote failed: the error on every node, all EXECUTED "failed" *)
ExecConnectFail ==
  /\ ExecCommit
  /\ ~killed
  /\ cache' = MarkAll("EXECUTED", "Execute failed", 2)
  /\ pc' = "finish"
  /\ UNCHANGED <<active, mode, force, ignoreWarnings, killed, auditConn,
                 others, idx, stopExec, hasError, execTid, connTid, nextTid,
                 aborted, pendingKill, handles, batches>>

\* mutant: the pre-scan checks audit errors only, not warnings
BlockedErrorsOnly == \E i \in 1..Len(cache) : cache[i].lvl >= 2 /\ ~force

(* the pre-scan blocks the batch: an ERROR without force, or a WARNING or  *)
(* ERROR without ignore_warnings                                           *)
Blocked == \E i \in 1..Len(cache) :
             \/ cache[i].lvl >= 2 /\ ~force
             \/ cache[i].lvl >= 1 /\ ~ignoreWarnings

(* connected, thread id stored; the pre-scan blocks and the connection is *)
(* closed (remote_exec_thread_id is left set)                             *)
ExecPrescanBlocked ==
  /\ ExecCommit
  /\ ~killed
  /\ Blocked
  /\ nextTid' = nextTid + 1
  /\ execTid' = nextTid + 1
  /\ pc' = "finish"
  /\ UNCHANGED <<active, mode, force, ignoreWarnings, killed, auditConn,
                 cache, others, idx, stopExec, hasError, connTid, aborted,
                 pendingKill, handles, batches>>

(* connected, thread id stored, pre-scan passed: enter the statement loop *)
ExecBegin ==
  /\ ExecCommit
  /\ ~killed
  /\ ~Blocked
  /\ nextTid' = nextTid + 1
  /\ execTid' = nextTid + 1
  /\ connTid' = nextTid + 1
  /\ handles' = handles + 1
  /\ pc' = "loop"
  /\ idx' = 1
  /\ stopExec' = FALSE
  /\ hasError' = FALSE
  /\ UNCHANGED <<active, mode, force, ignoreWarnings, killed, auditConn,
                 cache, others, aborted, pendingKill, batches>>

\* mutant: the loop stops one statement before the end of the batch
AdvanceEarlyEnd ==
  IF idx < Len(cache) - 1
  THEN /\ idx' = idx + 1
       /\ pc' = "loop"
       /\ UNCHANGED <<execTid, connTid, handles>>
  ELSE /\ idx' = idx
       /\ pc' = "finish"
       /\ execTid' = 0
       /\ connTid' = 0
       /\ handles' = handles - 1

(* the end of one loop iteration: the next node, or after the last one    *)
(* the connections are closed and remote_exec_thread_id is reset          *)
Advance ==
  IF idx < Len(cache)
  THEN /\ idx' = idx + 1
       /\ pc' = "loop"
       /\ UNCHANGED <<execTid, connTid, handles>>
  ELSE /\ idx' = idx
       /\ pc' = "finish"
       /\ execTid' = 0
       /\ connTid' = 0
       /\ handles' = handles - 1

\* mutant: a kill seen at the loop head marks the whole batch killed
LoopKilledAll ==
  /\ pc = "loop"
  /\ killed
  /\ cache' = MarkAll("EXECUTED", "Killed by user", 0)
  /\ Advance
  /\ UNCHANGED <<active, mode, force, ignoreWarnings, killed, auditConn,
                 others, stopExec, hasError, nextTid, aborted, pendingKill,
                 batches>>

(* loop head: killed by another thread -> EXECUTED "Killed by user" *)
LoopKilled ==
  /\ pc = "loop"
  /\ killed
  /\ cache' = [cache EXCEPT ![idx].stage = "EXECUTED",
                            ![idx].status = "Killed by user"]
  /\ Advance
  /\ UNCHANGED <<active, mode, force, ignoreWarnings, killed, auditConn,
                 others, stopExec, hasError, nextTid, aborted, pendingKill,
                 batches>>

\* mutant: the skip branch does not move on to the next statement
LoopSkipNoAdvance ==
  /\ pc = "loop"
  /\ ~killed
  /\ stopExec
  /\ cache' = [cache EXCEPT ![idx].stage = "SKIPPED",
                            ![idx].status = "Skipped due to prior error",
                            ![idx].lvl = 2]
  /\ UNCHANGED <<idx, pc, execTid, connTid, handles>>
  /\ UNCHANGED <<active, mode, force, ignoreWarnings, killed, auditConn,
                 others, stopExec, hasError, nextTid, aborted, pendingKill,
                 batches>>

(* loop head: a previous statement failed -> SKIPPED with an error *)
LoopSkip ==
  /\ pc = "loop"
  /\ ~killed
  /\ stopExec
  /\ cache' = [cache EXCEPT ![idx].stage = "SKIPPED",
                            ![idx].status = "Skipped due to prior error",
                            ![idx].lvl = 2]
  /\ Advance
  /\ UNCHANGED <<active, mode, force, ignoreWarnings, killed, auditConn,
                 others, stopExec, hasError, nextTid, aborted, pendingKill,
                 batches>>

\* mutant: a failed pre-check does not stop the batch
PrecheckFailNoStop ==
  /\ pc = "loop"
  /\ ~killed
  /\ ~stopExec
  /\ CheckReadOnly
  /\ cache' = [cache EXCEPT ![idx].stage = "CHECKED",
                            ![idx].status = "Pre-check failed",
                            ![idx].lvl = 2]
  /\ hasError' = TRUE
  /\ stopExec' = stopExec
  /\ Advance
  /\ UNCHANGED <<active, mode, force, ignoreWarnings, killed, auditConn,
                 others, nextTid, aborted, pendingKill, batches>>

(* pre_execute_checks: @@global.read_only is ON or cannot be read *)
PrecheckFail ==
  /\ pc = "loop"
  /\ ~killed
  /\ ~stopExec
  /\ CheckReadOnly
  /\ cache' = [cache EXCEPT ![idx].stage = "CHECKED",
                            ![idx].status = "Pre-check failed",
                            ![idx].lvl = 2]
  /\ hasError' = TRUE
  /\ stopExec' = TRUE
  /\ Advance
  /\ UNCHANGED <<active, mode, force, ignoreWarnings, killed, auditConn,
                 others, nextTid, aborted, pendingKill, batches>>

(* pre_execute_checks passed the read_only gate, or it is off *)
PrecheckPass ==
  /\ pc = "loop"
  /\ ~killed
  /\ ~stopExec
  /\ pc' = IF Throttle THEN "wait" ELSE "run"
  /\ UNCHANGED <<active, mode, force, ignoreWarnings, killed, auditConn,
                 cache, others, execVars, nextTid, aborted, pendingKill,
                 handles, batches>>

(* wait_for_remote_ready: Threads_running and every replica delay are      *)
(* under their caps. While they are not, the loop sleeps and polls again   *)
(* (a stuttering step); it never reads ctx->killed.                        *)
ThrottleClear ==
  /\ pc = "wait"
  /\ pc' = "run"
  /\ UNCHANGED <<active, mode, force, ignoreWarnings, killed, auditConn,
                 cache, others, execVars, nextTid, aborted, pendingKill,
                 handles, batches>>

\* mutant: the warnings of the remote overwrite the level instead of raising it
ExecuteOneAssign(n, fail, w) ==
  [n EXCEPT !.stage = "EXECUTED",
            !.ran = TRUE,
            !.status = IF fail THEN "Execute failed" ELSE "Execute completed",
            !.lvl = IF fail THEN 2 ELSE w]

(* execute_one and collect_remote_warnings on node n: the statement is    *)
(* sent; it fails with an error, or completes and SHOW WARNINGS may raise  *)
(* its level to w.                                                         *)
ExecuteOne(n, fail, w) ==
  [n EXCEPT !.stage = "EXECUTED",
            !.ran = TRUE,
            !.status = IF fail THEN "Execute failed" ELSE "Execute completed",
            !.lvl = Raise(@, IF fail THEN 2 ELSE w)]

\* mutant: a failed execution without force does not set stop_exec
RunStatementNoStop ==
  /\ pc = "run"
  /\ \E fail \in BOOLEAN, w \in Levels :
       /\ aborted => fail
       /\ cache' = [cache EXCEPT ![idx] = ExecuteOne(@, fail, w)]
       /\ hasError' = (hasError \/ fail)
       /\ stopExec' = stopExec
  /\ aborted' = FALSE
  /\ Advance
  /\ UNCHANGED <<active, mode, force, ignoreWarnings, killed, auditConn,
                 others, nextTid, pendingKill, batches>>

(* the rest of the iteration: execute_one fails (always, when a remote     *)
(* KILL aborted it) or completes; a failure stops the batch unless force.  *)
RunStatement ==
  /\ pc = "run"
  /\ \E fail \in BOOLEAN, w \in Levels :
       /\ aborted => fail
       /\ cache' = [cache EXCEPT ![idx] = ExecuteOne(@, fail, w)]
       /\ hasError' = (hasError \/ fail)
       /\ stopExec' = (stopExec \/ (fail /\ ~force))
  /\ aborted' = FALSE
  /\ Advance
  /\ UNCHANGED <<active, mode, force, ignoreWarnings, killed, auditConn,
                 others, nextTid, pendingKill, batches>>

(* the tail of do_inception_commit: rollback stub, results, session log, *)
(* reset                                                                 *)
CommitFinish ==
  /\ pc = "finish"
  /\ Reset
  /\ handles' = ClosedAudit
  /\ pc' = "idle"
  /\ UNCHANGED <<idx, stopExec, hasError, connTid, nextTid, aborted,
                 pendingKill, batches>>

-----------------------------------------------------------------------------
(***************************************************************************)
(* Admin thread: "inception kill <tid> [force]" on another connection.     *)
(***************************************************************************)

(* kill_session under g_ctx_mutex: an active session is marked killed; a  *)
(* force kill captures remote_exec_thread_id to KILL after the unlock.    *)
KillSession ==
  /\ active
  /\ pendingKill = 0
  /\ \E f \in BOOLEAN :
       pendingKill' = IF f THEN execTid ELSE 0
  /\ killed' = TRUE
  /\ UNCHANGED <<active, mode, force, ignoreWarnings, auditConn, cache,
                 others, pc, execVars, nextTid, aborted, handles, batches>>

\* mutant: the KILL hits whatever statement is running, whatever its thread
KillRemoteIgnoreTid ==
  /\ pendingKill # 0
  /\ aborted' = (aborted \/ pc = "run")
  /\ pendingKill' = 0
  /\ UNCHANGED <<active, mode, force, ignoreWarnings, killed, auditConn,
                 cache, others, pc, execVars, nextTid, handles, batches>>

(* the KILL <remote_tid> sent on a short-lived connection: it aborts the  *)
(* statement running on that thread, if any.                             *)
KillRemote ==
  /\ pendingKill # 0
  /\ aborted' = (aborted \/ (pc = "run" /\ connTid = pendingKill))
  /\ pendingKill' = 0
  /\ UNCHANGED <<active, mode, force, ignoreWarnings, killed, auditConn,
                 cache, others, pc, execVars, nextTid, handles, batches>>

-----------------------------------------------------------------------------
OwnerStep ==
  \/ ExecStartKilled \/ ExecConnectFail \/ ExecPrescanBlocked \/ ExecBegin
  \/ LoopKilled \/ LoopSkip \/ PrecheckFail \/ PrecheckPass
  \/ RunStatement \/ CommitFinish

Next ==
  \/ MagicStart \/ MagicStartParseFail \/ Intercept \/ ParseError
  \/ InterceptOther \/ CommitNoExec \/ Disconnect
  \/ OwnerStep
  \/ ThrottleClear
  \/ KillSession \/ KillRemote

Spec == Init /\ [][Next]_vars

(* The handler code of the owner thread runs to completion once started, *)
(* and a captured force KILL is sent; the client and the remote load are  *)
(* not assumed to do anything.                                            *)
OwnerFairness == WF_vars(OwnerStep) /\ WF_vars(KillRemote)

(* The remote eventually drops under the thresholds while it is polled.  *)
ThrottleFairness == WF_vars(ThrottleClear)

OwnerSpec == Spec /\ OwnerFairness
FairSpec  == Spec /\ OwnerFairness /\ ThrottleFairness

-----------------------------------------------------------------------------
(* Every variable holds a value of its kind. *)
TypeOK ==
  /\ active \in BOOLEAN
  /\ mode \in Modes
  /\ force \in BOOLEAN
  /\ ignoreWarnings \in BOOLEAN
  /\ killed \in BOOLEAN
  /\ auditConn \in {"none", "open", "failed"}
  /\ cache \in Seq(Node)
  /\ Len(cache) <= MaxStmts
  /\ others \in 0..MaxStmts
  /\ pc \in PCs
  /\ idx \in Nat
  /\ stopExec \in BOOLEAN
  /\ hasError \in BOOLEAN
  /\ execTid \in Tids
  /\ connTid \in Tids
  /\ nextTid \in Tids
  /\ aborted \in BOOLEAN
  /\ pendingKill \in Tids
  /\ handles \in Nat
  /\ batches \in 0..MaxBatches

(* The batch gate of the pre-scan, in terms of the levels the audit gave:  *)
(* every statement is clean, or warnings are ignored and errors forced.    *)
GateOK ==
  \A j \in 1..Len(cache) :
     cache[j].audit = 0 \/ (ignoreWarnings /\ (cache[j].audit = 2 => force))

(* execute_statements sends a statement to the remote only if the whole   *)
(* batch passed the audit gate (spec 4.6 step 3, 8: force/ignore_warnings) *)
GateRespected == (\E i \in 1..Len(cache) : cache[i].ran) => GateOK

(* A statement that stops the batch (a failed read_only pre-check, a       *)
(* failed execution without force, a kill seen at the loop head) is never  *)
(* followed by a statement sent to the remote (spec 4.6 step 5, 7).        *)
StopsBatch(n) ==
  \/ n.status = "Pre-check failed"
  \/ n.status = "Killed by user"
  \/ n.status = "Execute failed" /\ n.ran /\ ~force
StopRespected ==
  \A i, j \in 1..Len(cache) :
     i < j /\ StopsBatch(cache[i]) => ~cache[j].ran

(* A remote KILL only ever aborts a statement of a session that was        *)
(* killed: the thread id captured by kill_session never hits a statement   *)
(* of a later batch.                                                       *)
AbortOnlyKilled == aborted => killed

(* A statement has an outcome once the execution engine has dealt with it: *)
(* the audit's "Audit completed" is replaced by one of the statuses of      *)
(* execute_statements.                                                      *)
Outcome(n) == n.status # "Audit completed"

(* Spec 4.6/6: when execute_statements returns, the result set reports an *)
(* outcome (executed, failed, skipped, pre-check failed or killed) for     *)
(* every statement of the batch, or, for a batch the pre-scan blocked, for *)
(* none: a kill, a stop or a failed pre-check never leaves a statement     *)
(* looking merely audited.                                                 *)
OutcomeForAll ==
  pc = "finish" =>
    \/ \A i \in 1..Len(cache) : Outcome(cache[i])
    \/ \A i \in 1..Len(cache) : ~Outcome(cache[i])

(* SqlCacheNode::report only raises errlevel: while a batch lives, no step *)
(* (audit, pre-check, skip, kill, execution, SHOW WARNINGS) lowers the     *)
(* level a statement already has, so an audit warning or error is never   *)
(* hidden from the result set by what execution found.                     *)
LevelsOnlyRise ==
  [][\A i \in 1..Len(cache) :
       i <= Len(cache') => cache'[i].lvl >= cache[i].lvl]_vars

(* Once magic_commit starts executing, it completes and the session is     *)
(* idle again, when the remote eventually clears the throttle.             *)
CommitCompletes == (pc # "idle") ~> (pc = "idle")

(* Spec 5: a kill is observed by the execution engine, which then stops    *)
(* scheduling statements: a killed execution comes to an end.              *)
KillStopsExecution ==
  (killed /\ pc \in {"loop", "wait", "run"}) ~> (pc = "idle")

(* Spec 3: a statement reaches EXECUTED only when the batch gate passed.   *)
ExecutedOnlyThroughGate ==
  \A i \in 1..Len(cache) : cache[i].stage = "EXECUTED" => GateOK

(* Spec 4.1: there is no nesting; while a batch stays active none of the   *)
(* statements it recorded is lost.                                         *)
BatchKeptWhileActive ==
  [][active /\ active' =>
       /\ Len(cache') >= Len(cache)
       /\ \A i \in 1..Len(cache) : cache'[i].audit = cache[i].audit]_vars

(* Spec 5: every remote handle the session opened is closed by reset, at   *)
(* the end of an execution, or on connection drop: the open handles are    *)
(* exactly the audit connection and the execution connection.              *)
HandlesAccounted ==
  handles = (IF auditConn = "open" THEN 1 ELSE 0) + (IF connTid # 0 THEN 1 ELSE 0)

=============================================================================
