----------------------- MODULE InceptionSessionProofs -----------------------
(***************************************************************************)
(* Proofs about InceptionSession for every value of the constants: the     *)
(* type invariant and the batch gate of execute_statements.                *)
(*                                                                         *)
(* Neither is inductive as it stands. The strengthening IInv adds          *)
(*   - TidInv: a remote thread id is handed out at most once per batch,    *)
(*     so the ids stay within 0..MaxBatches;                               *)
(*   - HandlesLower: the open audit and execution connections are counted  *)
(*     in handles, so closing one never drives it below 0;                 *)
(*   - LoopInv: inside the statement loop the index is a statement of the  *)
(*     batch, and the execution connection is open exactly there;          *)
(*   - IdleClean: between statements of the client no statement has run   *)
(*     and every level is still the one the audit gave;                    *)
(*   - GateInv: inside the loop, or once anything ran, the gate holds.     *)
(* StopInv and KillInv, on top of IInv, give stop-on-failure and the      *)
(* safety of a stale force KILL.                                           *)
(***************************************************************************)
EXTENDS InceptionSession, SequenceTheorems, TLAPS

TidInv ==
  /\ nextTid <= batches
  /\ (pc = "idle" /\ active) => nextTid < batches

HandlesLower ==
  handles >= (IF auditConn = "open" THEN 1 ELSE 0) + (IF connTid # 0 THEN 1 ELSE 0)

InLoop == pc \in {"loop", "wait", "run"}

LoopInv ==
  /\ InLoop => idx \in 1..Len(cache)
  /\ connTid # 0 <=> InLoop

IdleClean ==
  pc = "idle" => \A i \in 1..Len(cache) : ~cache[i].ran /\ cache[i].lvl = cache[i].audit

GateInv == (InLoop \/ \E i \in 1..Len(cache) : cache[i].ran) => GateOK

IInv == TypeOK /\ TidInv /\ HandlesLower /\ LoopInv /\ IdleClean /\ GateInv

(***************************************************************************)
(* KillInv is the strengthening of AbortOnlyKilled. An aborted statement   *)
(* is the one running in a killed session; a captured remote_tid and the   *)
(* stored remote_exec_thread_id were handed out already; the open          *)
(* execution connection is the last one handed out; so a KILL of a stale   *)
(* captured id can only hit the connection of the killed batch.            *)
(***************************************************************************)
KillInv ==
  /\ aborted => pc = "run" /\ killed
  /\ pendingKill <= nextTid
  /\ execTid <= nextTid
  /\ connTid # 0 => connTid = nextTid
  /\ (connTid # 0 /\ pendingKill = connTid) => killed

(***************************************************************************)
(* StopInv is the strengthening of StopRespected. Inside the statement     *)
(* loop only statements before the current one were sent; once one of them *)
(* stopped the batch, stop_exec or killed is set, which keeps the loop off *)
(* execute_one; and a statement about to be sent has no stopping statement *)
(* before it.                                                              *)
(***************************************************************************)
StopInv ==
  /\ StopRespected
  /\ InLoop => \A j \in 1..Len(cache) : cache[j].ran => j < idx
  /\ (InLoop /\ \E i \in 1..idx-1 : StopsBatch(cache[i])) => stopExec \/ killed
  /\ pc \in {"wait", "run"} =>
       ~stopExec /\ \A i \in 1..idx-1 : ~StopsBatch(cache[i])

-----------------------------------------------------------------------------
(* Raise keeps a level a level. *)
LEMMA RaiseLevel ==
  ASSUME NEW l \in Levels, NEW x \in Levels
  PROVE  Raise(l, x) \in Levels /\ Raise(l, x) >= l
  BY DEF Raise, Levels

(* MarkAll keeps the batch a sequence of nodes of the same length and      *)
(* leaves the audit level and the ran field of every node alone.           *)
LEMMA MarkAllProps ==
  ASSUME NEW s \in Stages, NEW t \in Statuses, NEW x \in Levels,
         cache \in Seq(Node)
  PROVE  /\ MarkAll(s, t, x) \in Seq(Node)
         /\ Len(MarkAll(s, t, x)) = Len(cache)
         /\ \A i \in 1..Len(cache) :
              /\ MarkAll(s, t, x)[i].audit = cache[i].audit
              /\ MarkAll(s, t, x)[i].ran = cache[i].ran
  <1>1. ASSUME NEW i \in 1..Len(cache)
        PROVE  [cache[i] EXCEPT !.stage = s, !.status = t, !.lvl = Raise(@, x)] \in Node
    <2>1. cache[i] \in Node
      BY ElementOfSeq
    <2>2. Raise(cache[i].lvl, x) \in Levels
      BY <2>1, RaiseLevel DEF Node
    <2>3. QED
      BY <2>1, <2>2 DEF Node
  <1>2. MarkAll(s, t, x) \in [1..Len(cache) -> Node]
    BY <1>1 DEF MarkAll
  <1>3. MarkAll(s, t, x) \in Seq(Node)
    BY <1>2, LenProperties
  <1>4. Len(MarkAll(s, t, x)) = Len(cache)
    <2>1. DOMAIN MarkAll(s, t, x) = 1..Len(cache)
      BY DEF MarkAll
    <2>2. DOMAIN MarkAll(s, t, x) = 1..Len(MarkAll(s, t, x))
      BY <1>3, LenProperties
    <2>3. Len(cache) \in Nat /\ Len(MarkAll(s, t, x)) \in Nat
      BY <1>3, LenProperties
    <2>4. QED
      BY <2>1, <2>2, <2>3
  <1>5. ASSUME NEW i \in 1..Len(cache)
        PROVE  /\ MarkAll(s, t, x)[i].audit = cache[i].audit
               /\ MarkAll(s, t, x)[i].ran = cache[i].ran
    <2>1. cache[i] \in Node
      BY ElementOfSeq
    <2>2. QED
      BY <2>1 DEF MarkAll, Node
  <1>6. QED
    BY <1>3, <1>4, <1>5

(* The node that RunStatement, LoopKilled, LoopSkip and PrecheckFail       *)
(* rewrite stays a node, and the others are untouched.                     *)
LEMMA UpdateAt ==
  ASSUME NEW S, NEW seq \in Seq(S), NEW i \in 1..Len(seq), NEW e \in S
  PROVE  /\ [seq EXCEPT ![i] = e] \in Seq(S)
         /\ Len([seq EXCEPT ![i] = e]) = Len(seq)
         /\ \A j \in 1..Len(seq) : [seq EXCEPT ![i] = e][j] = IF j = i THEN e ELSE seq[j]
  BY ExceptSeq

(* Rewriting the node at i with a node of the same audit level keeps the  *)
(* batch a sequence of nodes of the same length and every audit level.     *)
LEMMA NodeUpdate ==
  ASSUME NEW seq \in Seq(Node), NEW i \in 1..Len(seq), NEW e \in Node,
         e.audit = seq[i].audit
  PROVE  /\ [seq EXCEPT ![i] = e] \in Seq(Node)
         /\ Len([seq EXCEPT ![i] = e]) = Len(seq)
         /\ \A j \in 1..Len(seq) : [seq EXCEPT ![i] = e][j].audit = seq[j].audit
  <1>1. /\ [seq EXCEPT ![i] = e] \in Seq(Node)
        /\ Len([seq EXCEPT ![i] = e]) = Len(seq)
        /\ \A j \in 1..Len(seq) : [seq EXCEPT ![i] = e][j] = IF j = i THEN e ELSE seq[j]
    BY UpdateAt
  <1>2. QED
    BY <1>1

(* Appending a node to the batch keeps it a sequence of nodes. *)
LEMMA AppendNode ==
  ASSUME NEW seq \in Seq(Node), NEW e \in Node
  PROVE  /\ Append(seq, e) \in Seq(Node)
         /\ Len(Append(seq, e)) = Len(seq) + 1
         /\ \A i \in 1..Len(seq) : Append(seq, e)[i] = seq[i]
         /\ Append(seq, e)[Len(seq) + 1] = e
  BY AppendProperties

(* The batch gate reads only the audit levels and the two session flags.  *)
LEMMA GateStable ==
  ASSUME Len(cache') = Len(cache),
         \A j \in 1..Len(cache) : cache'[j].audit = cache[j].audit,
         ignoreWarnings' = ignoreWarnings, force' = force
  PROVE  GateOK' = GateOK
  BY DEF GateOK

(* The end of a loop iteration keeps the loop index inside the batch, and  *)
(* the connection it closes after the last statement was counted.          *)
LEMMA AdvanceProps ==
  ASSUME IInv, InLoop, Advance, Len(cache') = Len(cache),
         auditConn' = auditConn
  PROVE  /\ pc' \in {"loop", "finish"}
         /\ idx' \in Nat
         /\ execTid' \in Tids /\ connTid' \in Tids /\ handles' \in Nat
         /\ LoopInv' /\ HandlesLower'
  <1>1. /\ idx \in 1..Len(cache) /\ connTid # 0
        /\ handles >= (IF auditConn = "open" THEN 1 ELSE 0) + 1
        /\ TypeOK
    BY DEF IInv, LoopInv, HandlesLower
  <1>2. Len(cache) \in Nat
    BY <1>1, LenProperties DEF TypeOK
  <1>3. CASE idx < Len(cache)
    BY <1>1, <1>2, <1>3 DEF Advance, LoopInv, InLoop, HandlesLower, TypeOK
  <1>4. CASE ~(idx < Len(cache))
    BY <1>1, <1>2, <1>4, MaxBatchesAssumption
    DEF Advance, LoopInv, InLoop, HandlesLower, TypeOK, Tids
  <1>5. QED
    BY <1>3, <1>4

-----------------------------------------------------------------------------
(* The strengthened invariant holds in the initial state. *)
LEMMA InitIInv == Init => IInv
  <1> SUFFICES ASSUME Init PROVE IInv
    OBVIOUS
  <1>1. cache \in Seq(Node) /\ Len(cache) = 0
    BY EmptySeq DEF Init
  <1>2. TypeOK
    <2>1. 0 \in Tids /\ 0 \in 0..MaxStmts /\ 0 \in 0..MaxBatches /\ 0 <= MaxStmts
      BY MaxStmtsAssumption, MaxBatchesAssumption DEF Tids
    <2>2. QED
      BY <1>1, <2>1 DEF Init, TypeOK, Modes, PCs
  <1>3. TidInv /\ HandlesLower /\ LoopInv
    BY DEF Init, TidInv, HandlesLower, LoopInv, InLoop
  <1>4. IdleClean /\ GateInv
    BY <1>1 DEF Init, IdleClean, GateInv, InLoop
  <1>5. QED
    BY <1>2, <1>3, <1>4 DEF IInv

(* Every step of the session, of the admin thread and of the environment  *)
(* preserves the strengthened invariant.                                  *)
LEMMA NextIInv == IInv /\ [Next]_vars => IInv'
  <1> SUFFICES ASSUME IInv, [Next]_vars PROVE IInv'
    OBVIOUS
  <1> USE MaxStmtsAssumption, MaxBatchesAssumption, FlagsAssumption
  <1>0. /\ TypeOK /\ TidInv /\ HandlesLower /\ LoopInv /\ IdleClean /\ GateInv
        /\ Len(cache) \in Nat
    BY LenProperties DEF IInv, TypeOK
  \* the steps that leave the client with an empty, fresh batch
  <1>e. /\ << >> \in Seq(Node) /\ Len(<< >>) = 0
        /\ 0 \in Tids /\ 0 \in 0..MaxStmts /\ 0 <= MaxStmts
    BY EmptySeq DEF Tids
  <1>1. CASE MagicStart
    <2>0. /\ pc = "idle" /\ batches < MaxBatches
          /\ killed' = FALSE /\ execTid' = 0 /\ cache' = << >> /\ others' = 0
          /\ batches' = batches + 1
          /\ UNCHANGED <<pc, idx, stopExec, hasError, connTid, nextTid, aborted,
                         pendingKill>>
      BY <1>1 DEF MagicStart
    <2>1. PICK m \in Modes, f, iw \in BOOLEAN, ok \in BOOLEAN :
            /\ active' = TRUE /\ mode' = m /\ force' = f /\ ignoreWarnings' = iw
            /\ auditConn' = IF ok THEN "open" ELSE "failed"
            /\ handles' = ClosedAudit + (IF ok THEN 1 ELSE 0)
      BY <1>1 DEF MagicStart
    <2>2. connTid = 0 /\ ClosedAudit \in Nat
      BY <1>0, <2>0 DEF LoopInv, InLoop, HandlesLower, ClosedAudit, TypeOK
    <2>3. TypeOK'
      <3>1. /\ cache' \in Seq(Node) /\ Len(cache') <= MaxStmts
            /\ others' \in 0..MaxStmts /\ execTid' \in Tids
        BY <1>e, <2>0
      <3>2. batches' \in 0..MaxBatches /\ handles' \in Nat
        BY <1>0, <2>0, <2>1, <2>2 DEF TypeOK
      <3>3. auditConn' \in {"none", "open", "failed"}
        BY <2>1
      <3>4. QED
        BY <1>0, <2>0, <2>1, <3>1, <3>2, <3>3 DEF TypeOK
    <2>4. TidInv' /\ HandlesLower' /\ LoopInv'
      BY <1>0, <2>0, <2>1, <2>2 DEF TidInv, HandlesLower, LoopInv, InLoop, TypeOK
    <2>5. IdleClean' /\ GateInv'
      BY <1>e, <2>0 DEF IdleClean, GateInv, InLoop
    <2>6. QED
      BY <2>3, <2>4, <2>5 DEF IInv
  \* the steps that end in reset() with the owner thread between statements
  <1>r. ASSUME Reset, pc' = "idle", connTid' = 0, handles' \in Nat,
               handles' >= 0,
               UNCHANGED <<idx, stopExec, hasError, nextTid, aborted,
                           pendingKill>>,
               batches' \in 0..MaxBatches, nextTid <= batches'
        PROVE  IInv'
    <2>1. TypeOK'
      BY <1>0, <1>e, <1>r DEF Reset, TypeOK, Modes, PCs
    <2>2. TidInv' /\ HandlesLower' /\ LoopInv'
      BY <1>r DEF Reset, TidInv, HandlesLower, LoopInv, InLoop
    <2>3. IdleClean' /\ GateInv'
      BY <1>e, <1>r DEF Reset, IdleClean, GateInv, InLoop
    <2>4. QED
      BY <2>1, <2>2, <2>3 DEF IInv
  <1>2. CASE MagicStartParseFail
    <2>1. /\ pc = "idle" /\ batches < MaxBatches /\ Reset
          /\ handles' = ClosedAudit /\ batches' = batches + 1
          /\ UNCHANGED <<pc, idx, stopExec, hasError, connTid, nextTid, aborted,
                         pendingKill>>
      BY <1>2 DEF MagicStartParseFail
    <2>2. connTid = 0 /\ ClosedAudit \in Nat
      BY <1>0, <2>1 DEF LoopInv, InLoop, HandlesLower, ClosedAudit, TypeOK
    <2>3. QED
      BY <1>0, <1>r, <2>1, <2>2 DEF TidInv, TypeOK
  <1>3. CASE Intercept
    <2>0. /\ pc = "idle" /\ Len(cache) < MaxStmts
          /\ UNCHANGED <<active, mode, force, ignoreWarnings, killed, others, pc,
                         idx, stopExec, hasError, execTid, connTid, nextTid,
                         aborted, pendingKill, batches>>
      BY <1>3 DEF Intercept, execVars
    <2>1. PICK ok \in BOOLEAN, a \in Levels :
            LET conn == IF auditConn = "none"
                        THEN (IF ok THEN "open" ELSE "failed") ELSE auditConn
                l    == IF conn = "failed" THEN Raise(a, 2) ELSE a
            IN /\ auditConn' = conn
               /\ handles' = IF auditConn = "none" /\ conn = "open"
                             THEN handles + 1 ELSE handles
               /\ cache' = Append(cache, [audit |-> l, lvl |-> l,
                                          stage |-> "CHECKED",
                                          status |-> "Audit completed",
                                          ran |-> FALSE])
      BY <1>3 DEF Intercept
    <2> DEFINE conn == IF auditConn = "none"
                       THEN (IF ok THEN "open" ELSE "failed") ELSE auditConn
               l    == IF conn = "failed" THEN Raise(a, 2) ELSE a
               n    == [audit |-> l, lvl |-> l, stage |-> "CHECKED",
                        status |-> "Audit completed", ran |-> FALSE]
    <2>2. n \in Node /\ ~n.ran /\ n.lvl = n.audit
      <3>1. l \in Levels
        BY RaiseLevel DEF Levels
      <3>2. QED
        BY <3>1 DEF Node, Stages, Statuses
    <2>3. /\ cache' \in Seq(Node)
          /\ Len(cache') = Len(cache) + 1
          /\ \A i \in 1..Len(cache) : cache'[i] = cache[i]
          /\ ~cache'[Len(cache) + 1].ran
          /\ cache'[Len(cache) + 1].lvl = cache'[Len(cache) + 1].audit
      <3>1. cache' = Append(cache, n)
        BY <2>1
      <3>2. cache \in Seq(Node)
        BY <1>0 DEF TypeOK
      <3>3. /\ Append(cache, n) \in Seq(Node)
            /\ Len(Append(cache, n)) = Len(cache) + 1
            /\ \A i \in 1..Len(cache) : Append(cache, n)[i] = cache[i]
            /\ Append(cache, n)[Len(cache) + 1] = n
        BY <3>2, <2>2, AppendNode
      <3>4. QED
        BY <2>2, <3>1, <3>3
    <2>4. /\ auditConn' \in {"none", "open", "failed"}
          /\ handles' \in Nat
          /\ HandlesLower'
      <3>1. /\ auditConn' = conn
            /\ handles' = IF auditConn = "none" /\ conn = "open"
                          THEN handles + 1 ELSE handles
        BY <2>1
      <3>2. QED
        BY <1>0, <2>0, <3>1 DEF TypeOK, HandlesLower
    <2>5. TypeOK'
      BY <1>0, <2>0, <2>3, <2>4 DEF TypeOK
    <2>6. TidInv' /\ LoopInv'
      BY <1>0, <2>0, <2>3 DEF TidInv, LoopInv, InLoop
    <2>7. IdleClean'
      BY <1>0, <2>0, <2>3 DEF IdleClean
    <2>8. GateInv'
      BY <2>0, <2>7 DEF GateInv, IdleClean, InLoop
    <2>9. QED
      BY <2>4, <2>5, <2>6, <2>7, <2>8 DEF IInv
  <1>4. CASE ParseError
    <2>0. /\ pc = "idle" /\ Len(cache) < MaxStmts
          /\ UNCHANGED <<active, mode, force, ignoreWarnings, killed, auditConn,
                         others, pc, idx, stopExec, hasError, execTid, connTid,
                         nextTid, aborted, pendingKill, handles, batches>>
      BY <1>4 DEF ParseError, execVars
    <2> DEFINE n == [audit |-> 2, lvl |-> 2, stage |-> "CHECKED",
                     status |-> "Audit completed", ran |-> FALSE]
    <2>1. n \in Node /\ ~n.ran /\ n.lvl = n.audit
      BY DEF Node, Levels, Stages, Statuses
    <2>2. /\ cache' \in Seq(Node)
          /\ Len(cache') = Len(cache) + 1
          /\ \A i \in 1..Len(cache) : cache'[i] = cache[i]
          /\ ~cache'[Len(cache) + 1].ran
          /\ cache'[Len(cache) + 1].lvl = cache'[Len(cache) + 1].audit
      <3>1. cache' = Append(cache, n)
        BY <1>4 DEF ParseError
      <3>2. cache \in Seq(Node)
        BY <1>0 DEF TypeOK
      <3>3. /\ Append(cache, n) \in Seq(Node)
            /\ Len(Append(cache, n)) = Len(cache) + 1
            /\ \A i \in 1..Len(cache) : Append(cache, n)[i] = cache[i]
            /\ Append(cache, n)[Len(cache) + 1] = n
        BY <3>2, <2>1, AppendNode
      <3>4. QED
        BY <2>1, <3>1, <3>3
    <2>3. TypeOK' /\ TidInv' /\ HandlesLower' /\ LoopInv'
      BY <1>0, <2>0, <2>2 DEF TypeOK, TidInv, HandlesLower, LoopInv, InLoop
    <2>4. IdleClean'
      BY <1>0, <2>0, <2>2 DEF IdleClean
    <2>5. GateInv'
      BY <2>0, <2>4 DEF GateInv, IdleClean, InLoop
    <2>6. QED
      BY <2>3, <2>4, <2>5 DEF IInv
  <1>5. CASE InterceptOther
    BY <1>0, <1>5 DEF InterceptOther, execVars, IInv, TypeOK, TidInv,
       HandlesLower, LoopInv, InLoop, IdleClean, GateInv, GateOK
  <1>6. CASE CommitNoExec
    <2>1. /\ pc = "idle" /\ Reset /\ handles' = ClosedAudit
          /\ UNCHANGED <<pc, idx, stopExec, hasError, connTid, nextTid, aborted,
                         pendingKill, batches>>
      BY <1>6 DEF CommitNoExec
    <2>2. connTid = 0 /\ ClosedAudit \in Nat
      BY <1>0, <2>1 DEF LoopInv, InLoop, HandlesLower, ClosedAudit, TypeOK
    <2>3. QED
      BY <1>0, <1>r, <2>1, <2>2 DEF TidInv, TypeOK
  <1>7. CASE Disconnect
    <2>1. /\ pc = "idle" /\ Reset
          /\ UNCHANGED <<pc, idx, stopExec, hasError, connTid, nextTid, aborted,
                         pendingKill, handles, batches>>
      BY <1>7 DEF Disconnect
    <2>2. connTid = 0
      BY <1>0, <2>1 DEF LoopInv, InLoop
    <2>3. QED
      BY <1>0, <1>r, <2>1, <2>2 DEF TidInv, TypeOK
  \* killed, or the connection failed: every node marked, nothing sent
  <1>m. ASSUME NEW st \in Stages, NEW t \in Statuses, NEW x \in Levels,
               pc = "idle", cache' = MarkAll(st, t, x), pc' = "finish",
               UNCHANGED <<active, mode, force, ignoreWarnings, killed, auditConn,
                           others, idx, stopExec, hasError, execTid, connTid,
                           nextTid, aborted, pendingKill, handles, batches>>
        PROVE  IInv'
    <2>1. /\ MarkAll(st, t, x) \in Seq(Node)
          /\ Len(MarkAll(st, t, x)) = Len(cache)
          /\ \A i \in 1..Len(cache) : MarkAll(st, t, x)[i].ran = cache[i].ran
      BY <1>0, MarkAllProps DEF TypeOK
    <2>2. TypeOK'
      BY <1>0, <1>m, <2>1 DEF TypeOK, PCs
    <2>3. TidInv' /\ HandlesLower' /\ LoopInv'
      BY <1>0, <1>m DEF TidInv, HandlesLower, LoopInv, InLoop
    <2>4. ~\E i \in 1..Len(cache') : cache'[i].ran
      BY <1>0, <1>m, <2>1 DEF IdleClean
    <2>5. IdleClean' /\ GateInv'
      BY <1>m, <2>4 DEF IdleClean, GateInv, InLoop
    <2>6. QED
      BY <2>2, <2>3, <2>5 DEF IInv
  <1>8. CASE ExecStartKilled
    <2>1. /\ pc = "idle" /\ pc' = "finish"
          /\ cache' = MarkAll("EXECUTED", "Killed by user", 0)
          /\ UNCHANGED <<active, mode, force, ignoreWarnings, killed, auditConn,
                         others, idx, stopExec, hasError, execTid, connTid,
                         nextTid, aborted, pendingKill, handles, batches>>
      BY <1>8 DEF ExecStartKilled, ExecCommit
    <2>2. "EXECUTED" \in Stages /\ "Killed by user" \in Statuses /\ 0 \in Levels
      BY DEF Stages, Statuses, Levels
    <2>3. QED
      BY <1>m, <2>1, <2>2
  <1>9. CASE ExecConnectFail
    <2>1. /\ pc = "idle" /\ pc' = "finish"
          /\ cache' = MarkAll("EXECUTED", "Execute failed", 2)
          /\ UNCHANGED <<active, mode, force, ignoreWarnings, killed, auditConn,
                         others, idx, stopExec, hasError, execTid, connTid,
                         nextTid, aborted, pendingKill, handles, batches>>
      BY <1>9 DEF ExecConnectFail, ExecCommit
    <2>2. "EXECUTED" \in Stages /\ "Execute failed" \in Statuses /\ 2 \in Levels
      BY DEF Stages, Statuses, Levels
    <2>3. QED
      BY <1>m, <2>1, <2>2
  <1>10. CASE ExecPrescanBlocked
    <2>0. /\ pc = "idle" /\ active
          /\ nextTid' = nextTid + 1 /\ execTid' = nextTid + 1 /\ pc' = "finish"
          /\ UNCHANGED <<active, mode, force, ignoreWarnings, killed, auditConn,
                         cache, others, idx, stopExec, hasError, connTid, aborted,
                         pendingKill, handles, batches>>
      BY <1>10 DEF ExecPrescanBlocked, ExecCommit
    <2>1. nextTid + 1 \in Tids /\ nextTid + 1 <= batches
      BY <1>0, <2>0 DEF TidInv, TypeOK, Tids
    <2>2. TypeOK' /\ TidInv' /\ HandlesLower' /\ LoopInv'
      BY <1>0, <2>0, <2>1 DEF TypeOK, PCs, TidInv, HandlesLower, LoopInv, InLoop
    <2>3. IdleClean' /\ GateInv'
      BY <1>0, <2>0 DEF IdleClean, GateInv, InLoop
    <2>4. QED
      BY <2>2, <2>3 DEF IInv
  <1>11. CASE ExecBegin
    <2>0. /\ pc = "idle" /\ active /\ cache # << >> /\ ~Blocked
          /\ nextTid' = nextTid + 1 /\ execTid' = nextTid + 1
          /\ connTid' = nextTid + 1 /\ handles' = handles + 1
          /\ pc' = "loop" /\ idx' = 1
          /\ stopExec' = FALSE /\ hasError' = FALSE
          /\ UNCHANGED <<active, mode, force, ignoreWarnings, killed, auditConn,
                         cache, others, aborted, pendingKill, batches>>
      BY <1>11 DEF ExecBegin, ExecCommit
    <2>1. nextTid + 1 \in Tids /\ nextTid + 1 <= batches /\ nextTid + 1 # 0
      BY <1>0, <2>0 DEF TidInv, TypeOK, Tids
    <2>2. 1 \in 1..Len(cache)
      BY <1>0, <2>0, EmptySeq DEF TypeOK
    <2>3. GateOK
      <3> SUFFICES ASSUME NEW j \in 1..Len(cache)
                   PROVE  cache[j].audit = 0
                          \/ (ignoreWarnings /\ (cache[j].audit = 2 => force))
        BY DEF GateOK
      <3>1. cache[j] \in Node
        BY <1>0, ElementOfSeq DEF TypeOK
      <3>2. cache[j].lvl = cache[j].audit
        BY <1>0, <2>0 DEF IdleClean
      <3>3. ~(cache[j].lvl >= 2 /\ ~force) /\ ~(cache[j].lvl >= 1 /\ ~ignoreWarnings)
        BY <2>0 DEF Blocked
      <3>4. QED
        BY <3>1, <3>2, <3>3 DEF Node, Levels
    <2>4. TypeOK'
      <3>1. /\ nextTid' \in Tids /\ execTid' \in Tids /\ connTid' \in Tids
            /\ handles' \in Nat /\ idx' \in Nat /\ pc' \in PCs
            /\ stopExec' \in BOOLEAN /\ hasError' \in BOOLEAN
        <4>1. handles \in Nat
          BY <1>0 DEF TypeOK
        <4>2. handles + 1 \in Nat /\ 1 \in Nat
          BY <4>1
        <4>3. QED
          BY <2>0, <2>1, <4>2, Zenon DEF PCs
      <3>2. QED
        BY <1>0, <2>0, <3>1 DEF TypeOK
    <2>8. TidInv' /\ HandlesLower' /\ LoopInv'
      BY <1>0, <2>0, <2>1, <2>2 DEF TidInv, HandlesLower, LoopInv, InLoop, TypeOK
    <2>5. GateOK'
      BY <2>0, <2>3 DEF GateOK
    <2>6. IdleClean' /\ GateInv'
      BY <2>0, <2>5 DEF IdleClean, GateInv
    <2>7. QED
      BY <2>4, <2>6, <2>8 DEF IInv
  \* one iteration of the statement loop rewrites the node at idx and
  \* advances
  <1>l. ASSUME NEW e \in Node, e.audit = cache[idx].audit, InLoop,
               cache' = [cache EXCEPT ![idx] = e], Advance,
               UNCHANGED <<active, mode, force, ignoreWarnings, killed, auditConn,
                           others, nextTid, pendingKill, batches>>,
               stopExec' \in BOOLEAN, hasError' \in BOOLEAN, aborted' \in BOOLEAN
        PROVE  IInv'
    <2>1. idx \in 1..Len(cache) /\ cache \in Seq(Node)
      BY <1>0, <1>l DEF LoopInv, TypeOK
    <2>2. /\ cache' \in Seq(Node)
          /\ Len(cache') = Len(cache)
          /\ \A j \in 1..Len(cache) : cache'[j].audit = cache[j].audit
      BY <1>l, <2>1, NodeUpdate
    <2>3. /\ pc' \in {"loop", "finish"}
          /\ idx' \in Nat
          /\ execTid' \in Tids /\ connTid' \in Tids /\ handles' \in Nat
          /\ LoopInv' /\ HandlesLower'
      BY <1>l, <2>2, AdvanceProps
    <2>4. TypeOK'
      BY <1>0, <1>l, <2>2, <2>3 DEF TypeOK, PCs
    <2>5. TidInv'
      BY <1>0, <1>l, <2>3 DEF TidInv
    <2>6. GateOK'
      BY <1>0, <1>l, <2>2, GateStable DEF GateInv
    <2>7. IdleClean' /\ GateInv'
      BY <2>3, <2>6 DEF IdleClean, GateInv
    <2>8. QED
      BY <2>3, <2>4, <2>5, <2>7 DEF IInv
  <1>12. CASE LoopKilled
    <2>1. idx \in 1..Len(cache) /\ cache[idx] \in Node
      BY <1>0, <1>12, ElementOfSeq DEF LoopKilled, LoopInv, InLoop, TypeOK
    <2> DEFINE e == [cache[idx] EXCEPT !.stage = "EXECUTED", !.status = "Killed by user"]
    <2>2. e \in Node /\ e.audit = cache[idx].audit
      BY <2>1 DEF Node, Stages, Statuses
    <2>3. cache' = [cache EXCEPT ![idx] = e]
      BY <1>12 DEF LoopKilled
    <2>4. QED
      BY <1>0, <1>12, <1>l, <2>2, <2>3 DEF LoopKilled, InLoop, TypeOK
  <1>13. CASE LoopSkip
    <2>1. idx \in 1..Len(cache) /\ cache[idx] \in Node
      BY <1>0, <1>13, ElementOfSeq DEF LoopSkip, LoopInv, InLoop, TypeOK
    <2> DEFINE e == [cache[idx] EXCEPT !.stage = "SKIPPED",
                       !.status = "Skipped due to prior error", !.lvl = 2]
    <2>2. e \in Node /\ e.audit = cache[idx].audit
      <3>1. 2 \in Levels
        BY DEF Levels
      <3>2. QED
        BY <2>1, <3>1 DEF Node, Stages, Statuses
    <2>3. cache' = [cache EXCEPT ![idx] = e]
      BY <1>13 DEF LoopSkip
    <2>4. QED
      BY <1>0, <1>13, <1>l, <2>2, <2>3 DEF LoopSkip, InLoop, TypeOK
  <1>14. CASE PrecheckFail
    <2>1. idx \in 1..Len(cache) /\ cache[idx] \in Node
      BY <1>0, <1>14, ElementOfSeq DEF PrecheckFail, LoopInv, InLoop, TypeOK
    <2> DEFINE e == [cache[idx] EXCEPT !.stage = "CHECKED",
                       !.status = "Pre-check failed", !.lvl = 2]
    <2>2. e \in Node /\ e.audit = cache[idx].audit
      <3>1. 2 \in Levels
        BY DEF Levels
      <3>2. QED
        BY <2>1, <3>1 DEF Node, Stages, Statuses
    <2>3. cache' = [cache EXCEPT ![idx] = e]
      BY <1>14 DEF PrecheckFail
    <2>4. QED
      BY <1>0, <1>14, <1>l, <2>2, <2>3 DEF PrecheckFail, InLoop, TypeOK
  <1>15. CASE PrecheckPass
    BY <1>15 DEF PrecheckPass, execVars, IInv, TypeOK, TidInv,
       HandlesLower, LoopInv, InLoop, IdleClean, GateInv, GateOK, PCs
  <1>16. CASE ThrottleClear
    BY <1>16 DEF ThrottleClear, execVars, IInv, TypeOK, TidInv,
       HandlesLower, LoopInv, InLoop, IdleClean, GateInv, GateOK, PCs
  <1>17. CASE RunStatement
    <2>1. idx \in 1..Len(cache) /\ cache[idx] \in Node
      BY <1>0, <1>17, ElementOfSeq DEF RunStatement, LoopInv, InLoop, TypeOK
    <2>2. PICK fail \in BOOLEAN, w \in Levels :
            /\ aborted => fail
            /\ cache' = [cache EXCEPT ![idx] = ExecuteOne(cache[idx], fail, w)]
            /\ hasError' = (hasError \/ fail)
            /\ stopExec' = (stopExec \/ (fail /\ ~force))
      BY <1>17 DEF RunStatement
    <2> DEFINE e == ExecuteOne(cache[idx], fail, w)
    <2>3. Raise(cache[idx].lvl, IF fail THEN 2 ELSE w) \in Levels
      BY <2>1, RaiseLevel DEF Node, Levels
    <2>4. e \in Node /\ e.audit = cache[idx].audit
      BY <2>1, <2>3 DEF ExecuteOne, Node, Stages, Statuses
    <2>5. cache' = [cache EXCEPT ![idx] = e]
      BY <2>2
    <2>6. QED
      BY <1>0, <1>17, <1>l, <2>2, <2>4, <2>5 DEF RunStatement, InLoop, TypeOK
  <1>18. CASE CommitFinish
    <2>1. /\ pc = "finish" /\ Reset /\ handles' = ClosedAudit /\ pc' = "idle"
          /\ UNCHANGED <<idx, stopExec, hasError, connTid, nextTid, aborted,
                         pendingKill, batches>>
      BY <1>18 DEF CommitFinish
    <2>2. connTid = 0 /\ ClosedAudit \in Nat
      BY <1>0, <2>1 DEF LoopInv, InLoop, HandlesLower, ClosedAudit, TypeOK
    <2>3. QED
      BY <1>0, <1>r, <2>1, <2>2 DEF TidInv, TypeOK
  <1>19. CASE KillSession
    BY <1>19 DEF KillSession, execVars, IInv, TypeOK, TidInv,
       HandlesLower, LoopInv, InLoop, IdleClean, GateInv, GateOK, Tids
  <1>20. CASE KillRemote
    BY <1>20 DEF KillRemote, execVars, IInv, TypeOK, TidInv,
       HandlesLower, LoopInv, InLoop, IdleClean, GateInv, GateOK, Tids
  <1>21. CASE UNCHANGED vars
    BY <1>21 DEF vars, IInv, TypeOK, TidInv,
       HandlesLower, LoopInv, InLoop, IdleClean, GateInv, GateOK
  <1>22. QED
    BY <1>1, <1>2, <1>3, <1>4, <1>5, <1>6, <1>7, <1>8, <1>9, <1>10, <1>11,
       <1>12, <1>13, <1>14, <1>15, <1>16, <1>17, <1>18, <1>19, <1>20, <1>21
    DEF Next, OwnerStep

-----------------------------------------------------------------------------
(* Every reachable state of a session is well typed: levels stay levels,   *)
(* the batch stays within MaxStmts nodes and every remote thread id is one *)
(* the target handed out.                                                  *)
THEOREM TypeCorrect == Spec => []TypeOK
  <1>1. IInv => TypeOK
    BY DEF IInv
  <1>2. QED
    BY <1>1, InitIInv, NextIInv, PTL DEF Spec

(* GateRespected for every MaxStmts and MaxBatches: execute_statements    *)
(* sends a statement to the remote only when the pre-scan of the whole    *)
(* batch passed, i.e. every audit level is 0, or warnings are ignored and *)
(* errors are forced.                                                     *)
THEOREM GateSafety == Spec => []GateRespected
  <1>1. IInv => GateRespected
    BY DEF IInv, GateInv, GateRespected
  <1>2. QED
    BY <1>1, InitIInv, NextIInv, PTL DEF Spec

(* The admin thread's captured thread id never aborts a statement of a   *)
(* session that was not killed: KillInv is preserved by every step.       *)
LEMMA NextKillInv == IInv /\ KillInv /\ [Next]_vars => KillInv'
  <1> SUFFICES ASSUME IInv, KillInv, [Next]_vars PROVE KillInv'
    OBVIOUS
  <1> USE MaxBatchesAssumption
  <1>0. /\ nextTid \in Nat /\ execTid \in Nat /\ connTid \in Nat
        /\ pendingKill \in Nat /\ aborted \in BOOLEAN /\ killed \in BOOLEAN
        /\ pc \in {"idle", "finish"} => connTid = 0 /\ ~aborted
        /\ pc = "loop" => ~aborted
        /\ KillInv
    BY DEF IInv, TypeOK, Tids, LoopInv, InLoop, KillInv
  <1>1. CASE MagicStart
    <2>1. pc = "idle" /\ killed' = FALSE /\ execTid' = 0 /\ UNCHANGED <<aborted, pc, pendingKill, nextTid, connTid>>
      BY <1>1 DEF MagicStart
    <2>2. QED
      BY <1>0, <2>1 DEF KillInv
  <1>2. CASE MagicStartParseFail
    <2>1. pc = "idle" /\ killed' = FALSE /\ execTid' = 0 /\ UNCHANGED <<aborted, pc, pendingKill, nextTid, connTid>>
      BY <1>2 DEF MagicStartParseFail, Reset
    <2>2. QED
      BY <1>0, <2>1 DEF KillInv
  <1>3. CASE Intercept
    <2>1. UNCHANGED <<aborted, pc, killed, pendingKill, nextTid, execTid, connTid>>
      BY <1>3 DEF Intercept, execVars
    <2>2. QED
      BY <1>0, <2>1 DEF KillInv
  <1>4. CASE ParseError
    <2>1. UNCHANGED <<aborted, pc, killed, pendingKill, nextTid, execTid, connTid>>
      BY <1>4 DEF ParseError, execVars
    <2>2. QED
      BY <1>0, <2>1 DEF KillInv
  <1>5. CASE InterceptOther
    <2>1. UNCHANGED <<aborted, pc, killed, pendingKill, nextTid, execTid, connTid>>
      BY <1>5 DEF InterceptOther, execVars
    <2>2. QED
      BY <1>0, <2>1 DEF KillInv
  <1>6. CASE CommitNoExec
    <2>1. pc = "idle" /\ killed' = FALSE /\ execTid' = 0 /\ UNCHANGED <<aborted, pc, pendingKill, nextTid, connTid>>
      BY <1>6 DEF CommitNoExec, Reset
    <2>2. QED
      BY <1>0, <2>1 DEF KillInv
  <1>7. CASE Disconnect
    <2>1. pc = "idle" /\ killed' = FALSE /\ execTid' = 0 /\ UNCHANGED <<aborted, pc, pendingKill, nextTid, connTid>>
      BY <1>7 DEF Disconnect, Reset
    <2>2. QED
      BY <1>0, <2>1 DEF KillInv
  <1>8. CASE ExecStartKilled
    <2>1. pc = "idle" /\ pc' = "finish" /\ UNCHANGED <<aborted, killed, pendingKill, nextTid, execTid, connTid>>
      BY <1>8 DEF ExecStartKilled, ExecCommit
    <2>2. QED
      BY <1>0, <2>1 DEF KillInv
  <1>9. CASE ExecConnectFail
    <2>1. pc = "idle" /\ pc' = "finish" /\ UNCHANGED <<aborted, killed, pendingKill, nextTid, execTid, connTid>>
      BY <1>9 DEF ExecConnectFail, ExecCommit
    <2>2. QED
      BY <1>0, <2>1 DEF KillInv
  <1>10. CASE ExecPrescanBlocked
    <2>1. pc = "idle" /\ pc' = "finish" /\ nextTid' = nextTid + 1 /\ execTid' = nextTid + 1 /\ UNCHANGED <<aborted, killed, pendingKill, connTid>>
      BY <1>10 DEF ExecPrescanBlocked, ExecCommit
    <2>2. QED
      BY <1>0, <2>1 DEF KillInv
  <1>11. CASE ExecBegin
    <2>1. pc = "idle" /\ pc' = "loop" /\ nextTid' = nextTid + 1 /\ execTid' = nextTid + 1 /\ connTid' = nextTid + 1 /\ UNCHANGED <<aborted, killed, pendingKill>>
      BY <1>11 DEF ExecBegin, ExecCommit
    <2>2. QED
      BY <1>0, <2>1 DEF KillInv
  <1>12. CASE LoopKilled
    <2>1. pc = "loop" /\ pc' \in {"loop", "finish"} /\ UNCHANGED <<aborted, killed, pendingKill, nextTid>> /\ (execTid' = execTid \/ execTid' = 0) /\ (connTid' = connTid \/ connTid' = 0)
      BY <1>12 DEF LoopKilled, Advance
    <2>2. QED
      BY <1>0, <2>1 DEF KillInv
  <1>13. CASE LoopSkip
    <2>1. pc = "loop" /\ pc' \in {"loop", "finish"} /\ UNCHANGED <<aborted, killed, pendingKill, nextTid>> /\ (execTid' = execTid \/ execTid' = 0) /\ (connTid' = connTid \/ connTid' = 0)
      BY <1>13 DEF LoopSkip, Advance
    <2>2. QED
      BY <1>0, <2>1 DEF KillInv
  <1>14. CASE PrecheckFail
    <2>1. pc = "loop" /\ pc' \in {"loop", "finish"} /\ UNCHANGED <<aborted, killed, pendingKill, nextTid>> /\ (execTid' = execTid \/ execTid' = 0) /\ (connTid' = connTid \/ connTid' = 0)
      BY <1>14 DEF PrecheckFail, Advance
    <2>2. QED
      BY <1>0, <2>1 DEF KillInv
  <1>15. CASE PrecheckPass
    <2>1. pc = "loop" /\ pc' \in {"wait", "run"} /\ UNCHANGED <<aborted, killed, pendingKill, nextTid, execTid, connTid>>
      BY <1>15 DEF PrecheckPass, execVars
    <2>2. QED
      BY <1>0, <2>1 DEF KillInv
  <1>16. CASE ThrottleClear
    <2>1. pc = "wait" /\ pc' = "run" /\ UNCHANGED <<aborted, killed, pendingKill, nextTid, execTid, connTid>>
      BY <1>16 DEF ThrottleClear, execVars
    <2>2. QED
      BY <1>0, <2>1 DEF KillInv
  <1>17. CASE RunStatement
    <2>1. aborted' = FALSE /\ pc' \in {"loop", "finish"} /\ UNCHANGED <<killed, pendingKill, nextTid>> /\ (execTid' = execTid \/ execTid' = 0) /\ (connTid' = connTid \/ connTid' = 0)
      BY <1>17 DEF RunStatement, Advance
    <2>2. QED
      BY <1>0, <2>1 DEF KillInv
  <1>18. CASE CommitFinish
    <2>1. pc = "finish" /\ pc' = "idle" /\ killed' = FALSE /\ execTid' = 0 /\ UNCHANGED <<aborted, pendingKill, nextTid, connTid>>
      BY <1>18 DEF CommitFinish, Reset
    <2>2. QED
      BY <1>0, <2>1 DEF KillInv
  <1>19. CASE KillSession
    <2>1. killed' = TRUE /\ (pendingKill' = execTid \/ pendingKill' = 0) /\ UNCHANGED <<aborted, pc, nextTid, execTid, connTid>>
      BY <1>19 DEF KillSession, execVars
    <2>2. QED
      BY <1>0, <2>1 DEF KillInv
  <1>20. CASE KillRemote
    <2>1. pendingKill # 0 /\ pendingKill' = 0 /\ aborted' = (aborted \/ (pc = "run" /\ connTid = pendingKill)) /\ UNCHANGED <<pc, killed, nextTid, execTid, connTid>>
      BY <1>20 DEF KillRemote, execVars
    <2>2. aborted' => pc' = "run" /\ killed'
      BY <1>0, <2>1 DEF KillInv
    <2>3. QED
      BY <1>0, <2>1, <2>2 DEF KillInv
  <1>21. CASE UNCHANGED vars
    BY <1>21 DEF vars, KillInv
  <1>22. QED
    BY <1>1, <1>2, <1>3, <1>4, <1>5, <1>6, <1>7, <1>8, <1>9, <1>10, <1>11,
       <1>12, <1>13, <1>14, <1>15, <1>16, <1>17, <1>18, <1>19, <1>20, <1>21
    DEF Next, OwnerStep

-----------------------------------------------------------------------------
(* A step at the loop head or of execute_one rewrites the current node     *)
(* only; it keeps StopInv when the node it writes is marked sent only by   *)
(* execute_one, and a node that stops the batch sets stop_exec or killed   *)
(* before the loop moves on.                                              *)
LEMMA LoopStepStop ==
  ASSUME IInv, StopInv, InLoop,
         NEW e \in Node, cache' = [cache EXCEPT ![idx] = e],
         force' = force, killed' = killed, stopExec => stopExec',
         pc' \in {"loop", "finish"}, pc' = "loop" => idx' = idx + 1,
         e.ran => pc \in {"wait", "run"},
         (pc' = "loop" /\ StopsBatch(e)) => stopExec' \/ killed'
  PROVE  StopInv'
  <1>1. idx \in 1..Len(cache) /\ cache \in Seq(Node)
    BY DEF IInv, LoopInv, TypeOK
  <1>2. /\ Len(cache') = Len(cache)
        /\ \A j \in 1..Len(cache) : cache'[j] = IF j = idx THEN e ELSE cache[j]
    BY <1>1, UpdateAt
  <1>0. ASSUME NEW i \in 1..Len(cache), (StopsBatch(cache[i]))'
        PROVE  StopsBatch(cache'[i])
    BY <1>0 DEF StopsBatch
  <1>3. StopRespected'
    <2> SUFFICES ASSUME NEW i \in 1..Len(cache), NEW j \in 1..Len(cache),
                        i < j, StopsBatch(cache'[i])
                 PROVE  ~cache'[j].ran
      BY <1>0, <1>2 DEF StopRespected
    <2>1. CASE i = idx
      <3>1. j # idx /\ cache'[j] = cache[j]
        BY <1>2, <2>1
      <3>2. cache[j].ran => j < idx
        BY DEF StopInv
      <3>. QED
        BY <2>1, <3>1, <3>2
    <2>2. CASE i # idx /\ j = idx
      <3>1. cache'[i] = cache[i] /\ cache'[j] = e
        BY <1>2, <2>2
      <3>2. e.ran => ~StopsBatch(cache[i])
        BY <2>2 DEF StopInv
      <3>. QED
        BY <3>1, <3>2 DEF StopsBatch
    <2>3. CASE i # idx /\ j # idx
      <3>1. cache'[i] = cache[i] /\ cache'[j] = cache[j]
        BY <1>2, <2>3
      <3>. QED
        BY <3>1 DEF StopInv, StopRespected, StopsBatch
    <2>. QED
      BY <2>1, <2>2, <2>3
  <1>4. (InLoop => \A j \in 1..Len(cache) : cache[j].ran => j < idx)'
    <2> SUFFICES ASSUME pc' = "loop", NEW j \in 1..Len(cache), cache'[j].ran
                 PROVE  j < idx'
      BY <1>2 DEF InLoop
    <2>1. CASE j = idx
      BY <1>1, <2>1
    <2>2. CASE j # idx
      BY <1>1, <1>2, <2>2 DEF StopInv
    <2>. QED
      BY <2>1, <2>2
  <1>5. ((InLoop /\ \E i \in 1..idx-1 : StopsBatch(cache[i])) => stopExec \/ killed)'
    <2> SUFFICES ASSUME pc' = "loop", NEW i \in 1..idx'-1, StopsBatch(cache'[i])
                 PROVE  stopExec' \/ killed'
      <3>1. ASSUME pc' = "loop", NEW i \in 1..idx'-1, (StopsBatch(cache[i]))'
            PROVE  StopsBatch(cache'[i])
        BY <3>1 DEF StopsBatch
      <3>. QED
        BY <3>1 DEF InLoop
    <2>1. CASE i = idx
      BY <1>1, <1>2, <2>1
    <2>2. CASE i # idx
      <3>1. i \in 1..idx-1 /\ cache'[i] = cache[i]
        BY <1>1, <1>2, <2>2
      <3>2. stopExec \/ killed
        BY <3>1 DEF StopInv, StopsBatch
      <3>. QED
        BY <3>2
    <2>. QED
      BY <2>1, <2>2
  <1>. QED
    BY <1>3, <1>4, <1>5 DEF StopInv

(* A remote KILL sent by "inception kill <id> force" only aborts a         *)
(* statement of a session that was killed, for every MaxStmts and         *)
(* MaxBatches: the remote_tid kill_session captures before it unlocks     *)
(* g_ctx_mutex never hits a statement of a later batch of the session.    *)
THEOREM AbortSafety == Spec => []AbortOnlyKilled
  <1>1. Init => KillInv
    BY DEF Init, KillInv
  <1>2. IInv /\ KillInv => AbortOnlyKilled
    BY DEF KillInv, AbortOnlyKilled
  <1>3. QED
    BY <1>1, <1>2, InitIInv, NextIInv, NextKillInv, PTL DEF Spec


(* Every step keeps StopInv, given the strengthening IInv. *)
LEMMA NextStopInv == IInv /\ StopInv /\ [Next]_vars => StopInv'
  <1> SUFFICES ASSUME IInv, StopInv, [Next]_vars PROVE StopInv'
    OBVIOUS
  <1> USE MaxStmtsAssumption, MaxBatchesAssumption, FlagsAssumption
  <1>0. IInv'
    BY NextIInv
  \* back between client statements: nothing of the new batch has run
  <1>1. CASE pc' = "idle"
    BY <1>0, <1>1 DEF IInv, IdleClean, StopInv, StopRespected, InLoop
  \* the commit starts and ends without sending anything
  <1>2. CASE ExecStartKilled \/ ExecConnectFail \/ ExecPrescanBlocked
    <2>1. pc = "idle" /\ pc' = "finish" /\ cache \in Seq(Node)
      BY <1>2 DEF ExecStartKilled, ExecConnectFail, ExecPrescanBlocked,
                  ExecCommit, IInv, TypeOK
    <2>2. \A j \in 1..Len(cache) : ~cache[j].ran
      BY <2>1 DEF IInv, IdleClean
    <2>3. Len(cache') = Len(cache) /\ \A j \in 1..Len(cache) : ~cache'[j].ran
      <3>1. CASE ExecStartKilled
        <4>1. "EXECUTED" \in Stages /\ "Killed by user" \in Statuses /\ 0 \in Levels
          BY DEF Stages, Statuses, Levels
        <4>. QED
          BY <2>1, <2>2, <3>1, <4>1, MarkAllProps DEF ExecStartKilled
      <3>2. CASE ExecConnectFail
        <4>1. "EXECUTED" \in Stages /\ "Execute failed" \in Statuses /\ 2 \in Levels
          BY DEF Stages, Statuses, Levels
        <4>. QED
          BY <2>1, <2>2, <3>2, <4>1, MarkAllProps DEF ExecConnectFail
      <3>3. CASE ExecPrescanBlocked
        BY <2>2, <3>3 DEF ExecPrescanBlocked
      <3>. QED
        BY <1>2, <3>1, <3>2, <3>3
    <2>. QED
      BY <2>1, <2>3 DEF StopInv, StopRespected, InLoop
  \* the loop is entered at the first statement, none sent yet
  <1>3. CASE ExecBegin
    <2>1. pc = "idle" /\ pc' = "loop" /\ idx' = 1 /\ UNCHANGED cache
      BY <1>3 DEF ExecBegin, ExecCommit
    <2>. QED
      BY <2>1 DEF IInv, IdleClean, StopInv, StopRespected, InLoop
  \* the loop head marks the current statement killed, skipped or failed
  <1>4. CASE LoopKilled \/ LoopSkip \/ PrecheckFail
    <2>1. pc = "loop" /\ idx \in 1..Len(cache) /\ cache[idx] \in Node
      BY <1>4, ElementOfSeq DEF LoopKilled, LoopSkip, PrecheckFail, IInv,
                                  LoopInv, InLoop, TypeOK
    <2>2. Advance => pc' \in {"loop", "finish"} /\ (pc' = "loop" => idx' = idx + 1)
      BY DEF Advance
    <2>3. 2 \in Levels
      BY DEF Levels
    <2>4. ~cache[idx].ran
      BY <2>1 DEF StopInv, InLoop
    <2>5. CASE LoopKilled
      <3> DEFINE e == [cache[idx] EXCEPT !.stage = "EXECUTED", !.status = "Killed by user"]
      <3>1. e \in Node /\ cache' = [cache EXCEPT ![idx] = e]
        BY <2>1, <2>5 DEF LoopKilled, Node, Stages, Statuses
      <3>2. /\ pc' \in {"loop", "finish"} /\ (pc' = "loop" => idx' = idx + 1)
            /\ force' = force /\ killed' = killed /\ killed /\ stopExec' = stopExec
        BY <2>2, <2>5 DEF LoopKilled
      <3>3. ~e.ran
        BY <2>1, <2>4
      <3>. QED
        BY <2>1, <3>1, <3>2, <3>3, LoopStepStop DEF InLoop
    <2>6. CASE LoopSkip
      <3> DEFINE e == [cache[idx] EXCEPT !.stage = "SKIPPED",
                         !.status = "Skipped due to prior error", !.lvl = 2]
      <3>1. e \in Node /\ cache' = [cache EXCEPT ![idx] = e]
        BY <2>1, <2>3, <2>6 DEF LoopSkip, Node, Stages, Statuses
      <3>2. /\ pc' \in {"loop", "finish"} /\ (pc' = "loop" => idx' = idx + 1)
            /\ force' = force /\ killed' = killed /\ stopExec' = stopExec
        BY <2>2, <2>6 DEF LoopSkip
      <3>3. ~e.ran /\ ~StopsBatch(e)
        BY <2>1, <2>4 DEF StopsBatch
      <3>. QED
        BY <2>1, <3>1, <3>2, <3>3, LoopStepStop DEF InLoop
    <2>7. CASE PrecheckFail
      <3> DEFINE e == [cache[idx] EXCEPT !.stage = "CHECKED",
                         !.status = "Pre-check failed", !.lvl = 2]
      <3>1. e \in Node /\ cache' = [cache EXCEPT ![idx] = e]
        BY <2>1, <2>3, <2>7 DEF PrecheckFail, Node, Stages, Statuses
      <3>2. /\ pc' \in {"loop", "finish"} /\ (pc' = "loop" => idx' = idx + 1)
            /\ force' = force /\ killed' = killed /\ stopExec'
        BY <2>2, <2>7 DEF PrecheckFail
      <3>3. ~e.ran
        BY <2>1, <2>4
      <3>. QED
        BY <2>1, <3>1, <3>2, <3>3, LoopStepStop DEF InLoop
    <2>. QED
      BY <1>4, <2>5, <2>6, <2>7
  \* execute_one sends the current statement
  <1>5. CASE RunStatement
    <2>1. pc = "run" /\ idx \in 1..Len(cache) /\ cache[idx] \in Node
      BY <1>5, ElementOfSeq DEF RunStatement, IInv, LoopInv, InLoop, TypeOK
    <2>2. PICK fail \in BOOLEAN, w \in Levels :
            /\ cache' = [cache EXCEPT ![idx] = ExecuteOne(cache[idx], fail, w)]
            /\ stopExec' = (stopExec \/ (fail /\ ~force))
      BY <1>5 DEF RunStatement
    <2> DEFINE e == ExecuteOne(cache[idx], fail, w)
    <2>3. Raise(cache[idx].lvl, IF fail THEN 2 ELSE w) \in Levels
      BY <2>1, RaiseLevel DEF Node, Levels
    <2>4. e \in Node /\ (StopsBatch(e) => stopExec')
      BY <2>1, <2>2, <2>3 DEF ExecuteOne, Node, Stages, Statuses, StopsBatch
    <2>5. /\ pc' \in {"loop", "finish"} /\ (pc' = "loop" => idx' = idx + 1)
          /\ force' = force /\ killed' = killed /\ (stopExec => stopExec')
      BY <1>5, <2>2 DEF RunStatement, Advance
    <2>. QED
      BY <2>1, <2>2, <2>4, <2>5, LoopStepStop DEF InLoop
  \* the steps that change neither the batch, the loop position nor force
  <1>6. CASE PrecheckPass
    <2>1. pc = "loop" /\ ~stopExec /\ ~killed /\ pc' \in {"wait", "run"}
          /\ UNCHANGED <<cache, idx, stopExec, killed, force>>
      BY <1>6 DEF PrecheckPass, execVars
    <2>. QED
      BY <2>1 DEF StopInv, StopRespected, StopsBatch, InLoop
  <1>7. CASE ThrottleClear \/ KillSession \/ KillRemote \/ UNCHANGED vars
    <2>1. /\ UNCHANGED <<cache, idx, stopExec, force>> /\ (killed => killed')
          /\ (pc' = pc \/ (pc = "wait" /\ pc' = "run"))
      BY <1>7 DEF ThrottleClear, KillSession, KillRemote, vars, execVars
    <2>. QED
      BY <2>1 DEF StopInv, StopRespected, StopsBatch, InLoop
  <1>8. QED
    <2>1. CASE pc' # "idle"
      BY <2>1, <1>2, <1>3, <1>4, <1>5, <1>6, <1>7
      DEF Next, OwnerStep, MagicStart, MagicStartParseFail, Intercept,
          ParseError, InterceptOther, CommitNoExec, Disconnect, CommitFinish
    <2>. QED
      BY <1>1, <2>1

(* StopRespected for every MaxStmts and MaxBatches: once a statement of a  *)
(* batch fails its read_only pre-check, fails to execute without force, or *)
(* meets a kill at the loop head, execute_statements sends no later       *)
(* statement of the batch to the remote.                                  *)
THEOREM StopSafety == Spec => []StopRespected
  <1>1. Init => StopInv
    BY DEF Init, StopInv, StopRespected, InLoop
  <1>2. StopInv => StopRespected
    BY DEF StopInv
  <1>. QED
    BY <1>1, <1>2, InitIInv, NextIInv, NextStopInv, PTL DEF Spec


(* The strengthening IInv holds in every reachable state, for every       *)
(* MaxStmts and MaxBatches: thread ids stay below the batches started,    *)
(* every open remote handle is counted, the loop index is a statement of  *)
(* the batch exactly while the execution connection is open, nothing has *)
(* run between client statements, and the gate holds once anything ran.  *)
THEOREM IInvariant == Spec => []IInv
  BY InitIInv, NextIInv, PTL DEF Spec

(* KillInv holds in every reachable state: an aborted statement is the    *)
(* running one of a killed session, captured and stored thread ids were  *)
(* handed out already, and a pending KILL naming the open execution       *)
(* connection comes from a kill of the batch it belongs to.               *)
THEOREM KillInvariant == Spec => []KillInv
  <1>1. Init => KillInv
    BY DEF Init, KillInv
  <1>. QED
    BY <1>1, InitIInv, NextIInv, NextKillInv, PTL DEF Spec

(* StopInv holds in every reachable state: inside the loop only earlier  *)
(* statements were sent, a stopping statement before idx leaves stop_exec *)
(* or killed set, and the statement about to be sent has none before it.  *)
THEOREM StopInvariant == Spec => []StopInv
  <1>1. Init => StopInv
    BY DEF Init, StopInv, StopRespected, InLoop
  <1>. QED
    BY <1>1, InitIInv, NextIInv, NextStopInv, PTL DEF Spec

=============================================================================
