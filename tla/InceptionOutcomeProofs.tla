----------------------- MODULE InceptionOutcomeProofs -----------------------
(***************************************************************************)
(* Proofs about what execute_statements leaves in the result set, for     *)
(* every value of the constants:                                           *)
(*   - OutcomeForAll: when the commit's execution ends, every statement    *)
(*     has an outcome, or none has (a batch the pre-scan blocked);         *)
(*   - LevelsOnlyRise: no step lowers a statement's errlevel.              *)
(* OutcomeForAll is not inductive: the loop's end needs to know that every *)
(* statement before the last already has one. OutcomeInv says that the     *)
(* loop deals with the statements strictly in order.                      *)
(***************************************************************************)
EXTENDS InceptionSessionProofs

(***************************************************************************)
(* OutcomeInv, the strengthening of OutcomeForAll. Between statements of  *)
(* the client no statement has an outcome; inside the loop exactly the     *)
(* statements before idx have one; at the end, all of them or none.       *)
(***************************************************************************)
OutcomeInv ==
  /\ pc = "idle" => \A i \in 1..Len(cache) : ~Outcome(cache[i])
  /\ InLoop => \A i \in 1..Len(cache) : Outcome(cache[i]) <=> i < idx
  /\ OutcomeForAll

-----------------------------------------------------------------------------
(* A node of the batch has a level. *)
LEMMA NodeLevel ==
  ASSUME NEW seq \in Seq(Node), NEW i \in 1..Len(seq)
  PROVE  seq[i] \in Node /\ seq[i].lvl \in Levels /\ seq[i].lvl \in Nat
  <1>1. seq[i] \in Node
    BY ElementOfSeq
  <1>. QED
    BY <1>1 DEF Node, Levels

(* MarkAll gives every node the status t and raises every level. *)
LEMMA MarkAllFields ==
  ASSUME NEW s \in Stages, NEW t \in Statuses, NEW x \in Levels,
         cache \in Seq(Node)
  PROVE  /\ MarkAll(s, t, x) \in Seq(Node)
         /\ Len(MarkAll(s, t, x)) = Len(cache)
         /\ \A i \in 1..Len(cache) :
              /\ MarkAll(s, t, x)[i].status = t
              /\ MarkAll(s, t, x)[i].lvl >= cache[i].lvl
  <1>1. MarkAll(s, t, x) \in Seq(Node) /\ Len(MarkAll(s, t, x)) = Len(cache)
    BY MarkAllProps
  <1>2. ASSUME NEW i \in 1..Len(cache)
        PROVE  /\ MarkAll(s, t, x)[i].status = t
               /\ MarkAll(s, t, x)[i].lvl >= cache[i].lvl
    <2>1. cache[i] \in Node /\ cache[i].lvl \in Levels
      BY NodeLevel
    <2>2. Raise(cache[i].lvl, x) >= cache[i].lvl
      BY <2>1, RaiseLevel
    <2>. QED
      BY <2>1, <2>2 DEF MarkAll, Node
  <1>. QED
    BY <1>1, <1>2

(* A step of the loop that gives the current statement an outcome and     *)
(* moves on to the next one, or ends after the last, keeps OutcomeInv.    *)
LEMMA LoopStepOutcome ==
  ASSUME IInv, OutcomeInv, InLoop,
         NEW e, Outcome(e), cache' = [cache EXCEPT ![idx] = e],
         pc' \in {"loop", "finish"},
         pc' = "loop" => idx' = idx + 1,
         pc' = "finish" => idx = Len(cache)
  PROVE  OutcomeInv'
  <1>1. idx \in 1..Len(cache) /\ cache \in Seq(Node)
    BY DEF IInv, LoopInv, TypeOK
  <1>2. /\ Len(cache') = Len(cache)
        /\ \A j \in 1..Len(cache) : cache'[j] = IF j = idx THEN e ELSE cache[j]
    BY <1>1, ExceptSeq
  <1>3. \A j \in 1..Len(cache) : Outcome(cache[j]) <=> j < idx
    BY DEF OutcomeInv
  <1>4. CASE pc' = "loop"
    <2>1. ASSUME NEW j \in 1..Len(cache)
          PROVE  Outcome(cache'[j]) <=> j < idx'
      <3>1. CASE j = idx
        BY <1>1, <1>2, <1>4, <3>1
      <3>2. CASE j # idx
        BY <1>1, <1>2, <1>3, <1>4, <3>2
      <3>. QED
        BY <3>1, <3>2
    <2>. QED
      BY <1>2, <1>4, <2>1 DEF OutcomeInv, OutcomeForAll, InLoop
  <1>5. CASE pc' = "finish"
    <2>1. \A j \in 1..Len(cache) : Outcome(cache'[j])
      <3> SUFFICES ASSUME NEW j \in 1..Len(cache) PROVE Outcome(cache'[j])
        OBVIOUS
      <3>1. CASE j = idx
        BY <1>2, <3>1
      <3>2. CASE j # idx
        BY <1>1, <1>2, <1>3, <1>5, <3>2
      <3>. QED
        BY <3>1, <3>2
    <2>. QED
      BY <1>2, <1>5, <2>1 DEF OutcomeInv, OutcomeForAll, InLoop
  <1>. QED
    BY <1>4, <1>5

(* After the last iteration the loop index is the last statement. *)
LEMMA AdvanceEnd ==
  ASSUME IInv, InLoop, Advance
  PROVE  /\ pc' \in {"loop", "finish"}
         /\ pc' = "loop" => idx' = idx + 1
         /\ pc' = "finish" => idx = Len(cache)
  <1>1. idx \in 1..Len(cache) /\ Len(cache) \in Nat
    BY LenProperties DEF IInv, LoopInv, TypeOK
  <1>. QED
    BY <1>1 DEF Advance

-----------------------------------------------------------------------------
(* OutcomeInv holds at the start. *)
LEMMA InitOutcomeInv == Init => OutcomeInv
  BY DEF Init, OutcomeInv, OutcomeForAll, InLoop

(* Every step keeps OutcomeInv, given the strengthening IInv. *)
LEMMA NextOutcomeInv == IInv /\ OutcomeInv /\ [Next]_vars => OutcomeInv'
<1> SUFFICES ASSUME IInv, OutcomeInv, [Next]_vars PROVE OutcomeInv'
  OBVIOUS
<1> USE MaxStmtsAssumption, MaxBatchesAssumption, FlagsAssumption
<1>0. cache \in Seq(Node)
  BY DEF IInv, TypeOK
\* the context is reset: the batch is empty
<1>1. CASE MagicStart \/ MagicStartParseFail \/ CommitNoExec \/ Disconnect
           \/ CommitFinish
  <2>1. cache' = << >> /\ pc' = "idle"
    BY <1>1 DEF MagicStart, MagicStartParseFail, CommitNoExec, Disconnect,
                CommitFinish, Reset
  <2>. QED
    BY <2>1 DEF OutcomeInv, OutcomeForAll, InLoop
\* a statement is audited: it joins the batch without an outcome
<1>2. CASE Intercept \/ ParseError
  <2>1. pc = "idle" /\ pc' = "idle"
    BY <1>2 DEF Intercept, ParseError
  <2>2. PICK e \in Node : cache' = Append(cache, e) /\ ~Outcome(e)
    <3>1. CASE Intercept
      <4>1. PICK ok \in BOOLEAN, a \in Levels :
              LET conn == IF auditConn = "none"
                          THEN (IF ok THEN "open" ELSE "failed") ELSE auditConn
                  l    == IF conn = "failed" THEN Raise(a, 2) ELSE a
              IN  cache' = Append(cache, [audit |-> l, lvl |-> l,
                                          stage |-> "CHECKED",
                                          status |-> "Audit completed",
                                          ran |-> FALSE])
        BY <3>1 DEF Intercept
      <4> DEFINE conn == IF auditConn = "none"
                         THEN (IF ok THEN "open" ELSE "failed") ELSE auditConn
                 l    == IF conn = "failed" THEN Raise(a, 2) ELSE a
                 e0   == [audit |-> l, lvl |-> l, stage |-> "CHECKED",
                          status |-> "Audit completed", ran |-> FALSE]
      <4>2. cache' = Append(cache, e0)
        BY <4>1
      <4>3. l \in Levels
        BY RaiseLevel DEF Levels
      <4>4. e0 \in Node /\ ~Outcome(e0)
        BY <4>3 DEF Node, Outcome, Stages, Statuses
      <4>. QED
        BY <4>2, <4>4
    <3>2. CASE ParseError
      <4> DEFINE e0 == [audit |-> 2, lvl |-> 2, stage |-> "CHECKED",
                        status |-> "Audit completed", ran |-> FALSE]
      <4>1. cache' = Append(cache, e0)
        BY <3>2 DEF ParseError
      <4>2. e0 \in Node /\ ~Outcome(e0)
        BY DEF Node, Outcome, Levels, Stages, Statuses
      <4>. QED
        BY <4>1, <4>2
    <3>. QED
      BY <1>2, <3>1, <3>2
  <2>3. /\ Len(cache') = Len(cache) + 1
        /\ \A i \in 1..Len(cache) : cache'[i] = cache[i]
        /\ cache'[Len(cache) + 1] = e
    BY <1>0, <2>2, AppendNode
  <2>4. \A i \in 1..Len(cache') : ~Outcome(cache'[i])
    BY <1>0, <2>1, <2>2, <2>3, LenProperties DEF OutcomeInv
  <2>. QED
    BY <2>1, <2>4 DEF OutcomeInv, OutcomeForAll, InLoop
\* the commit starts and marks every statement, or is blocked by the pre-scan
<1>3. CASE ExecStartKilled \/ ExecConnectFail
  <2>1. \E t \in Statuses, x \in Levels :
          /\ t # "Audit completed" /\ pc' = "finish"
          /\ cache' = MarkAll("EXECUTED", t, x)
    <3>1. "Killed by user" \in Statuses /\ "Execute failed" \in Statuses
          /\ 0 \in Levels /\ 2 \in Levels
      BY DEF Statuses, Levels
    <3>2. CASE ExecStartKilled
      <4>1. pc' = "finish" /\ cache' = MarkAll("EXECUTED", "Killed by user", 0)
        BY <3>2 DEF ExecStartKilled
      <4>. QED
        BY <3>1, <4>1
    <3>3. CASE ExecConnectFail
      <4>1. pc' = "finish" /\ cache' = MarkAll("EXECUTED", "Execute failed", 2)
        BY <3>3 DEF ExecConnectFail
      <4>. QED
        BY <3>1, <4>1
    <3>. QED
      BY <1>3, <3>2, <3>3
  <2>0. PICK t \in Statuses, x \in Levels :
          /\ t # "Audit completed" /\ pc' = "finish"
          /\ cache' = MarkAll("EXECUTED", t, x)
    BY <2>1
  <2>2. /\ Len(cache') = Len(cache)
        /\ \A i \in 1..Len(cache) : cache'[i].status = t
    BY <1>0, <2>0, MarkAllFields DEF Stages
  <2>. QED
    BY <2>1, <2>2 DEF OutcomeInv, OutcomeForAll, InLoop, Outcome
<1>4. CASE ExecPrescanBlocked
  <2>1. pc = "idle" /\ pc' = "finish" /\ UNCHANGED cache
    BY <1>4 DEF ExecPrescanBlocked, ExecCommit
  <2>. QED
    BY <2>1 DEF OutcomeInv, OutcomeForAll, InLoop
\* the loop is entered at the first statement
<1>5. CASE ExecBegin
  <2>1. pc = "idle" /\ pc' = "loop" /\ idx' = 1 /\ UNCHANGED cache
    BY <1>5 DEF ExecBegin, ExecCommit
  <2>. QED
    BY <2>1 DEF OutcomeInv, OutcomeForAll, InLoop
\* an iteration gives the current statement its outcome and moves on
<1>6. CASE LoopKilled \/ LoopSkip \/ PrecheckFail \/ RunStatement
  <2>1. InLoop /\ Advance
    BY <1>6 DEF LoopKilled, LoopSkip, PrecheckFail, RunStatement, InLoop
  <2>2. /\ pc' \in {"loop", "finish"}
        /\ pc' = "loop" => idx' = idx + 1
        /\ pc' = "finish" => idx = Len(cache)
    BY <2>1, AdvanceEnd
  <2>3. \E e : Outcome(e) /\ cache' = [cache EXCEPT ![idx] = e]
    <3>0. cache[idx] \in Node
      BY <1>0, <2>1, NodeLevel DEF IInv, LoopInv
    <3>1. CASE LoopKilled
      <4> DEFINE e0 == [cache[idx] EXCEPT !.stage = "EXECUTED",
                                          !.status = "Killed by user"]
      <4>1. Outcome(e0) /\ cache' = [cache EXCEPT ![idx] = e0]
        BY <3>0, <3>1 DEF LoopKilled, Outcome, Node
      <4>. QED
        BY <4>1
    <3>2. CASE LoopSkip
      <4> DEFINE e0 == [cache[idx] EXCEPT !.stage = "SKIPPED",
                          !.status = "Skipped due to prior error", !.lvl = 2]
      <4>1. Outcome(e0) /\ cache' = [cache EXCEPT ![idx] = e0]
        BY <3>0, <3>2 DEF LoopSkip, Outcome, Node
      <4>. QED
        BY <4>1
    <3>3. CASE PrecheckFail
      <4> DEFINE e0 == [cache[idx] EXCEPT !.stage = "CHECKED",
                          !.status = "Pre-check failed", !.lvl = 2]
      <4>1. Outcome(e0) /\ cache' = [cache EXCEPT ![idx] = e0]
        BY <3>0, <3>3 DEF PrecheckFail, Outcome, Node
      <4>. QED
        BY <4>1
    <3>4. CASE RunStatement
      <4>1. PICK fail \in BOOLEAN, w \in Levels :
              cache' = [cache EXCEPT ![idx] = ExecuteOne(cache[idx], fail, w)]
        BY <3>4 DEF RunStatement
      <4>2. Outcome(ExecuteOne(cache[idx], fail, w))
        BY <3>0 DEF ExecuteOne, Outcome, Node
      <4>. QED
        BY <4>1, <4>2
    <3>. QED
      BY <1>6, <3>1, <3>2, <3>3, <3>4
  <2>. QED
    BY <2>1, <2>2, <2>3, LoopStepOutcome
\* the steps that change neither the batch nor the loop position
<1>7. CASE PrecheckPass \/ ThrottleClear
  <2>1. InLoop /\ InLoop' /\ UNCHANGED <<cache, idx>>
    BY <1>7 DEF PrecheckPass, ThrottleClear, InLoop, execVars
  <2>. QED
    BY <2>1 DEF OutcomeInv, OutcomeForAll, InLoop
<1>8. CASE InterceptOther \/ KillSession \/ KillRemote \/ UNCHANGED vars
  <2>1. UNCHANGED <<cache, idx, pc>>
    BY <1>8 DEF InterceptOther, KillSession, KillRemote, vars, execVars
  <2>. QED
    BY <2>1 DEF OutcomeInv, OutcomeForAll, InLoop
<1>. QED
  BY <1>1, <1>2, <1>3, <1>4, <1>5, <1>6, <1>7, <1>8 DEF Next, OwnerStep

(* OutcomeForAll for every MaxStmts and MaxBatches: when                  *)
(* execute_statements has dealt with a batch, the result set reports an   *)
(* outcome for every statement of it, or, when the pre-scan blocked it,   *)
(* for none; a kill, a stop or a failed pre-check never leaves a          *)
(* statement merely audited.                                              *)
THEOREM OutcomeSafety == Spec => []OutcomeForAll
<1>1. OutcomeInv => OutcomeForAll
  BY DEF OutcomeInv
<1>. QED
  BY <1>1, InitIInv, NextIInv, InitOutcomeInv, NextOutcomeInv, PTL DEF Spec


-----------------------------------------------------------------------------
(* The step LevelsOnlyRise constrains: no statement kept by the step has  *)
(* a lower level after it.                                                *)
LevelStep ==
  \A i \in 1..Len(cache) : i <= Len(cache') => cache'[i].lvl >= cache[i].lvl

(* Rewriting one node with a level at least its own keeps LevelStep. *)
LEMMA UpdateLevel ==
  ASSUME cache \in Seq(Node), NEW k \in 1..Len(cache), NEW e,
         e.lvl >= cache[k].lvl, cache' = [cache EXCEPT ![k] = e]
  PROVE  LevelStep
  <1> SUFFICES ASSUME NEW i \in 1..Len(cache), i <= Len(cache')
               PROVE  cache'[i].lvl >= cache[i].lvl
    BY DEF LevelStep
  <1>1. cache'[i] = IF i = k THEN e ELSE cache[i]
    BY ExceptSeq
  <1>2. cache[i].lvl \in Nat
    BY NodeLevel
  <1>. QED
    BY <1>1, <1>2

(* Every step of the session, the admin thread and the environment keeps *)
(* each level it does not drop with the batch.                            *)
LEMMA NextLevelStep == IInv /\ [Next]_vars => LevelStep
<1> SUFFICES ASSUME IInv, [Next]_vars PROVE LevelStep
  OBVIOUS
<1>0. cache \in Seq(Node)
  BY DEF IInv, TypeOK
<1>1. CASE MagicStart \/ MagicStartParseFail \/ CommitNoExec \/ Disconnect
           \/ CommitFinish
  <2>1. cache' = << >>
    BY <1>1 DEF MagicStart, MagicStartParseFail, CommitNoExec, Disconnect,
                CommitFinish, Reset
  <2>. QED
    BY <2>1 DEF LevelStep
<1>2. CASE Intercept \/ ParseError
  <2>1. \E e : cache' = Append(cache, e)
    BY <1>2 DEF Intercept, ParseError
  <2>2. \A i \in 1..Len(cache) : cache'[i] = cache[i]
    BY <1>0, <2>1, AppendProperties
  <2>3. \A i \in 1..Len(cache) : cache[i].lvl \in Nat
    BY <1>0, NodeLevel
  <2>. QED
    BY <2>2, <2>3 DEF LevelStep
<1>3. CASE ExecStartKilled \/ ExecConnectFail
  <2>1. \E t \in Statuses, x \in Levels : cache' = MarkAll("EXECUTED", t, x)
    <3>1. "Killed by user" \in Statuses /\ "Execute failed" \in Statuses
          /\ 0 \in Levels /\ 2 \in Levels
      BY DEF Statuses, Levels
    <3>. QED
      BY <1>3, <3>1 DEF ExecStartKilled, ExecConnectFail
  <2>2. PICK t \in Statuses, x \in Levels : cache' = MarkAll("EXECUTED", t, x)
    BY <2>1
  <2>. QED
    BY <1>0, <2>2, MarkAllFields DEF Stages, LevelStep
<1>4. CASE LoopKilled \/ LoopSkip \/ PrecheckFail \/ RunStatement
  <2>1. idx \in 1..Len(cache) /\ cache[idx] \in Node /\ cache[idx].lvl \in Levels
    BY <1>0, <1>4, NodeLevel DEF LoopKilled, LoopSkip, PrecheckFail,
                                 RunStatement, IInv, LoopInv, InLoop
  <2>2. CASE LoopKilled
    <3> DEFINE e == [cache[idx] EXCEPT !.stage = "EXECUTED",
                                       !.status = "Killed by user"]
    <3>1. e.lvl = cache[idx].lvl /\ cache' = [cache EXCEPT ![idx] = e]
      BY <2>1, <2>2 DEF LoopKilled, Node
    <3>2. e.lvl >= cache[idx].lvl
      BY <2>1, <3>1 DEF Levels
    <3>. QED
      BY <1>0, <2>1, <3>1, <3>2, UpdateLevel
  <2>3. CASE LoopSkip \/ PrecheckFail
    <3>1. PICK s \in Stages, t \in Statuses :
            cache' = [cache EXCEPT ![idx] =
                        [cache[idx] EXCEPT !.stage = s, !.status = t, !.lvl = 2]]
      BY <2>3 DEF LoopSkip, PrecheckFail, Stages, Statuses
    <3>2. [cache[idx] EXCEPT !.stage = s, !.status = t, !.lvl = 2].lvl >= cache[idx].lvl
      BY <2>1 DEF Node, Levels
    <3>. QED
      BY <1>0, <2>1, <3>1, <3>2, UpdateLevel
  <2>4. CASE RunStatement
    <3>1. PICK fail \in BOOLEAN, w \in Levels :
            cache' = [cache EXCEPT ![idx] = ExecuteOne(cache[idx], fail, w)]
      BY <2>4 DEF RunStatement
    <3>2. Raise(cache[idx].lvl, IF fail THEN 2 ELSE w) >= cache[idx].lvl
      BY <2>1, RaiseLevel DEF Levels
    <3>3. ExecuteOne(cache[idx], fail, w).lvl >= cache[idx].lvl
      BY <2>1, <3>2 DEF ExecuteOne, Node
    <3>. QED
      BY <1>0, <2>1, <3>1, <3>3, UpdateLevel
  <2>. QED
    BY <1>4, <2>2, <2>3, <2>4
<1>5. CASE ExecPrescanBlocked \/ ExecBegin \/ PrecheckPass \/ ThrottleClear
           \/ InterceptOther \/ KillSession \/ KillRemote \/ UNCHANGED vars
  <2>1. UNCHANGED cache
    BY <1>5 DEF ExecPrescanBlocked, ExecBegin, PrecheckPass, ThrottleClear,
                InterceptOther, KillSession, KillRemote, vars
  <2>2. \A i \in 1..Len(cache) : cache[i].lvl \in Nat
    BY <1>0, NodeLevel
  <2>. QED
    BY <2>1, <2>2 DEF LevelStep
<1>. QED
  BY <1>1, <1>2, <1>3, <1>4, <1>5 DEF Next, OwnerStep

(* LevelsOnlyRise for every MaxStmts and MaxBatches: SqlCacheNode::report *)
(* only raises errlevel, so no step of a batch lowers the level a         *)
(* statement already has, and what execution finds never hides an audit   *)
(* warning or error.                                                      *)
THEOREM LevelSafety == Spec => LevelsOnlyRise
<1>1. IInv /\ [Next]_vars => [LevelStep]_vars
  BY NextLevelStep
<1>. QED
  BY <1>1, InitIInv, NextIInv, PTL DEF Spec, LevelsOnlyRise, LevelStep


(* OutcomeInv holds in every reachable state: the statement loop deals    *)
(* with the batch strictly in order, exactly the statements before idx    *)
(* having an outcome, and no statement has one between client statements. *)
THEOREM OutcomeInvariant == Spec => []OutcomeInv
  BY InitIInv, NextIInv, InitOutcomeInv, NextOutcomeInv, PTL DEF Spec

====
