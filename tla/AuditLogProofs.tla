--------------------------- MODULE AuditLogProofs ---------------------------
(***************************************************************************)
(* Proofs about the audit log: g_log_fp, g_log_path and the open FILE     *)
(* handles stay consistent for any number of sessions and paths.          *)
(***************************************************************************)
EXTENDS AuditLog, TLAPS

LogInv == TypeOK /\ HandleConsistent

(* audit_log_open, from a consistent state, leaves a consistent state. *)
LEMMA OpenLogKeeps ==
  ASSUME LogInv, NEW ok \in BOOLEAN, OpenLog(ok)
  PROVE  /\ fp' \in Paths \cup {Null}
         /\ logPath' \in Paths \cup {Empty}
         /\ handles' \in Nat
         /\ HandleConsistent'
<1>1. CASE opt = Disabled
  BY <1>1, ConstAssumption DEF OpenLog, LogInv, TypeOK, HandleConsistent
<1>2. CASE opt # Disabled
  BY <1>2, ConstAssumption DEF OpenLog, LogInv, TypeOK, HandleConsistent
<1>. QED  BY <1>1, <1>2

LEMMA InitLogInv == Init => LogInv
<1> SUFFICES ASSUME Init PROVE LogInv
  OBVIOUS
<1>1. pc \in [Threads -> PCs]
  BY DEF Init, PCs
<1>2. crashed \in BOOLEAN /\ handles \in Nat
  BY DEF Init
<1>. QED  BY <1>1, <1>2 DEF Init, LogInv, TypeOK, HandleConsistent

LEMMA NextLogInv == LogInv /\ [Next]_vars => LogInv'
<1> SUFFICES ASSUME LogInv, [Next]_vars PROVE LogInv'
  OBVIOUS
<1>1. CASE SetAuditLog
  BY <1>1 DEF SetAuditLog, LogInv, TypeOK, HandleConsistent
<1>2. ASSUME NEW t \in Threads, SessionOpen(t) \/ StatementOpen(t)
      PROVE  LogInv'
  <2>1. PICK ok \in BOOLEAN : OpenLog(ok)
    BY <1>2 DEF SessionOpen, StatementOpen
  <2>2. /\ pc' \in [Threads -> PCs]
        /\ UNCHANGED <<opt, crashed>>
    BY <1>2 DEF SessionOpen, StatementOpen, LogInv, TypeOK, PCs
  <2>. QED  BY <2>1, <2>2, OpenLogKeeps DEF LogInv, TypeOK
<1>3. ASSUME NEW t \in Threads,
             \/ SessionCheck(t) \/ StatementCheck(t)
             \/ SessionWrite(t) \/ StatementWrite(t)
      PROVE  LogInv'
  BY <1>3 DEF SessionCheck, StatementCheck, CheckFp, SessionWrite,
              StatementWrite, WriteRecord, LogInv, TypeOK, HandleConsistent, PCs
<1>4. CASE UNCHANGED vars
  BY <1>4 DEF vars, LogInv, TypeOK, HandleConsistent
<1>. QED  BY <1>1, <1>2, <1>3, <1>4 DEF Next

(* Type correctness of the audit log state, for all sessions and paths. *)
THEOREM LogTypeCorrect == Spec => []TypeOK
<1>1. LogInv => TypeOK  BY DEF LogInv
<1>. QED  BY <1>1, InitLogInv, NextLogInv, PTL DEF Spec

(***************************************************************************)
(* audit_log_open never leaks a FILE nor leaves g_log_path naming a file  *)
(* that is not open, whatever the sessions and SET GLOBAL interleavings.  *)
(***************************************************************************)
THEOREM HandleSafety == Spec => []HandleConsistent
<1>1. LogInv => HandleConsistent  BY DEF LogInv
<1>. QED  BY <1>1, InitLogInv, NextLogInv, PTL DEF Spec
=============================================================================
