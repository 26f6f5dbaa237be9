------------------------------ MODULE AuditLog ------------------------------
(***************************************************************************)
(* The process-wide audit log of inception_log.cc.  One FILE* (g_log_fp)  *)
(* and the path it was opened for (g_log_path) are shared by every        *)
(* session, guarded by g_log_mutex.  A session writes a "session" record  *)
(* at the end of do_inception_commit and a "statement" record after each  *)
(* executed statement; each write first calls audit_log_open, which       *)
(* closes, reopens or opens the file for the current inception_audit_log  *)
(* option, then tests g_log_fp WITHOUT the mutex, and only then takes the *)
(* mutex to fprintf.  An administrator may SET GLOBAL the option at any   *)
(* time.  Files are identified with the path they were opened for; the    *)
(* record text (JSON escaping, time stamps) is abstracted away.           *)
(***************************************************************************)
EXTENDS Naturals

CONSTANTS
  Threads,   \* the sessions that write to the log
  Paths,     \* the values inception_audit_log may name
  Disabled,  \* the option unset or empty: logging disabled
  Null,      \* g_log_fp == nullptr
  Empty      \* g_log_path cleared

ASSUME ConstAssumption ==
  /\ Disabled \notin Paths
  /\ Null \notin Paths
  /\ Empty \notin Paths

VARIABLES
  opt,       \* opt_audit_log
  fp,        \* g_log_fp: the path of the open file, or Null
  logPath,   \* g_log_path
  handles,   \* FILE handles fopen returned and fclose has not closed
  pc,        \* per session: where it is inside a log call
  crashed    \* a session called fprintf/fflush on a null FILE*

vars == <<opt, fp, logPath, handles, pc, crashed>>

PCs == {"idle", "sessCheck", "sessWrite", "stmtCheck", "stmtWrite"}

Init ==
  /\ opt \in Paths \cup {Disabled}
  /\ fp = Null
  /\ logPath = Empty
  /\ handles = 0
  /\ pc = [t \in Threads |-> "idle"]
  /\ crashed = FALSE

(* Mutant: the path-change branch sets g_log_fp = nullptr without fclose. *)
OpenLogNoCloseOnChange(ok) ==
  IF opt = Disabled
  THEN /\ fp' = Null
       /\ logPath' = IF fp = Null THEN logPath ELSE Empty
       /\ handles' = IF fp = Null THEN handles ELSE handles - 1
  ELSE LET stale == fp # Null /\ logPath # opt
           keep  == fp # Null /\ ~stale
       IN  /\ fp' = IF keep THEN fp ELSE IF ok THEN opt ELSE Null
           /\ logPath' = IF keep \/ ok THEN opt
                         ELSE IF stale THEN Empty ELSE logPath
           /\ handles' = handles + (IF ~keep /\ ok THEN 1 ELSE 0)

(* Mutant: the disabled branch calls fclose without testing g_log_fp. *)
OpenLogCloseUnchecked(ok) ==
  IF opt = Disabled
  THEN /\ fp' = Null
       /\ logPath' = Empty
       /\ handles' = handles - 1
  ELSE LET stale == fp # Null /\ logPath # opt
           keep  == fp # Null /\ ~stale
       IN  /\ fp' = IF keep THEN fp ELSE IF ok THEN opt ELSE Null
           /\ logPath' = IF keep \/ ok THEN opt
                         ELSE IF stale THEN Empty ELSE logPath
           /\ handles' = handles - (IF stale THEN 1 ELSE 0)
                                 + (IF ~keep /\ ok THEN 1 ELSE 0)

(***************************************************************************)
(* audit_log_open, atomic under g_log_mutex.  Disabled: close the open    *)
(* file, if any.  Otherwise close a file opened for another path, and if  *)
(* none is open then fopen the option's path, which may fail (ok).        *)
(***************************************************************************)
OpenLog(ok) ==
  IF opt = Disabled
  THEN /\ fp' = Null
       /\ logPath' = IF fp = Null THEN logPath ELSE Empty
       /\ handles' = IF fp = Null THEN handles ELSE handles - 1
  ELSE LET stale == fp # Null /\ logPath # opt
           keep  == fp # Null /\ ~stale
       IN  /\ fp' = IF keep THEN fp ELSE IF ok THEN opt ELSE Null
           /\ logPath' = IF keep \/ ok THEN opt
                         ELSE IF stale THEN Empty ELSE logPath
           /\ handles' = handles - (IF stale THEN 1 ELSE 0)
                                 + (IF ~keep /\ ok THEN 1 ELSE 0)

(***************************************************************************)
(* The start of audit_log_session (called from do_inception_commit) and  *)
(* of audit_log_statement (called after each executed statement): the    *)
(* locked audit_log_open.                                                 *)
(***************************************************************************)
SessionOpen(t) ==
  /\ ~crashed
  /\ pc[t] = "idle"
  /\ \E ok \in BOOLEAN : OpenLog(ok)
  /\ pc' = [pc EXCEPT ![t] = "sessCheck"]
  /\ UNCHANGED <<opt, crashed>>

StatementOpen(t) ==
  /\ ~crashed
  /\ pc[t] = "idle"
  /\ \E ok \in BOOLEAN : OpenLog(ok)
  /\ pc' = [pc EXCEPT ![t] = "stmtCheck"]
  /\ UNCHANGED <<opt, crashed>>

(***************************************************************************)
(* `if (!g_log_fp) return;`, read without the mutex.                     *)
(***************************************************************************)
CheckFp(t, at, next) ==
  /\ ~crashed
  /\ pc[t] = at
  /\ pc' = [pc EXCEPT ![t] = IF fp = Null THEN "idle" ELSE next]
  /\ UNCHANGED <<opt, fp, logPath, handles, crashed>>

SessionCheck(t) == CheckFp(t, "sessCheck", "sessWrite")

StatementCheck(t) == CheckFp(t, "stmtCheck", "stmtWrite")

(***************************************************************************)
(* The record is built, the mutex taken, and fprintf + fflush write to    *)
(* whatever g_log_fp is now.  If another session's audit_log_open closed  *)
(* it in between, the call dereferences a null FILE* and the server dies. *)
(***************************************************************************)
WriteRecord(t, at) ==
  /\ ~crashed
  /\ pc[t] = at
  /\ pc' = [pc EXCEPT ![t] = "idle"]
  /\ crashed' = (fp = Null)
  /\ UNCHANGED <<opt, fp, logPath, handles>>

SessionWrite(t) == WriteRecord(t, "sessWrite")

StatementWrite(t) == WriteRecord(t, "stmtWrite")

(***************************************************************************)
(* SET GLOBAL inception_audit_log = ..., with no g_log_mutex.             *)
(***************************************************************************)
SetAuditLog ==
  /\ ~crashed
  /\ \E v \in Paths \cup {Disabled} : opt' = v /\ v # opt
  /\ UNCHANGED <<fp, logPath, handles, pc, crashed>>

Next ==
  \/ SetAuditLog
  \/ \E t \in Threads :
       \/ SessionOpen(t) \/ SessionCheck(t) \/ SessionWrite(t)
       \/ StatementOpen(t) \/ StatementCheck(t) \/ StatementWrite(t)

Spec == Init /\ [][Next]_vars

-----------------------------------------------------------------------------
(* Every variable stays in its domain. *)
TypeOK ==
  /\ opt \in Paths \cup {Disabled}
  /\ fp \in Paths \cup {Null}
  /\ logPath \in Paths \cup {Empty}
  /\ handles \in Nat
  /\ pc \in [Threads -> PCs]
  /\ crashed \in BOOLEAN

(***************************************************************************)
(* audit_log_open never leaks or loses a FILE: exactly one handle is open *)
(* while g_log_fp is set and none otherwise, and g_log_path names the     *)
(* open file (and is cleared when none is), across any interleaving of    *)
(* option changes, failed fopens and sessions' log calls.                 *)
(***************************************************************************)
HandleConsistent ==
  /\ handles = IF fp = Null THEN 0 ELSE 1
  /\ logPath = IF fp = Null THEN Empty ELSE fp

(***************************************************************************)
(* The spec: the FILE* and its path are guarded by a dedicated mutex, and *)
(* held across a single fprintf.  So no session's fprintf/fflush ever     *)
(* sees a null g_log_fp (audit_log_session/_statement test it first).     *)
(***************************************************************************)
NoNullWrite == ~crashed
=============================================================================
