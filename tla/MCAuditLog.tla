----------------------------- MODULE MCAuditLog -----------------------------
(* Constants of AuditLog for TLC: two sessions, two log paths. *)
EXTENDS AuditLog, TLC

CONSTANTS t1, t2, p1, p2

MCThreads == {t1, t2}
MCPaths == {p1, p2}
=============================================================================
