\* Two sessions and two paths: enough for one session's open/check to race
\* another session's reopen or close.  A crashed server takes no more steps.
CONSTANTS
  t1 = t1
  t2 = t2
  p1 = p1
  p2 = p2
  Threads <- MCThreads
  Paths <- MCPaths
  Disabled = Disabled
  Null = Null
  Empty = Empty
SPECIFICATION Spec

INVARIANT NoNullWrite

