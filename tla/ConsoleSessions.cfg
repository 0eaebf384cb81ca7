CONSTANTS
  t1 = t1
  t2 = t2
  Tabs = {t1, t2}
  MaxSessions = 3
  MaxPrompts = 2
SYMMETRY Symmetry
SPECIFICATION SessionsSpec
INVARIANTS
  SessionsTypeOK
  RepliesFollowPrompts
  SettledPromptsAreKept
  ClearedStaysCleared
\* A browser without a tab stops when no conversation may be created any more.
CHECK_DEADLOCK FALSE
