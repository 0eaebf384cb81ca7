CONSTANTS
  c1 = c1
  c2 = c2
  h1 = h1
  k1 = k1
  Calls = {c1, c2, h1}
  Keys = {k1}
  KeyOf <- OneKey
  HealthChecks = {h1}
  MaxAttempts = 2
SPECIFICATION Spec
INVARIANTS
  LeaksBounded
  NewestWriteStays
  AttemptsBounded
\* Every call ends.
CHECK_DEADLOCK FALSE
