CONSTANTS
  q1 = q1
  q2 = q2
  q3 = q3
  k1 = k1
  h1 = h1
  NoKey = NoKey
  Requests = {q1, q2, q3}
  ApiKeys = {k1}
  Hosts = {h1}
  KeySource = "api_key"
  Limit = 2
  Window = 1
  Skews = {0, 1}
  FailOpen = FALSE
  MaxTime = 3
SYMMETRY Symmetry
SPECIFICATION Spec
INVARIANTS
  WindowQuota
  DenialsJustified
  OnlyFailuresLeak
\* The clock stops at its bound.
CHECK_DEADLOCK FALSE
