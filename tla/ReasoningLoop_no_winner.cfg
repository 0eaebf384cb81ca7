CONSTANTS
  q1 = q1
  q2 = q2
  a1 = a1
  a2 = a2
  Queries <- MCQueries
  Alternatives <- OneAlternative
  MaxBranches = 1
  LoopCaps = {20}
  Threshold = 72
  MaxRequests = 2
SPECIFICATION Spec
INVARIANTS
  CollapseFindsWinner
\* The thread stops after MaxRequests requests.
CHECK_DEADLOCK FALSE
