CONSTANTS
  q1 = q1
  q2 = q2
  a1 = a1
  a2 = a2
  Queries <- MCQueries
  Alternatives <- MCAlternatives
  MaxBranches = 3
  LoopCaps = {0, 6}
  Threshold = 72
  MaxRequests = 3
SPECIFICATION FairSpec
INVARIANTS
  TypeOK
  LiveHypothesis
  HaltTruthful
  EarlyHaltIsInherited
  ConfidentWinner
  LiveGrowth
PROPERTIES
  DeadStayDead
  ConvergesAtRest
  RequestEnds
\* The thread stops after MaxRequests requests.
CHECK_DEADLOCK FALSE
