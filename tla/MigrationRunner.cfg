CONSTANTS
  a = a
  b = b
  old = old
  new = new
  Runners = {a, b}
  Texts = {old, new}
  Releases <- MCReleases
  Locking = {1, 2}
  MaxRuns = 2
SPECIFICATION FairSpec
INVARIANTS
  SuccessIsComplete
PROPERTIES
  LedgerSpec
  RunsEnd
\* Runners are started MaxRuns times at most.
CHECK_DEADLOCK FALSE
