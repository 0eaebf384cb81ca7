CONSTANTS
  r1 = r1
  r2 = r2
  r3 = r3
  thread = thread
  other = other
  Threads = {thread, other}
  Requests = {r1, r2, r3}
  ThreadOf <- OneThread
\* A store behind a network can do all that a local one can.
  Deployments = {{"trajectory"}, {"trajectory", "session"}}
  Streaming = {r1}
  MaxAttempts = 2
  RetrievalK = 3
SPECIFICATION FairSpec
INVARIANTS
  Audited
  AnsweredIsStored
  FailureLeavesNoMemory
  ErasesOnlyConcurrent
  AloneIsRemembered
PROPERTIES
  MemorySpec
  RequestsEnd
\* Every request ends.
CHECK_DEADLOCK FALSE
