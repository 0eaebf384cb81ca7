CONSTANTS
  c1 = c1
  c2 = c2
  base = base
  judge = judge
  Calls = {c1, c2}
  Models = {base, judge}
  JudgeModels = {judge}
  MaxAttempts = 3
  MaxDeltas = 2
SPECIFICATION Spec
INVARIANTS
  AnswerIsOneRequest
  RequestsAccounted
\* Every call ends.
CHECK_DEADLOCK FALSE
