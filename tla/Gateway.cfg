CONSTANTS
  r1 = r1
  r2 = r2
  r3 = r3
  r4 = r4
  issued = issued
  forged = forged
  home = home
  NoKey = NoKey
  Requests = {r1, r2, r3, r4}
  Keys = {issued, forged}
  Issued = {issued}
  Hosts = {home}
  Identities = {issued, forged, home}
  Limit = 2
  Window = 4
  Second = 2
  MaxTime = 7
SPECIFICATION GatewaySpec
SYMMETRY Anonymous
INVARIANTS
  RetryHint
  QuotaIsOwn
PROPERTIES
  LogSpec
\* The clock stops at MaxTime and every request has its answer.
CHECK_DEADLOCK FALSE
