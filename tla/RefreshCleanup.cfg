SPECIFICATION FairSpec
CONSTANTS
  RefreshId = {r1, r2, r3}
  AccessId = {a1, a2}
  Request = {q1, q2}
  Scope = {}
  Resource = {}
  AccessLife = 1
  Grace = 3
  IdleLife = 1
  Rotation = {TRUE, FALSE}
  ReuseProtection = FALSE
  BatchSize = 2
  MaxTime = 3
  MaxGrants = 1
  MaxRevocations = 0
  RunCleanup = TRUE
  Null = Null
INVARIANTS
  Structure
PROPERTIES
  CleanupKeepsGrace
  CleanupSparesUsable
  CleanupTerminates
