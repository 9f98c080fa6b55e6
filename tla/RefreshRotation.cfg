SPECIFICATION Spec
CONSTANTS
  RefreshId = {r1, r2, r3}
  AccessId = {a1, a2, a3}
  Request = {q1, q2}
  Scope = {s1}
  Resource = {u1}
  AccessLife = 1
  Grace = 1
  IdleLife = 1
  Rotation = {TRUE, FALSE}
  ReuseProtection = TRUE
  BatchSize = 1
  MaxTime = 2
  MaxGrants = 1
  MaxRevocations = 1
  RunCleanup = FALSE
  Null = Null
SYMMETRY Symmetry
INVARIANTS
  TypeOK
  SupersededIsRevoked
  Authority
PROPERTIES
  RevocationIsFinal
  SweepLeavesNothingUsable
  RevokedAccessIsDead
