SPECIFICATION Spec
CONSTANTS
  Code = {c1}
  Request = {q1, q2}
  Client = {a, b}
  Proof = {p, x}
  Scope = {s}
  Resource = {r1, r2}
  CodeLife = 1
  MaxTime = 2
  Null = Null
SYMMETRY Symmetry
CHECK_DEADLOCK FALSE
INVARIANTS DeliveredWithinGrant SpentCodeWasWon
PROPERTIES CleanupSparesLiveCodes IsSingleUse
