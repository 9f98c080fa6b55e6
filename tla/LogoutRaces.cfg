SPECIFICATION LogoutSpec
CONSTANTS
  User = {u1, u2}
  Token = {t1, t2, t3}
  Attempt = {l1, l2}
  AccessLife = 0
  Kinds <- SomeKinds
  AlwaysPrompt = FALSE
  MaxTime = 1
  Null = Null
SYMMETRY Symmetry
INVARIANT LogoutSweeps
 
CHECK_DEADLOCK FALSE
