SPECIFICATION Spec
CONSTANTS
  Assertion = {a1}
  Key = {k1, k2}
  Request = {q1, q2}
  Second = 2
  Leeway = 1
  MaxLifetime = 1
  CacheLife = 2
  FetchTimeout = 1
  BackoffLife = 2
  Lifetimes = {1, 3}
  Skews = {0, 2}
  MaxTime = 3
  Null = Null
SYMMETRY Symmetry
CHECK_DEADLOCK FALSE
INVARIANTS AcceptedOnce KeysAreCurrent
PROPERTIES BackoffHolds
