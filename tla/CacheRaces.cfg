SPECIFICATION Spec
CONSTANTS
  User = {u1}
  Token = {t1}
  Attempt = {l1}
  Visit = {v1, v2}
  AccessLife = 4
  CacheLife = 1
  AnswerTimeout = 1
  Kinds <- SomeKinds
  AlwaysPrompt = FALSE
  MaxTime = 4
  Null = Null
SYMMETRY Symmetry
INVARIANT CacheIsBounded
CHECK_DEADLOCK FALSE
