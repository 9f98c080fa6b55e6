SPECIFICATION Spec
CONSTANTS
  Client = {c1, c2}
  Token = {t1, t2, t3, t4}
  Request = {q1, q2}
  Rotate = TRUE
  Null = null
SYMMETRY Symmetry
CHECK_DEADLOCK FALSE
INVARIANTS TokensAndClientsMeet OneTokenUnlessRaced
PROPERTIES ManualIsNotManaged
