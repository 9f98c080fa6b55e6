SPECIFICATION FairSpec
CONSTANTS
  Url = {u1}
  Request = {q1, q2}
  Cap = 2
  Backoff = 1
  MaxAge = 0
  BatchSize = 1
  MaxKey = 3
  MaxTime = 1
  MaxElsewhere = 1
  Null = Null
CHECK_DEADLOCK FALSE
INVARIANTS PermitsAreHeld
PROPERTIES ManualIsNeverTaken LoserIsServed PruneSparesLive PruningTerminates
