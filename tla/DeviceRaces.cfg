SPECIFICATION Spec
CONSTANTS
  Device = {d1}
  User = {alice, bob}
  Web = {w1, w2}
  Poll = {p1}
  Life = 1
  MaxTime = 2
  Null = Null
SYMMETRY Symmetry
CHECK_DEADLOCK FALSE
INVARIANTS TokensFollowConsent OnlyRacesMoveTokens
PROPERTIES OnlyRacesOverrule
