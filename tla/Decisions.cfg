SPECIFICATION DecisionsSpec
INVARIANTS
  KeysAreUsable
  ReadBackIsStable
  AuthenticationIsSound
  RedirectsAreRegistered
  AudienceIsRespected
PROPERTY
  OnlyNewNeedsLockOut
CHECK_DEADLOCK FALSE
