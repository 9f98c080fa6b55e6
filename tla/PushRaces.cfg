SPECIFICATION Spec
CONSTANTS
  Uri = {u1, u2}
  Client = {a, b}
  Visit = {v1, v2}
  Lifetime = 1
  Mandatory = {a}
  MaxTime = 2
  MaxSubmits = 2
  Null = Null
SYMMETRY Symmetry
CHECK_DEADLOCK FALSE
INVARIANTS CodesWerePushed
PROPERTIES OnlyItsClientUsesIt IsSingleUse
