------------------------------ MODULE MCLogout ------------------------------
(* Users, names and requests are interchangeable.  The authorization code   *)
(* grant with OpenID Connect, an implicit grant without, a device.          *)
EXTENDS Logout, TLC
SomeKinds == {[device |-> FALSE, oidc |-> TRUE, offline |-> TRUE],
              [device |-> FALSE, oidc |-> FALSE, offline |-> FALSE],
              [device |-> TRUE, oidc |-> FALSE, offline |-> TRUE]}
Symmetry == Permutations(User) \cup Permutations(Token) \cup Permutations(Attempt)
=============================================================================
