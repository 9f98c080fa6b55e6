---------------------------- MODULE MCTokenCache ----------------------------
(* Requests to the resource server are interchangeable.                     *)
EXTENDS TokenCache, TLC
SomeKinds == {[device |-> FALSE, oidc |-> TRUE, offline |-> TRUE],
              [device |-> TRUE, oidc |-> FALSE, offline |-> FALSE]}
Symmetry == Permutations(Visit)
=============================================================================
