-------------------------- MODULE MCRefreshTokens --------------------------
(* RefreshTokens on small tables.  Keys and requests are interchangeable.  *)
EXTENDS RefreshTokens, TLC

Symmetry == Permutations(RefreshId) \cup Permutations(AccessId) \cup Permutations(Request) \cup Permutations(Resource)
=============================================================================
