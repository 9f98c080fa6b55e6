----------------------- MODULE MCPushedAuthorization -----------------------
EXTENDS PushedAuthorization, TLC

Symmetry == Permutations(Visit) \cup Permutations(Uri)
=============================================================================
