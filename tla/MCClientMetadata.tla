-------------------------- MODULE MCClientMetadata --------------------------
EXTENDS ClientMetadata, TLC

Symmetry == Permutations(Request) \cup Permutations(Url)
=============================================================================
