------------------------- MODULE MCClientAssertion -------------------------
EXTENDS ClientAssertion, TLC

Symmetry == Permutations(Request) \cup Permutations(Key) \cup Permutations(Assertion)
=============================================================================
