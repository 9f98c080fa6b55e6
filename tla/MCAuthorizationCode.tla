------------------------ MODULE MCAuthorizationCode ------------------------
EXTENDS AuthorizationCode, TLC

RequestSymmetry == Permutations(Request)
Symmetry == RequestSymmetry \cup Permutations(Client) \cup Permutations(Proof)
              \cup Permutations(Resource)
=============================================================================
