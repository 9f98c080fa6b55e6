----------------------- MODULE MCClientRegistration -----------------------
(* Clients, tokens and requests are interchangeable.                       *)
EXTENDS ClientRegistration, TLC

Symmetry == Permutations(Client) \cup Permutations(Token) \cup Permutations(Request)
=============================================================================
