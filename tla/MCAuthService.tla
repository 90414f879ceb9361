--------------------------- MODULE MCAuthService ---------------------------
(***************************************************************************)
(* AuthService for TLC: requests, tokens and names are interchangeable.    *)
(***************************************************************************)
EXTENDS AuthService, TLC

CONSTANTS w1, w2, w3, t1, t2, t3, alice, bob

Symmetry == Permutations(Requests) \cup Permutations(Tokens) \cup Permutations(Names)
=============================================================================
