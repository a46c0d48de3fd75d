------------------------- MODULE MCAuthorizationCode -------------------------
(* Small instances of AuthorizationCode for TLC. *)
EXTENDS AuthorizationCode, TLC

Symmetry == Permutations(Codes) \cup Permutations(RequestIds) \cup Permutations(Clients)
=============================================================================
