---------------------- MODULE MCAuthorizationInteraction ----------------------
(* Small instances of AuthorizationInteraction for TLC. *)
EXTENDS AuthorizationInteraction, TLC

Symmetry == Permutations(ChallengeIds) \cup Permutations(RequestIds)
=============================================================================
