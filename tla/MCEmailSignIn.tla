---------------------------- MODULE MCEmailSignIn ----------------------------
(* Small instances of EmailSignIn for TLC. *)
EXTENDS EmailSignIn, TLC

CONSTANTS a1, a2, k1, k2

\* Two clients, each of an application of its own.
TwoApplications == k1 :> a1 @@ k2 :> a2

Symmetry == Permutations(ChallengeIds) \cup Permutations(SubjectIds)
            \cup Permutations(RequestIds) \cup Permutations(Emails)
=============================================================================
