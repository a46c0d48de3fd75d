------------------------ MODULE MCEmailVerification ------------------------
(* Small instances of EmailVerification for TLC. *)
EXTENDS EmailVerification, TLC

Symmetry == Permutations(Codes) \cup Permutations(Applications)

\* The identifiers of challenges and of sends are 1, 2 and so on, and are given out in that
\* order: which UUID a row has makes no difference.
InOrder ==
    /\ \A c \in ChallengeIds \ {1} : Exists(c) => Exists(c - 1)
    /\ \A s \in SendIds \ {1} : Requested(s) => Requested(s - 1)

\* The challenges alone: no operation on them reads what delivery records, so
\* the sends may as well never be answered.
ChallengeSpec == Init /\ [][(Operation \/ Tick) /\ InOrder']_vars
=============================================================================
