-------------------------- MODULE MCFaceEnrollment --------------------------
(* Small instances of FaceEnrollment. *)
EXTENDS FaceEnrollment, TLC

Symmetry ==
    Permutations(Subjects) \cup Permutations(Clients) \cup Permutations(Faces)
        \cup Permutations(Ceremonies) \cup Permutations(Webhooks)
=============================================================================
