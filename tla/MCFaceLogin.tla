------------------------------ MODULE MCFaceLogin ------------------------------
(* Small instances of FaceLogin. *)
EXTENDS FaceLogin, TLC

Symmetry ==
    UNION {Permutations(Requests), Permutations(Subjects), Permutations(Faces),
           Permutations(Webhooks), Permutations(Callbacks)}
=============================================================================
