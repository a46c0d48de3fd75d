----------------------------- MODULE MCFaceSetup -----------------------------
(* A small instance of FaceSetup for TLC. *)
EXTENDS FaceSetup
=============================================================================
