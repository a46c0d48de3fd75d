------------------------------ MODULE MCServices ------------------------------
(***************************************************************************)
(* Values for a small instance of IdentityServices; the others are in the   *)
(* .cfg.                                                                    *)
(***************************************************************************)
EXTENDS IdentityServices, TLC

\* Which of the two requests does what makes no difference.
Alike == Permutations(Requests)

\* A ring of two keys.
MCRing == <<"k1", "k2">>

\* A verified address, an unverified one, and one that is withdrawn.
MCSuggestions == {
    [email |-> "e1", verified |-> "true"],
    [email |-> "e2", verified |-> "none"],
    [email |-> "none", verified |-> "false"]}

\* Two subjects with an address each and one yet to come.
MCInitialSubjects == {
    "s1" :> [status |-> "ACTIVE", email |-> "e1", verified |-> "true", principal |-> "p1"]
 @@ "s2" :> [status |-> "ACTIVE", email |-> "e2", verified |-> "false", principal |-> "p2"]
 @@ "s3" :> [status |-> "none", email |-> "none", verified |-> "none", principal |-> "none"]}
=============================================================================
