------------------------ MODULE VerificationEvidence ------------------------
(***************************************************************************)
(* What H2 promises its callers, without codes, mail or rate limits: an    *)
(* item of evidence is offered, proven, and spent at most once; it is      *)
(* proven and spent only before its deadline; and the deadline can be      *)
(* pushed back only while the evidence is still unproven.                  *)
(***************************************************************************)
EXTENDS Naturals

CONSTANT Items        \* the evidence items, one for each challenge id

VARIABLES now,        \* the time
          stage,      \* stage[i]: how far item i has come
          deadline    \* deadline[i]: the time from which item i is worthless

vars == <<now, stage, deadline>>

Stages == {"NONE", "OFFERED", "PROVEN", "SPENT", "VOID"}

TypeOK ==
    /\ now \in Nat
    /\ stage \in [Items -> Stages]
    /\ deadline \in [Items -> Nat]

Init ==
    /\ now \in Nat
    /\ stage = [i \in Items |-> "NONE"]
    /\ deadline = [i \in Items |-> 0]

Move(i, from, to) ==
    /\ stage[i] \in from
    /\ stage' = [stage EXCEPT ![i] = to]
    /\ UNCHANGED now

\* A new deadline for item i alone, no earlier than the time given.
Postpone(i, earliest) ==
    /\ deadline'[i] \in Nat
    /\ deadline'[i] >= earliest
    /\ deadline' = [deadline EXCEPT ![i] = deadline'[i]]

Offer(i) == Move(i, {"NONE"}, "OFFERED") /\ Postpone(i, now)

\* A new code is sent: the deadline of unproven, live evidence moves back.
Renew(i) ==
    /\ stage[i] = "OFFERED"
    /\ now < deadline[i]
    /\ Postpone(i, deadline[i])
    /\ UNCHANGED <<now, stage>>

Prove(i) == Move(i, {"OFFERED"}, "PROVEN") /\ now < deadline[i] /\ UNCHANGED deadline

Spend(i) == Move(i, {"PROVEN"}, "SPENT") /\ now < deadline[i] /\ UNCHANGED deadline

\* Expiry of offered or proven evidence, or too many wrong codes.
Discard(i) == Move(i, {"OFFERED", "PROVEN"}, "VOID") /\ UNCHANGED deadline

Pass == now' \in Nat /\ now' > now /\ UNCHANGED <<stage, deadline>>

Next ==
    \/ Pass
    \/ \E i \in Items :
         Offer(i) \/ Renew(i) \/ Prove(i) \/ Spend(i) \/ Discard(i)

Spec == Init /\ [][Next]_vars
=============================================================================
