------------------------------- MODULE FaceSetup -------------------------------
(***************************************************************************)
(* H5.4: the Face Setup ceremony in the browser (routes/faceSetup.ts) over  *)
(* the interaction store.  A request loads the interaction, claims the next *)
(* step by comparing and setting the snapshot it loaded, calls H4 or H5,    *)
(* and saves what came of it, again only over its own snapshot.  Repeated   *)
(* and concurrent submissions, cancellation, the provider's return, crashes *)
(* and deadlines come between any two of these.  All interactions here are  *)
(* of one subject; the pages themselves only read.                          *)
(***************************************************************************)
EXTENDS Naturals, FiniteSets

CONSTANTS
    Handles,      \* interactions
    Requests,     \* requests being served
    MaxChanges    \* bound of the steps of the world outside the ceremony

VARIABLES
    store,        \* the interaction under each handle, or how it ended
    requests,
    fresh,        \* interactions whose e-mail authentication is recent
    trusted,      \* whether client and subject pass authorityValid
    consented,    \* the subject's consent is on record
    face,         \* the subject has an active face
    challenges,   \* H2 challenges started for each interaction
    starts,       \* enrollments started for each interaction
    enrollments,  \* the status on record of that enrollment
    lapsed,       \* interactions whose enrollment is past its deadline
    outcomes,     \* what the application was told
    abandoned,    \* interactions whose claim was left by a request that died
    changes

vars == <<store, requests, fresh, trusted, consented, face, challenges, starts,
          enrollments, lapsed, outcomes, abandoned, changes>>
H5 == <<consented, face, starts, enrollments, lapsed>>
world == <<fresh, trusted, changes>>

Operations == {"START", "RESEND", "VERIFY"}
Interactions ==
    [phase : {"EMAIL"}, operation : Operations \cup {"NONE"}, email : BOOLEAN]
        \cup [phase : {"CONSENT", "STARTING", "ENROLLING", "CANCELLED"},
              operation : {"NONE"}, email : {TRUE}]
Ended == [phase : {"NEW", "CONSUMED", "EXPIRED"}]
Created == [phase |-> "EMAIL", operation |-> "NONE", email |-> FALSE]
Outcomes == {"success", "cancelled", "failed"}
Idle == [stage |-> "IDLE"]
RequestStates ==
    {Idle} \cup
    [stage : {"LOADED"}, kind : Operations \cup {"agree", "not_now", "callback"},
     handle : Handles, snapshot : Interactions] \cup
    [stage : {"CALLING", "DECIDED", "CONSENTING", "LAUNCHING", "RETURNED"},
     handle : Handles, snapshot : Interactions] \cup
    [stage : {"SAVING"}, handle : Handles, snapshot : Interactions, next : Interactions] \cup
    [stage : {"FINISHING"}, handle : Handles, snapshot : Interactions, outcome : Outcomes]

Live(h) == store[h] \notin Ended
Answered(q) == requests' = [requests EXCEPT ![q] = Idle]

\* What the request does next, keeping handle and snapshot
To(q, stage) == requests' = [requests EXCEPT ![q] =
    [stage |-> stage, handle |-> @.handle, snapshot |-> @.snapshot]]
Saving(q, next) == requests' = [requests EXCEPT ![q] =
    [stage |-> "SAVING", handle |-> @.handle, snapshot |-> @.snapshot, next |-> next]]
Finishing(q, outcome) == requests' = [requests EXCEPT ![q] =
    [stage |-> "FINISHING", handle |-> @.handle, snapshot |-> @.snapshot, outcome |-> outcome]]

-----------------------------------------------------------------------------
(* The store.                                                              *)

\* Mutant: XX without a comparison of the snapshot.
MatchesExisting(q) == Live(requests[q].handle)

\* What the scripts compare: the interaction is still the one this request loaded
\* or saved last.
Matches(q) == store[requests[q].handle] = requests[q].snapshot

Create(h) ==
    /\ store[h].phase = "NEW" /\ trusted
    /\ store' = [store EXCEPT ![h] = Created]
    /\ UNCHANGED <<requests, H5, challenges, outcomes, abandoned, world>>

\* The deadline of the interaction passes.
Expire(h) ==
    /\ Live(h) /\ store' = [store EXCEPT ![h] = [phase |-> "EXPIRED"]]
    /\ UNCHANGED <<requests, H5, challenges, outcomes, abandoned, world>>

\* Which submission an interaction takes; any other one is answered by a page
\* that repeats or continues, and changes nothing.
Takes(i, kind) ==
    CASE kind = "START" -> i.phase = "EMAIL" /\ i.operation = "NONE" /\ ~i.email
      [] kind \in {"RESEND", "VERIFY"} -> i.phase = "EMAIL" /\ i.operation = "NONE" /\ i.email
      [] kind \in {"agree", "not_now"} -> i.phase = "CONSENT"
      [] kind = "callback" -> i.phase = "ENROLLING"

Load(q, h, kind) ==
    /\ requests[q] = Idle /\ Live(h) /\ Takes(store[h], kind)
    /\ requests' = [requests EXCEPT ![q] =
            [stage |-> "LOADED", kind |-> kind, handle |-> h, snapshot |-> store[h]]]
    /\ UNCHANGED <<store, H5, challenges, outcomes, abandoned, world>>

\* GET /face-setup/cancel, in any phase
LoadCancel(q, h) ==
    /\ requests[q] = Idle /\ Live(h)
    /\ requests' = [requests EXCEPT ![q] = [stage |-> "FINISHING", handle |-> h,
            snapshot |-> store[h], outcome |-> "cancelled"]]
    /\ UNCHANGED <<store, H5, challenges, outcomes, abandoned, world>>

\* persist: a request whose snapshot is gone is refused, and changes nothing.  After
\* a verified code it goes on to the consent that may be on record.
Save(q) ==
    LET r == requests[q] IN
    /\ r.stage = "SAVING"
    /\ \/ /\ Matches(q) /\ store' = [store EXCEPT ![r.handle] = r.next]
          /\ IF r.next.phase = "CONSENT"
             THEN requests' = [requests EXCEPT ![q] =
                    [stage |-> "DECIDED", handle |-> r.handle, snapshot |-> r.next]]
             ELSE Answered(q)
       \/ ~Matches(q) /\ Answered(q) /\ UNCHANGED store
    /\ UNCHANGED <<H5, challenges, outcomes, abandoned, world>>

\* finish: consume over the own snapshot, and the redirect with the outcome
Finish(q) ==
    LET r == requests[q] IN
    /\ r.stage = "FINISHING" /\ Answered(q)
    /\ \/ /\ Matches(q)
          /\ store' = [store EXCEPT ![r.handle] = [phase |-> "CONSUMED"]]
          /\ outcomes' = [outcomes EXCEPT ![r.handle] = r.outcome]
       \/ ~Matches(q) /\ UNCHANGED <<store, outcomes>>
    /\ UNCHANGED <<H5, challenges, abandoned, world>>

-----------------------------------------------------------------------------
(* E-mail: start, resend and code, each under its claim.                    *)

ClaimEmail(q) ==
    LET r == requests[q] IN
    /\ r.stage = "LOADED" /\ r.kind \in Operations
    /\ \/ /\ trusted /\ Matches(q)
          /\ store' = [store EXCEPT ![r.handle].operation = r.kind]
          /\ requests' = [requests EXCEPT ![q] = [stage |-> "CALLING", handle |-> r.handle,
                snapshot |-> [r.snapshot EXCEPT !.operation = r.kind]]]
       \/ (~trusted \/ ~Matches(q)) /\ Answered(q) /\ UNCHANGED store
    /\ UNCHANGED <<H5, challenges, outcomes, abandoned, world>>

Calling(q, operation) ==
    requests[q].stage = "CALLING" /\ requests[q].snapshot.operation = operation

\* Mutant: the claim is left in place after a refusal.
ReleaseKept(q) == Answered(q)

\* delete interaction.emailOperation, then persist
Release(q) == Saving(q, [requests[q].snapshot EXCEPT !.operation = "NONE"])

\* H4 refuses the address, the resend or the code, or has sent the code again.
EmailRefused(q) ==
    /\ requests[q].stage = "CALLING" /\ Release(q)
    /\ UNCHANGED <<store, H5, challenges, outcomes, abandoned, world>>

\* A challenge for the address of an existing subject is started.
EmailStarted(q) ==
    LET h == requests[q].handle IN
    /\ Calling(q, "START")
    /\ challenges' = [challenges EXCEPT ![h] = @ + 1]
    /\ Saving(q, [requests[q].snapshot EXCEPT !.operation = "NONE", !.email = TRUE])
    /\ UNCHANGED <<store, H5, outcomes, abandoned, world>>

\* Mutant: the operation stays on the interaction that is waiting for consent.
VerifiedOperating(i) == [i EXCEPT !.phase = "CONSENT"]

Verified(i) == [i EXCEPT !.operation = "NONE", !.phase = "CONSENT"]

\* The code is verified, the result consumed, and the subject read again.
EmailVerified(q) ==
    LET h == requests[q].handle IN
    /\ Calling(q, "VERIFY")
    /\ \/ /\ trusted /\ fresh' = fresh \cup {h}
          /\ Saving(q, Verified(requests[q].snapshot))
       \/ ~trusted /\ Finishing(q, "failed") /\ UNCHANGED fresh
    /\ UNCHANGED <<store, H5, challenges, outcomes, abandoned, trusted, changes>>

-----------------------------------------------------------------------------
(* Consent, and the enrollment it starts.                                  *)

\* After the code: the consent page, or straight on if consent is on record
Decide(q) ==
    LET r == requests[q] IN
    /\ r.stage = "DECIDED"
    /\ IF consented
       THEN requests' = [requests EXCEPT ![q] = [stage |-> "LOADED", kind |-> "agree",
                handle |-> r.handle, snapshot |-> r.snapshot]]
       ELSE Answered(q)
    /\ UNCHANGED <<store, H5, challenges, outcomes, abandoned, world>>

ClaimConsent(q) ==
    LET r == requests[q]
        claimed == [r.snapshot EXCEPT !.phase =
            IF r.kind = "agree" THEN "STARTING" ELSE "CANCELLED"] IN
    /\ r.stage = "LOADED" /\ r.kind \in {"agree", "not_now"}
    /\ \/ /\ trusted /\ r.handle \in fresh /\ Matches(q)
          /\ store' = [store EXCEPT ![r.handle] = claimed]
          /\ requests' = [requests EXCEPT ![q] = IF r.kind = "agree"
                THEN [stage |-> "CONSENTING", handle |-> r.handle, snapshot |-> claimed]
                ELSE [stage |-> "FINISHING", handle |-> r.handle, snapshot |-> claimed,
                      outcome |-> "cancelled"]]
       \/ /\ ~trusted \/ r.handle \notin fresh \/ ~Matches(q)
          /\ Answered(q) /\ UNCHANGED store
    /\ UNCHANGED <<H5, challenges, outcomes, abandoned, world>>

\* capabilityStatus, and acceptConsent where it asks for consent
AcceptConsent(q) ==
    LET h == requests[q].handle IN
    /\ requests[q].stage = "CONSENTING"
    /\ \/ /\ consented \/ (trusted /\ h \in fresh)
          /\ consented' = TRUE /\ To(q, "LAUNCHING")
       \/ /\ ~consented /\ ~(trusted /\ h \in fresh)
          /\ Finishing(q, "failed") /\ UNCHANGED consented
    /\ UNCHANGED <<store, face, starts, enrollments, lapsed, challenges, outcomes,
                   abandoned, world>>

\* H5's status(): the deadline is looked at before the status on record, so that past
\* it nothing is PENDING, and nothing has FAILED.
StatusOf(h) == IF h \in lapsed THEN "EXPIRED" ELSE enrollments[h]

\* reserve: the subject's pending enrollments that are past their deadline expire.
Reserved(h) == [other \in Handles |->
    IF other = h THEN "PENDING"
    ELSE IF enrollments[other] = "PENDING" THEN "EXPIRED" ELSE enrollments[other]]

\* H5 reserves and binds an enrollment, refuses it (no authority, one in progress,
\* no session at the provider), or finds a face enrolled already.
StartEnrollment(q) ==
    LET h == requests[q].handle IN
    /\ requests[q].stage = "LAUNCHING"
    /\ \/ /\ trusted /\ h \in fresh /\ ~face
          /\ \A other \in Handles : StatusOf(other) # "PENDING"
          /\ starts' = [starts EXCEPT ![h] = @ + 1]
          /\ enrollments' = Reserved(h)
          /\ Saving(q, [requests[q].snapshot EXCEPT !.phase = "ENROLLING"])
       \/ Finishing(q, "failed") /\ UNCHANGED <<starts, enrollments>>
       \/ /\ trusted /\ h \in fresh /\ face
          /\ Finishing(q, "success") /\ UNCHANGED <<starts, enrollments>>
    /\ UNCHANGED <<store, consented, face, lapsed, challenges, outcomes, abandoned, world>>

\* GET /face-setup/callback: the browser is back from the provider.
Callback(q) ==
    /\ requests[q].stage = "LOADED" /\ requests[q].kind = "callback"
    /\ IF trusted THEN To(q, "RETURNED") ELSE Answered(q)
    /\ UNCHANGED <<store, H5, challenges, outcomes, abandoned, world>>

\* Mutant: a failure that H5 still reports is treated like an enrollment nobody knows of.
SucceededAnyway(h) == trusted /\ face

\* What H5 answers when the enrollment is not pending, or the authority is gone: FAILED
\* and CONFLICT are failures, anything else is decided by the active face.
Succeeded(h) == trusted /\ StatusOf(h) # "FAILED" /\ face

\* The callback asks H5 for the enrollment's status, and then for the capability.  Both
\* refuse when the authority was withdrawn meanwhile; what is final or lapsed stays so,
\* and a face stays, so both are read at once.
Resolve(q) ==
    LET h == requests[q].handle IN
    /\ requests[q].stage = "RETURNED"
    /\ IF trusted /\ StatusOf(h) = "PENDING" THEN Answered(q)
       ELSE Finishing(q, IF Succeeded(h) THEN "success" ELSE "failed")
    /\ UNCHANGED <<store, H5, challenges, outcomes, abandoned, world>>

-----------------------------------------------------------------------------
(* Failures, and the world outside.                                        *)

\* A request works on an interaction it claimed.
Works(q, h) ==
    /\ requests[q] # Idle /\ requests[q].handle = h
    /\ requests[q].stage \in {"CALLING", "CONSENTING", "LAUNCHING", "SAVING", "FINISHING"}

\* A request dies, or meets an error it does not expect: its claim stays.
Crash(q) ==
    /\ requests[q] # Idle /\ Answered(q)
    /\ abandoned' = IF Works(q, requests[q].handle)
                    THEN abandoned \cup {requests[q].handle} ELSE abandoned
    /\ UNCHANGED <<store, H5, challenges, outcomes, world>>

Change == changes < MaxChanges /\ changes' = changes + 1

\* The webhook completes or fails the enrollment in time, or finds its time over.
EnrollmentEnds(h) ==
    /\ enrollments[h] = "PENDING"
    /\ \E end \in {"COMPLETED", "FAILED", "EXPIRED"} :
        /\ h \in lapsed => end = "EXPIRED"
        /\ enrollments' = [enrollments EXCEPT ![h] = end]
        /\ face' = (face \/ end = "COMPLETED")
    /\ UNCHANGED <<store, requests, consented, starts, lapsed, challenges, outcomes,
                   abandoned, world>>

\* The deadline of the enrollment passes, whatever became of it.
EnrollmentLapses(h) ==
    /\ enrollments[h] # "NONE" /\ h \notin lapsed /\ lapsed' = lapsed \cup {h}
    /\ UNCHANGED <<store, requests, consented, face, starts, enrollments, challenges,
                   outcomes, abandoned, world>>

\* Five minutes since the e-mail authentication are over.
Stale(h) ==
    /\ h \in fresh /\ fresh' = fresh \ {h}
    /\ UNCHANGED <<store, requests, H5, challenges, outcomes, abandoned, trusted, changes>>

\* The client is suspended or the subject no longer eligible.
Distrust ==
    /\ Change /\ trusted /\ trusted' = FALSE
    /\ UNCHANGED <<store, requests, H5, challenges, outcomes, abandoned, fresh>>

\* The subject gets its face another way: a ceremony of another browser, the legacy
\* enrollment, or a merge.
FaceElsewhere ==
    /\ Change /\ ~face /\ face' = TRUE
    /\ UNCHANGED <<store, requests, consented, starts, enrollments, lapsed, challenges,
                   outcomes, abandoned, fresh, trusted>>

-----------------------------------------------------------------------------
Init ==
    /\ store = [h \in Handles |-> [phase |-> "NEW"]] /\ requests = [q \in Requests |-> Idle]
    /\ fresh = {} /\ trusted = TRUE /\ consented \in BOOLEAN /\ face = FALSE
    /\ challenges = [h \in Handles |-> 0] /\ starts = [h \in Handles |-> 0]
    /\ enrollments = [h \in Handles |-> "NONE"] /\ outcomes = [h \in Handles |-> "NONE"]
    /\ lapsed = {} /\ abandoned = {} /\ changes = 0

Serve(q) ==
    \/ Save(q) \/ Finish(q) \/ ClaimEmail(q) \/ EmailRefused(q) \/ EmailStarted(q)
    \/ EmailVerified(q) \/ Decide(q) \/ ClaimConsent(q) \/ AcceptConsent(q)
    \/ StartEnrollment(q) \/ Callback(q) \/ Resolve(q)

Next ==
    \/ \E q \in Requests :
        \/ Serve(q) \/ Crash(q)
        \/ \E h \in Handles : LoadCancel(q, h)
        \/ \E h \in Handles, kind \in Operations \cup {"agree", "not_now", "callback"} :
            Load(q, h, kind)
    \/ \E h \in Handles :
        Create(h) \/ Expire(h) \/ EnrollmentEnds(h) \/ EnrollmentLapses(h) \/ Stale(h)
    \/ Distrust \/ FaceElsewhere

Spec == Init /\ [][Next]_vars

-----------------------------------------------------------------------------
(* Properties.                                                             *)

\* The variables have their types; what is stored satisfies interactionSchema.
TypeOK ==
    /\ store \in [Handles -> Interactions \cup Ended]
    /\ requests \in [Requests -> RequestStates]
    /\ fresh \subseteq Handles /\ lapsed \subseteq Handles /\ abandoned \subseteq Handles
    /\ trusted \in BOOLEAN /\ consented \in BOOLEAN /\ face \in BOOLEAN
    /\ challenges \in [Handles -> Nat] /\ starts \in [Handles -> Nat]
    /\ enrollments \in [Handles -> {"NONE", "PENDING", "COMPLETED", "FAILED", "EXPIRED"}]
    /\ outcomes \in [Handles -> Outcomes \cup {"NONE"}] /\ changes \in 0..MaxChanges

\* However often its forms are posted, an interaction starts one challenge and one
\* enrollment at most.
SideEffectsOnce == \A h \in Handles : challenges[h] =< 1 /\ starts[h] =< 1

Rank(i) ==
    CASE i.phase = "NEW" -> 0
      [] i.phase = "EMAIL" -> IF i.email THEN 2 ELSE 1
      [] i.phase = "CONSENT" -> 3
      [] i.phase \in {"STARTING", "CANCELLED"} -> 4
      [] i.phase = "ENROLLING" -> 5
      [] i.phase \in {"CONSUMED", "EXPIRED"} -> 6

\* No writer, however stale, takes an interaction back: not to an earlier phase, not
\* out of CANCELLED, and not back to life.
Advances ==
    \A h \in Handles : store'[h] # store[h] =>
        /\ Rank(store[h]) =< Rank(store'[h]) /\ Rank(store[h]) < 6
        /\ store[h].phase \in {"ENROLLING", "CANCELLED"} => store'[h].phase \in {"CONSUMED", "EXPIRED"}

PhasesAdvance == [][Advances]_vars

\* The page that makes the browser wait
Processing(h) == Live(h) /\ (store[h].operation # "NONE" \/ store[h].phase = "STARTING")

\* A browser is only kept waiting while a request works on its interaction, unless
\* that request died with its claim.
ProcessingHasWorker ==
    \A h \in Handles : Processing(h) => h \in abandoned \/ \E q \in Requests : Works(q, h)

\* The application is told of success only when the subject has an active face, and never
\* of an interaction whose own enrollment is pending, or failed and is still in its time;
\* and it is told once.
OutcomeSound ==
    \A h \in Handles :
        /\ outcomes[h] = "success" => face /\ StatusOf(h) \notin {"PENDING", "FAILED"}
        /\ outcomes[h] # "NONE" <=> store[h].phase = "CONSUMED"

\* The comment of the callback: "FAILED/CONFLICT are terminal provider outcomes and never
\* become success" (routes/faceSetup.ts:499).  They do: past its deadline a failed
\* enrollment is answered as EXPIRED, and then a face that came another way decides.
FailureIsFinal == \A h \in Handles : outcomes[h] = "success" => enrollments[h] # "FAILED"

\* What is stored is well-formed, its effects happened once, and the outcome told
\* to the application is true and told once.
SetupConsistent == TypeOK /\ SideEffectsOnce /\ OutcomeSound
=============================================================================
