---------------------------- MODULE FaceEnrollment ----------------------------
(***************************************************************************)
(* H5: attaching a face to an existing subject (src/src/authenticators).   *)
(* A start reserves a ceremony, creates a session at the provider and      *)
(* binds it, each in a step of its own; the provider's webhooks complete   *)
(* it.  A webhook waits for the rows of subject and ceremony, then for the *)
(* lock of the face, and only then attaches it.                            *)
(* Between any two steps other requests, the legacy enrollment, a merge,   *)
(* an administrator, a crash or a deadline may intervene.                  *)
(***************************************************************************)
EXTENDS Integers, FiniteSets

CONSTANTS
    Subjects, Clients, Faces,   \* canonical subjects, OIDC clients, PUIDs
    Ceremonies,                 \* provider transaction ids
    Webhooks,                   \* deliveries the service handles at once
    NoCeremony, NoOne, NoFace,  \* absence values
    Freshness,                  \* FACE_ENROLLMENT_FRESHNESS_MS
    TTL,                        \* FACE_ENROLLMENT_TTL_MS
    MaxTime,                    \* bound of the clock
    MaxChanges                  \* bound of the steps of other writers

ASSUME PositiveTimes == Freshness \in Nat /\ TTL \in Nat \ {0} /\ MaxTime \in Nat /\ MaxChanges \in Nat
ASSUME AbsentValues ==
    /\ Subjects \cap Faces = {} /\ NoOne \notin Subjects \cup Faces
    /\ NoFace \notin Faces

VARIABLES
    clock,
    eligible,        \* ACTIVE subjects of HAPI_EMAIL with a verified address
    open,            \* clients active with their application and tenant
    consents,        \* <<subject, client>> with a consent row
    legacy,          \* faces that have an identity of provider PrivateID
    authenticators,  \* user_authenticators by provider_subject
    ceremonies,      \* privateid_enrollment_transactions with their bindings
    starts,          \* where the request that reserved a ceremony stands
    webhooks,        \* deliveries being handled
    changes          \* steps of other writers so far

vars == <<clock, eligible, open, consents, legacy, authenticators, ceremonies,
          starts, webhooks, changes>>
rows == <<eligible, open, consents, legacy, authenticators, ceremonies, changes>>

Times == 0..MaxTime + TTL
Verdicts == {"SUCCESS", "FAILURE", "EXPIRED"}
Idle == [stage |-> "IDLE"]

CeremonyRows ==
    [subject : Subjects, client : Clients, authAt : Times, expires : Times,
     status : {"pending", "completed", "failed", "expired"},
     bound : BOOLEAN, conflict : BOOLEAN, face : Faces \cup {NoFace}]
ASSUME NoCeremonyRow == NoCeremony \notin CeremonyRows
ASSUME FiniteFaces == IsFiniteSet(Faces)

\* The PrivateID identity that the legacy enrollment mints for a face is named
\* by the face.
AuthenticatorRows ==
    [owner : Subjects \cup Faces \cup {NoOne}, status : {"active", "revoked", "none"}]
NoRow == [owner |-> NoOne, status |-> "none"]
Deliveries ==
    {Idle} \cup [stage : {"HELD", "CHECKED"}, ceremony : Ceremonies, face : Faces]

-----------------------------------------------------------------------------
(* Reads of the rows, and the locks a transaction in progress holds.       *)

Pending(c) == ceremonies[c] # NoCeremony /\ ceremonies[c].status = "pending"

\* Mutant: whether the ceremony is still pending is not read again.
LiveByClock(c) == ceremonies[c] # NoCeremony /\ ceremonies[c].expires > clock

Live(c) == Pending(c) /\ ceremonies[c].expires > clock

\* activeContext
Context(s, cl) == s \in eligible /\ cl \in open

\* requireRecentEmailAuthority, by the clock of the database
Recent(at) == at =< clock /\ clock - at =< Freshness

ActiveFaces(s) ==
    {f \in Faces : authenticators[f].owner = s /\ authenticators[f].status = "active"}

\* FOR UPDATE on a subject, held from the check of the ceremony to the commit.
\* The ceremony's own row is locked with it and always after it.
SubjectFree(s) ==
    \A w \in Webhooks : webhooks[w] # Idle => ceremonies[webhooks[w].ceremony].subject # s

\* Mutant: the rows are read without FOR SHARE.
ClientFreeAlways(cl) == TRUE

\* FOR SHARE on tenant, application and client
ClientFree(cl) ==
    \A w \in Webhooks : webhooks[w] # Idle => ceremonies[webhooks[w].ceremony].client # cl

\* pg_advisory_xact_lock on the face
FaceFree(f) ==
    \A w \in Webhooks : webhooks[w].stage = "CHECKED" => webhooks[w].face # f

-----------------------------------------------------------------------------
(* Consent and start.                                                      *)

AcceptConsent(s, cl, at) ==
    /\ SubjectFree(s) /\ Context(s, cl) /\ Recent(at)
    /\ consents' = consents \cup {<<s, cl>>}
    /\ UNCHANGED <<clock, eligible, open, legacy, authenticators, ceremonies,
                   starts, webhooks, changes>>

\* Mutant: the transaction is inserted without its binding.
FreshUnbound(s, cl, at) ==
    [subject |-> s, client |-> cl, authAt |-> at, expires |-> clock + TTL,
     status |-> "pending", conflict |-> FALSE, face |-> NoFace]

Fresh(s, cl, at) ==
    [subject |-> s, client |-> cl, authAt |-> at, expires |-> clock + TTL,
     status |-> "pending", bound |-> FALSE, conflict |-> FALSE, face |-> NoFace]

\* Mutant: an expired ceremony that nobody has ended yet blocks the next one.
AdmittedAlone(s, cl, at) ==
    /\ Context(s, cl) /\ Recent(at)
    /\ ActiveFaces(s) = {} /\ <<s, cl>> \in consents
    /\ \A d \in Ceremonies : Pending(d) => ceremonies[d].subject # s

\* Whether reserve admits a start: not if a face is active, consent is missing
\* or a ceremony of the subject is live, whatever client that is for.
Admitted(s, cl, at) ==
    /\ Context(s, cl) /\ Recent(at)
    /\ ActiveFaces(s) = {} /\ <<s, cl>> \in consents
    /\ \A d \in Ceremonies : Live(d) => ceremonies[d].subject # s

\* Mutant: expired ceremonies stay pending.
ReserveOnly(c, s, cl, at) ==
    /\ ceremonies[c] = NoCeremony /\ SubjectFree(s) /\ Admitted(s, cl, at)
    /\ ceremonies' = [ceremonies EXCEPT ![c] = Fresh(s, cl, at)]
    /\ starts' = [starts EXCEPT ![c] = "RESERVED"]
    /\ UNCHANGED <<clock, eligible, open, consents, legacy, authenticators,
                   webhooks, changes>>

Reserve(c, s, cl, at) ==
    /\ ceremonies[c] = NoCeremony /\ SubjectFree(s) /\ Admitted(s, cl, at)
    /\ ceremonies' = [d \in Ceremonies |->
            IF d = c THEN Fresh(s, cl, at)
            ELSE IF Pending(d) /\ ceremonies[d].subject = s
            THEN [ceremonies[d] EXCEPT !.status = "expired"]
            ELSE ceremonies[d]]
    /\ starts' = [starts EXCEPT ![c] = "RESERVED"]
    /\ UNCHANGED <<clock, eligible, open, consents, legacy, authenticators,
                   webhooks, changes>>

\* createSession answers, or fails.
CreateSession(c) ==
    /\ starts[c] = "RESERVED"
    /\ \E stage \in {"CREATED", "FAILING"} : starts' = [starts EXCEPT ![c] = stage]
    /\ UNCHANGED <<clock, rows, webhooks>>

Earlier(a, b) == IF a < b THEN a ELSE b

Bindable(c, until) ==
    /\ Live(c) /\ Context(ceremonies[c].subject, ceremonies[c].client) /\ until > clock

\* bind, for a session that expires at `until`.  The commit may succeed and its
\* answer be lost.
Bind(c, until) ==
    LET e == ceremonies[c] IN
    /\ starts[c] = "CREATED" /\ SubjectFree(e.subject)
    /\ \/ /\ Bindable(c, until)
          /\ ceremonies' = [ceremonies EXCEPT ![c].bound = TRUE,
                                              ![c].expires = Earlier(until, e.expires)]
          /\ \E stage \in {"DONE", "FAILING"} : starts' = [starts EXCEPT ![c] = stage]
       \/ /\ ~Bindable(c, until)
          /\ starts' = [starts EXCEPT ![c] = "FAILING"]
          /\ UNCHANGED ceremonies
    /\ UNCHANGED <<clock, eligible, open, consents, legacy, authenticators,
                   webhooks, changes>>

\* End of ceremony c in a transaction that holds its row
Ended(c, status) == [ceremonies EXCEPT ![c].status = status]

\* Mutant: the ceremony is failed without reading its row again.
FailBlindly(c) ==
    /\ starts[c] = "FAILING" /\ SubjectFree(ceremonies[c].subject)
    /\ ceremonies' = Ended(c, "failed")
    /\ starts' = [starts EXCEPT ![c] = "DONE"]
    /\ UNCHANGED <<clock, eligible, open, consents, legacy, authenticators,
                   webhooks, changes>>

\* fail: the row is read again under the lock
Fail(c) ==
    /\ starts[c] = "FAILING" /\ SubjectFree(ceremonies[c].subject)
    /\ ceremonies' = IF Pending(c) THEN Ended(c, "failed") ELSE ceremonies
    /\ starts' = [starts EXCEPT ![c] = "DONE"]
    /\ UNCHANGED <<clock, eligible, open, consents, legacy, authenticators,
                   webhooks, changes>>

CrashStart(c) ==
    /\ starts[c] \in {"RESERVED", "CREATED", "FAILING"}
    /\ starts' = [starts EXCEPT ![c] = "DONE"]
    /\ UNCHANGED <<clock, rows, webhooks>>

-----------------------------------------------------------------------------
(* Webhooks.  One that is answered leaves its slot idle; one that changes  *)
(* nothing (a ceremony already ended, PENDING, invalid evidence) is left   *)
(* out.                                                                    *)

Answered(w) == webhooks' = [webhooks EXCEPT ![w] = Idle]

\* find, then the locks of subject and ceremony, under which the row is read
\* again.  What find alone decides, that the session is bound, never changes
\* back; a webhook that comes before bind is refused with 400.
WebhookLocks(w, c, verdict, f) ==
    LET e == ceremonies[c] IN
    /\ webhooks[w] = Idle /\ e # NoCeremony /\ e.bound /\ SubjectFree(e.subject)
    /\ \/ /\ Pending(c) /\ ~(Live(c) /\ Context(e.subject, e.client))
          /\ ceremonies' = Ended(c, IF Live(c) THEN "failed" ELSE "expired")
          /\ UNCHANGED webhooks
       \/ /\ Live(c) /\ Context(e.subject, e.client)
          /\ \/ /\ verdict \in {"FAILURE", "EXPIRED"}
                /\ ceremonies' = Ended(c, IF verdict = "EXPIRED" THEN "expired" ELSE "failed")
                /\ UNCHANGED webhooks
             \/ /\ verdict = "SUCCESS"
                /\ webhooks' = [webhooks EXCEPT ![w] =
                        [stage |-> "HELD", ceremony |-> c, face |-> f]]
                /\ UNCHANGED ceremonies
    /\ UNCHANGED <<clock, eligible, open, consents, legacy, authenticators, starts, changes>>

\* A face is another's, revoked, or not the one the subject already has
Conflict(s, f) ==
    \/ f \in legacy
    \/ authenticators[f].owner \notin {s, NoOne}
    \/ authenticators[f].status = "revoked"
    \/ ActiveFaces(s) \ {f} # {}

ConflictEnded(c) ==
    [ceremonies EXCEPT ![c].status = "failed", ![c].conflict = TRUE]

WebhookLocksFace(w) ==
    LET c == webhooks[w].ceremony
        f == webhooks[w].face IN
    /\ webhooks[w].stage = "HELD" /\ FaceFree(f)
    /\ \/ /\ Conflict(ceremonies[c].subject, f)
          /\ ceremonies' = ConflictEnded(c) /\ Answered(w)
       \/ /\ ~Conflict(ceremonies[c].subject, f) /\ ~Live(c)
          /\ ceremonies' = Ended(c, "expired") /\ Answered(w)
       \/ /\ ~Conflict(ceremonies[c].subject, f) /\ Live(c)
          /\ webhooks' = [webhooks EXCEPT ![w].stage = "CHECKED"]
          /\ UNCHANGED ceremonies
    /\ UNCHANGED <<clock, eligible, open, consents, legacy, authenticators, starts, changes>>

\* INSERT ... ON CONFLICT DO NOTHING under both unique indexes
Insertable(s, f) == authenticators[f] = NoRow /\ ActiveFaces(s) = {}

Owned(s, f) == authenticators[f] = [owner |-> s, status |-> "active"]

WebhookAttaches(w) ==
    LET c == webhooks[w].ceremony
        f == webhooks[w].face
        s == ceremonies[c].subject IN
    /\ webhooks[w].stage = "CHECKED"
    /\ \/ /\ ~Live(c)
          /\ ceremonies' = Ended(c, "expired") /\ UNCHANGED authenticators
       \/ /\ Live(c) /\ (Insertable(s, f) \/ Owned(s, f))
          /\ authenticators' = [authenticators EXCEPT ![f] = [owner |-> s, status |-> "active"]]
          /\ ceremonies' = [ceremonies EXCEPT ![c].status = "completed", ![c].face = f]
       \/ /\ Live(c) /\ ~Insertable(s, f) /\ ~Owned(s, f)
          /\ ceremonies' = ConflictEnded(c) /\ UNCHANGED authenticators
    /\ Answered(w)
    /\ UNCHANGED <<clock, eligible, open, consents, legacy, starts, changes>>

\* The process dies or a statement fails: the transaction is rolled back.
CrashWebhook(w) ==
    /\ webhooks[w] # Idle /\ Answered(w)
    /\ UNCHANGED <<clock, rows, starts>>

-----------------------------------------------------------------------------
(* The other writers of the same rows, none of which takes the face's lock. *)

Change == changes < MaxChanges /\ changes' = changes + 1

\* resolveOrCreate for provider PrivateID, and the authenticator created next
LegacyIdentity(f) ==
    /\ Change /\ legacy' = legacy \cup {f}
    /\ UNCHANGED <<clock, eligible, open, consents, authenticators, ceremonies,
                   starts, webhooks>>

LegacyAuthenticator(f) ==
    /\ Change /\ f \in legacy /\ authenticators[f] = NoRow
    /\ authenticators' = [authenticators EXCEPT ![f] =
            [owner |-> f, status |-> "active"]]
    /\ UNCHANGED <<clock, eligible, open, consents, legacy, ceremonies, starts,
                   webhooks>>

\* FOR UPDATE on the face's authenticator, if there was one to lock
RowFree(f) ==
    \A w \in Webhooks : (webhooks[w].stage = "CHECKED" /\ webhooks[w].face = f) =>
        authenticators[f].owner # ceremonies[webhooks[w].ceremony].subject

Revoke(f) ==
    /\ Change /\ RowFree(f) /\ authenticators[f].status = "active"
    /\ authenticators' = [authenticators EXCEPT ![f].status = "revoked"]
    /\ UNCHANGED <<clock, eligible, open, consents, legacy, ceremonies, starts,
                   webhooks>>

\* Link repair points a face's authenticator at its PrivateID identity.
Repair(f) ==
    /\ Change /\ f \in legacy /\ RowFree(f) /\ authenticators[f] # NoRow
    /\ authenticators[f].status = "active" => ActiveFaces(f) \subseteq {f}
    /\ authenticators' = [authenticators EXCEPT ![f].owner = f]
    /\ UNCHANGED <<clock, eligible, open, consents, legacy, ceremonies, starts,
                   webhooks>>

\* A merge disables the loser (as a claim that changes its address makes it
\* ineligible), and then hands its faces to the survivor, unless that would give
\* the survivor two active ones.
Retire(s) ==
    /\ Change /\ SubjectFree(s) /\ eligible' = eligible \ {s}
    /\ UNCHANGED <<clock, open, consents, legacy, authenticators, ceremonies,
                   starts, webhooks>>

Reassign(from, to) ==
    LET moved == {f \in Faces : authenticators[f].owner = from} IN
    /\ Change /\ from # to /\ from \notin eligible /\ \A f \in moved : RowFree(f)
    /\ Cardinality(ActiveFaces(from) \cup ActiveFaces(to)) =< 1
    /\ authenticators' = [f \in Faces |->
            IF f \in moved THEN [authenticators[f] EXCEPT !.owner = to] ELSE authenticators[f]]
    /\ UNCHANGED <<clock, eligible, open, consents, legacy, ceremonies, starts,
                   webhooks>>

CloseClient(cl) ==
    /\ Change /\ ClientFree(cl) /\ open' = open \ {cl}
    /\ UNCHANGED <<clock, eligible, consents, legacy, authenticators, ceremonies,
                   starts, webhooks>>

Tick ==
    /\ clock < MaxTime /\ clock' = clock + 1
    /\ UNCHANGED <<rows, starts, webhooks>>

-----------------------------------------------------------------------------
Init ==
    /\ clock = 0 /\ eligible = Subjects /\ open = Clients /\ consents = {}
    /\ legacy \in SUBSET Faces
    /\ \E enrolled \in SUBSET legacy : authenticators = [f \in Faces |->
            IF f \in enrolled THEN [owner |-> f, status |-> "active"] ELSE NoRow]
    /\ ceremonies = [c \in Ceremonies |-> NoCeremony]
    /\ starts = [c \in Ceremonies |-> "NONE"]
    /\ webhooks = [w \in Webhooks |-> Idle]
    /\ changes = 0

StartNext ==
    \/ \E s \in Subjects, cl \in Clients, at \in Times : AcceptConsent(s, cl, at)
    \/ \E c \in Ceremonies, s \in Subjects, cl \in Clients, at \in Times : Reserve(c, s, cl, at)
    \/ \E c \in Ceremonies :
        \/ CreateSession(c) \/ Fail(c) \/ CrashStart(c)
        \/ \E until \in Times : Bind(c, until)

WebhookNext ==
    \E w \in Webhooks :
        \/ \E c \in Ceremonies, verdict \in Verdicts, f \in Faces :
            WebhookLocks(w, c, verdict, f)
        \/ WebhookLocksFace(w) \/ WebhookAttaches(w) \/ CrashWebhook(w)

OthersNext ==
    \/ \E f \in Faces : LegacyIdentity(f) \/ LegacyAuthenticator(f) \/ Revoke(f) \/ Repair(f)
    \/ \E s \in Subjects : Retire(s)
    \/ \E from \in Subjects \cup Faces, to \in Subjects : Reassign(from, to)
    \/ \E cl \in Clients : CloseClient(cl)
    \/ Tick

Next == StartNext \/ WebhookNext \/ OthersNext

Spec == Init /\ [][Next]_vars

-----------------------------------------------------------------------------
(* What the service tells its callers.                                     *)

\* GET .../enroll/:enrollmentId/status
StatusReply(c) ==
    LET e == ceremonies[c] IN
    CASE e = NoCeremony -> "NOT_FOUND"
      [] e # NoCeremony /\ (e.expires =< clock \/ e.status = "expired") -> "EXPIRED"
      [] e # NoCeremony /\ e.expires > clock /\ e.status = "completed" -> "COMPLETED"
      [] e # NoCeremony /\ e.expires > clock /\ e.status = "failed" ->
            IF e.conflict THEN "CONFLICT" ELSE "FAILED"
      [] OTHER -> "PENDING"

\* faceEnrollmentEligible of GET .../status, which asks for live ceremonies of
\* the caller's own client
EnrollmentEligible(s, cl, at) ==
    /\ Context(s, cl) /\ Recent(at) /\ <<s, cl>> \in consents
    /\ ActiveFaces(s) = {}
    /\ \A d \in Ceremonies : Live(d) =>
            ceremonies[d].subject # s \/ ceremonies[d].client # cl

-----------------------------------------------------------------------------
(* Properties.                                                             *)

\* The variables have their types.
TypeOK ==
    /\ clock \in 0..MaxTime
    /\ eligible \subseteq Subjects /\ open \subseteq Clients
    /\ consents \subseteq Subjects \X Clients /\ legacy \subseteq Faces
    /\ authenticators \in [Faces -> AuthenticatorRows]
    /\ ceremonies \in [Ceremonies -> CeremonyRows \cup {NoCeremony}]
    /\ starts \in [Ceremonies -> {"NONE", "RESERVED", "CREATED", "FAILING", "DONE"}]
    /\ webhooks \in [Webhooks -> Deliveries]
    /\ changes \in 0..MaxChanges

\* A subject has one pending ceremony at most, whatever starts, crashes and
\* deadlines came before.
OnePendingPerSubject ==
    \A c, d \in Ceremonies :
        Pending(c) /\ Pending(d) /\ ceremonies[c].subject = ceremonies[d].subject => c = d

\* A ceremony that was completed, failed or expired never changes again: not
\* when a start whose answer was lost fails it, and not by a late webhook.
EndsStand ==
    [][\A c \in Ceremonies : ceremonies[c] # NoCeremony /\ ~Pending(c) =>
            ceremonies'[c] = ceremonies[c]]_vars

Completes(c) == Pending(c) /\ ceremonies'[c].status = "completed"

\* At the moment a ceremony completes, its subject and client are still good,
\* the subject has consented there, its session is bound, the deadline is ahead
\* and no later than its e-mail proof allows; and the face, which nobody else had
\* and nobody revoked, becomes the one active face of that subject.
CompletionSound ==
    [][\A c \in Ceremonies : Completes(c) =>
        LET e == ceremonies[c]
            face == ceremonies'[c].face IN
        /\ Context(e.subject, e.client) /\ <<e.subject, e.client>> \in consents
        /\ e.bound /\ clock < e.expires /\ clock < e.authAt + Freshness + TTL
        /\ authenticators[face] = NoRow \/ Owned(e.subject, face)
        /\ \A f \in Faces :
            authenticators'[f] = [owner |-> e.subject, status |-> "active"] <=> f = face]_vars

\* No face with an identity of its own at the provider is attached to another
\* subject.
CompletionExcludesLegacy ==
    [][\A c \in Ceremonies : Completes(c) => ceremonies'[c].face \notin legacy]_vars

\* What status has reported as final it reports until it reports EXPIRED, and
\* an expired ceremony is never reported alive.
ReportsStand ==
    [][\A c \in Ceremonies :
        StatusReply(c) \in {"COMPLETED", "FAILED", "CONFLICT", "EXPIRED"} =>
            StatusReply(c)' \in {StatusReply(c), "EXPIRED"}]_vars

\* A subject told that it may enrol is admitted, unless it has a ceremony with
\* another client.
EligibilityTold ==
    \A s \in Subjects, cl \in Clients, at \in 0..clock :
        EnrollmentEligible(s, cl, at) => \/ Admitted(s, cl, at)
                                         \/ \E d \in Ceremonies : Live(d) /\ ceremonies[d].client # cl

\* The rows are well-formed, no subject has two pending ceremonies, and what it is
\* told of its eligibility is so.
CeremoniesConsistent == TypeOK /\ OnePendingPerSubject /\ EligibilityTold

\* How a ceremony ended is final, on record and in every later answer about it.
OutcomesStand == EndsStand /\ ReportsStand
=============================================================================
