----------------------------- MODULE EmailSignIn -----------------------------
(***************************************************************************)
(* H3 registration, H4 email authentication and their interactive          *)
(* composition, over the rows that H2 leaves them:                         *)
(*   src/registration/PostgresRegistrationRepository.ts,                   *)
(*   src/authentication/email/PostgresEmailAuthenticationRepository.ts,    *)
(*   src/adapters/email/EmailVerificationComposition.ts.                   *)
(*                                                                         *)
(* A proof of an address (a VERIFIED challenge) is turned into a principal *)
(* by several transactions of one request, with other requests, changes of *)
(* the identity table and crashes between any two of them.  What H2 does   *)
(* to a challenge is module EmailVerification; here its operations are     *)
(* seen by their effect on status and deadline alone.                      *)
(***************************************************************************)
EXTENDS Integers, Sequences

CONSTANTS
    Clients, Applications,
    ApplicationOf,             \* the application each OIDC client belongs to
    Emails, NoEmail,           \* addresses, and an identifier that is none
    ChallengeIds, SubjectIds,
    RequestIds,                \* HTTP requests being served
    NoApplication, NoChallenge, NoSubject, NoResult, NoClient,
    Expiration,                \* lifetime of a challenge
    ResultTTL,                 \* lifetime of an authentication result
    MaxTime, MaxChanges        \* bounds: clock, changes of the identity table

ASSUME TimesAssumption ==
    /\ Expiration \in Nat \ {0} /\ ResultTTL \in Nat \ {0}
    /\ MaxTime \in Nat /\ MaxChanges \in Nat

ASSUME ClientsAssumption == ApplicationOf \in [Clients -> Applications]

Modes == {"AUTHENTICATION", "REGISTRATION", "INELIGIBLE"}

\* Mutant: an ineligible address is sent a registration code.
PurposeReversed == [AUTHENTICATION |-> "AUTHENTICATION", REGISTRATION |-> "REGISTRATION",
                    INELIGIBLE |-> "REGISTRATION"]

Purpose == [AUTHENTICATION |-> "AUTHENTICATION", REGISTRATION |-> "REGISTRATION",
            INELIGIBLE |-> "AUTHENTICATION"]

\* A verification_challenges row, with the mode that the login interaction
\* remembers for it.
Challenge ==
    [application : Applications, email : Emails, mode : Modes,
     status : {"PENDING", "VERIFIED", "EXPIRED", "LOCKED", "CONSUMED"},
     expiresAt : Nat]

\* An identity_subjects row; handle is the primary provider's subject.
Subject ==
    [application : Applications \cup {NoApplication}, provider : {"HAPI_EMAIL", "PrivateID"},
     handle : Emails \cup {NoEmail}, email : Emails \cup {NoEmail},
     emailVerified : BOOLEAN, status : {"ACTIVE", "DISABLED"}]

\* An email_authentication_results row; its challenge is its unique key.
Result ==
    [subject : SubjectIds, client : Clients, expiresAt : Nat, consumed : BOOLEAN]

Principal == [subject : SubjectIds, client : Clients, at : Nat]

\* Where a request is: before its first transaction, after H2 verified its
\* code, inside H3's transaction after its checks, after H3, or at its end.
Stages == {"IDLE", "PROVED", "COMPLETING", "CHECKED", "REGISTERED",
           "DONE", "DENIED", "CRASHED"}

Request ==
    [stage : Stages, client : Clients \cup {NoClient},
     challenge : ChallengeIds \cup {NoChallenge}, interactive : BOOLEAN]

ASSUME AbsenceAssumption ==
    /\ NoChallenge \notin Challenge /\ NoChallenge \notin ChallengeIds
    /\ NoSubject \notin Subject /\ NoSubject \notin SubjectIds
    /\ NoResult \notin Result /\ NoClient \notin Clients
    /\ NoEmail \notin Emails /\ NoApplication \notin Applications

VARIABLES
    clock, challenges, subjects,
    evidence,    \* evidence[c]: the subject of the registration_evidence row
    results,     \* results[c]: the authentication result of challenge c
    requests,
    principals,  \* principals[c]: who was signed in by challenge c, in order
    changes      \* how many changes of the identity table so far (bounded)

vars == <<clock, challenges, subjects, evidence, results, requests, principals, changes>>

Init ==
    /\ clock = 0
    /\ challenges = [c \in ChallengeIds |-> NoChallenge]
    /\ subjects = [s \in SubjectIds |-> NoSubject]
    /\ evidence = [c \in ChallengeIds |-> NoSubject]
    /\ results = [c \in ChallengeIds |-> NoResult]
    /\ requests = [r \in RequestIds |->
         [stage |-> "IDLE", client |-> NoClient, challenge |-> NoChallenge,
          interactive |-> FALSE]]
    /\ principals = [c \in ChallengeIds |-> <<>>]
    /\ changes = 0

-----------------------------------------------------------------------------
(* Reads of the identity table.                                            *)

Issued(c) == challenges[c] # NoChallenge
Known(s) == subjects[s] # NoSubject

\* findByProviderSubject("HAPI_EMAIL", email).
Owns(s, email) ==
    Known(s) /\ subjects[s].provider = "HAPI_EMAIL" /\ subjects[s].handle = email

\* eligible and isEligibleEmailSubject.
Eligible(s, email) ==
    /\ Owns(s, email)
    /\ subjects[s].email = email
    /\ subjects[s].status = "ACTIVE"
    /\ subjects[s].emailVerified

\* Registration's conflict: the address is a claim of another provider's subject.
ClaimedElsewhere(email) ==
    \E s \in SubjectIds : /\ Known(s)
                          /\ subjects[s].email = email
                          /\ subjects[s].provider # "HAPI_EMAIL"

\* The interactive mode of an address, decided when the flow starts.
Claimants(email) ==
    {s \in SubjectIds : Owns(s, email) \/ (Known(s) /\ subjects[s].email = email)}

ModeFor(email) ==
    IF Claimants(email) = {} THEN "REGISTRATION"
    ELSE IF \E s \in SubjectIds : Claimants(email) = {s} /\ Eligible(s, email)
         THEN "AUTHENTICATION" ELSE "INELIGIBLE"

-----------------------------------------------------------------------------
(* Steps of a request.                                                     *)

Goto(r, stage) == requests' = [requests EXCEPT ![r].stage = stage]

SetStatus(c, status) == challenges' = [challenges EXCEPT ![c].status = status]

Expired(c) == challenges[c].expiresAt <= clock

\* The caller's context is the challenge's.
InContext(client, c) ==
    Issued(c) /\ challenges[c].application = ApplicationOf[client]

SignIn(c, client, s) ==
    principals' = [principals EXCEPT ![c] =
        Append(@, [subject |-> s, client |-> client, at |-> clock])]

\* Mutant: a request that dies inside the transaction keeps its row lock.
RowLockedForever(c) ==
    \E r \in RequestIds : requests[r].stage \in {"CHECKED", "CRASHED"} /\ requests[r].challenge = c

RowLocked(c) == \E r \in RequestIds : requests[r].stage = "CHECKED" /\ requests[r].challenge = c

\* Every H2 transaction takes the row locks of all challenges of its
\* destination, so it waits for a registration that holds one of them.
DestinationFree(email) ==
    \A c \in ChallengeIds : Issued(c) /\ challenges[c].email = email => ~RowLocked(c)

-----------------------------------------------------------------------------
(* H2 as seen from here.                                                   *)

\* The interactive start chooses the mode; an application that calls the H2,
\* H3 and H4 routes itself chooses the purpose.
Start(client, email, mode, c) ==
    /\ ~Issued(c) /\ DestinationFree(email)
    /\ mode \in {ModeFor(email), "AUTHENTICATION", "REGISTRATION"}
    /\ challenges' = [challenges EXCEPT ![c] =
         [application |-> ApplicationOf[client], email |-> email, mode |-> mode,
          status |-> "PENDING", expiresAt |-> clock + Expiration]]
    /\ UNCHANGED <<clock, subjects, evidence, results, requests, principals, changes>>

\* A resend renews the deadline of a pending challenge.
Resend(c) ==
    /\ Issued(c) /\ DestinationFree(challenges[c].email)
    /\ challenges[c].status = "PENDING" /\ ~Expired(c)
    /\ challenges' = [challenges EXCEPT ![c].expiresAt = clock + Expiration]
    /\ UNCHANGED <<clock, subjects, evidence, results, requests, principals, changes>>

\* Verify or resend after the deadline, or the last wrong code.
Abandon(c) ==
    /\ Issued(c) /\ DestinationFree(challenges[c].email)
    /\ challenges[c].status = "PENDING"
    /\ SetStatus(c, IF Expired(c) THEN "EXPIRED" ELSE "LOCKED")
    /\ UNCHANGED <<clock, subjects, evidence, results, requests, principals, changes>>

\* The first transaction of verify: the right code arrives with a request,
\* of the login page or of an application calling H4 (interactive), or of an
\* application that proves the address by the H2 route and goes no further.
Prove(r, client, c, interactive) ==
    /\ requests[r].stage = "IDLE"
    /\ InContext(client, c) /\ DestinationFree(challenges[c].email)
    /\ challenges[c].status = "PENDING" /\ ~Expired(c)
    /\ SetStatus(c, "VERIFIED")
    /\ requests' = [requests EXCEPT ![r] =
         [stage |-> IF interactive THEN "PROVED" ELSE "DONE", client |-> client,
          challenge |-> c, interactive |-> interactive]]
    /\ UNCHANGED <<clock, subjects, evidence, results, principals, changes>>

\* INELIGIBLE: the proof is consumed and the request denied in any case.
BurnProof(r) ==
    LET c == requests[r].challenge IN
    /\ requests[r].stage = "PROVED" /\ challenges[c].mode = "INELIGIBLE"
    /\ DestinationFree(challenges[c].email)
    /\ IF challenges[c].status = "VERIFIED"
       THEN SetStatus(c, IF Expired(c) THEN "EXPIRED" ELSE "CONSUMED")
       ELSE UNCHANGED challenges
    /\ Goto(r, "DENIED")
    /\ UNCHANGED <<clock, subjects, evidence, results, principals, changes>>

-----------------------------------------------------------------------------
(* H4.                                                                     *)

NewResult(s, client) ==
    [subject |-> s, client |-> client, expiresAt |-> clock + ResultTTL, consumed |-> FALSE]

\* Mutant: establish forgets that the proof may have run out.
ProvenAny(c) == challenges[c].status = "VERIFIED"

Proven(c) == challenges[c].status = "VERIFIED" /\ ~Expired(c)

\* establish: an ineligible identity burns the proof.
Establish(r) ==
    LET c == requests[r].challenge
        client == requests[r].client
        email == challenges[c].email
    IN
    /\ requests[r].stage = "PROVED" /\ challenges[c].mode = "AUTHENTICATION"
    /\ \/ /\ ~(InContext(client, c) /\ Proven(c))
          /\ Goto(r, "DENIED")
          /\ UNCHANGED <<challenges, results>>
       \/ /\ InContext(client, c) /\ Proven(c)
          /\ ~\E s \in SubjectIds : Eligible(s, email)
          /\ SetStatus(c, "CONSUMED")
          /\ Goto(r, "DENIED")
          /\ UNCHANGED results
       \/ /\ InContext(client, c) /\ Proven(c)
          /\ \E s \in SubjectIds :
               /\ Eligible(s, email)
               /\ results' = [results EXCEPT ![c] = NewResult(s, client)]
          /\ SetStatus(c, "CONSUMED")
          /\ Goto(r, "DONE")
    /\ UNCHANGED <<clock, subjects, evidence, principals, changes>>

\* Mutant: a result may be presented again.
UsableAgain(result, client) == clock < result.expiresAt /\ result.client = client

\* Tenant and application of a result follow from its client.
Usable(result, client) ==
    /\ ~result.consumed
    /\ clock < result.expiresAt
    /\ result.client = client

\* Mutant: the identity was checked when the result was made; that will do.
ConsumeResultTrusting(client, c) ==
    /\ results[c] # NoResult
    /\ Usable(results[c], client)
    /\ results' = [results EXCEPT ![c].consumed = TRUE]
    /\ SignIn(c, client, results[c].subject)
    /\ UNCHANGED <<clock, challenges, subjects, evidence, requests, changes>>

\* consumeResult: whoever holds the token presents it as some client, at the
\* end of the login request or later with /authorize; the identity is read
\* again, and the result is spent whether or not it is still eligible.
ConsumeResult(client, c) ==
    /\ results[c] # NoResult
    /\ Usable(results[c], client)
    /\ results' = [results EXCEPT ![c].consumed = TRUE]
    /\ IF Eligible(results[c].subject, challenges[c].email)
       THEN SignIn(c, client, results[c].subject)
       ELSE UNCHANGED principals
    /\ UNCHANGED <<clock, challenges, subjects, evidence, requests, changes>>

-----------------------------------------------------------------------------
(* H3: complete, one transaction in two steps.  The row lock on the        *)
(* challenge is held from the first to the second; the identity table is   *)
(* not locked where the conflict check found nothing.                      *)

\* The interactive request goes on to complete, or an application calls
\* POST /v1/registration/complete with any verification id.
CallComplete(r) ==
    /\ requests[r].stage = "PROVED"
    /\ challenges[requests[r].challenge].mode = "REGISTRATION"
    /\ Goto(r, "COMPLETING")
    /\ UNCHANGED <<clock, challenges, subjects, evidence, results, principals, changes>>

PostComplete(r, client, c) ==
    /\ requests[r].stage = "IDLE"
    /\ Issued(c)
    /\ requests' = [requests EXCEPT ![r] =
         [stage |-> "COMPLETING", client |-> client, challenge |-> c, interactive |-> FALSE]]
    /\ UNCHANGED <<clock, challenges, subjects, evidence, results, principals, changes>>

Registrable(client, c) ==
    InContext(client, c) /\ Purpose[challenges[c].mode] = "REGISTRATION"

\* A consumed challenge with its evidence answers a retry of the application
\* with the same subject; the login page does not accept it as a new proof.
Replayed(r, c) ==
    /\ challenges[c].status = "CONSUMED"
    /\ evidence[c] # NoSubject
    /\ ~requests[r].interactive

RefusedStage(r, c) ==
    IF Registrable(requests[r].client, c) /\ Replayed(r, c) THEN "DONE" ELSE "DENIED"

CheckRegistration(r) ==
    LET c == requests[r].challenge
        passes == /\ Registrable(requests[r].client, c)
                  /\ challenges[c].status = "VERIFIED"
                  /\ ~ClaimedElsewhere(challenges[c].email)
    IN
    /\ requests[r].stage = "COMPLETING"
    /\ ~RowLocked(c)
    /\ Goto(r, IF passes THEN "CHECKED" ELSE RefusedStage(r, c))
    /\ UNCHANGED <<clock, challenges, subjects, evidence, results, principals, changes>>

NewSubject(client, email) ==
    [application |-> ApplicationOf[client], provider |-> "HAPI_EMAIL",
     handle |-> email, email |-> email, emailVerified |-> TRUE, status |-> "ACTIVE"]

\* Mutant: the insert is not an upsert.
ResolvedAlwaysNew(s, email) == ~Known(s)

\* resolveOrCreate: the subject that owns the address, or else a new one.
Resolved(s, email) ==
    Owns(s, email) \/ (~Known(s) /\ ~\E t \in SubjectIds : Owns(t, email))

\* The subject, the evidence row and the consumption commit together; a
\* failure in between rolls everything back (Crash).
CommitRegistration(r) ==
    LET c == requests[r].challenge
        email == challenges[c].email
    IN
    /\ requests[r].stage = "CHECKED"
    /\ \E s \in SubjectIds :
         /\ Resolved(s, email)
         /\ subjects' = [subjects EXCEPT ![s] =
              IF Known(s) THEN @ ELSE NewSubject(requests[r].client, email)]
         /\ evidence' = [evidence EXCEPT ![c] = IF @ = NoSubject THEN s ELSE @]
    /\ SetStatus(c, "CONSUMED")
    /\ Goto(r, IF requests[r].interactive THEN "REGISTERED" ELSE "DONE")
    /\ UNCHANGED <<clock, results, principals, changes>>

\* The login page reads the registered subject again before it signs it in.
FinishRegistration(r) ==
    LET c == requests[r].challenge
        s == evidence[c]
    IN
    /\ requests[r].stage = "REGISTERED"
    /\ IF Eligible(s, challenges[c].email)
       THEN SignIn(c, requests[r].client, s) /\ Goto(r, "DONE")
       ELSE Goto(r, "DENIED") /\ UNCHANGED principals
    /\ UNCHANGED <<clock, challenges, subjects, evidence, results, changes>>

\* The process dies, or a database error ends the request between two
\* transactions; an open transaction is rolled back.
Crash(r) ==
    /\ requests[r].stage \in {"PROVED", "COMPLETING", "CHECKED", "REGISTERED"}
    /\ Goto(r, "CRASHED")
    /\ UNCHANGED <<clock, challenges, subjects, evidence, results, principals, changes>>

-----------------------------------------------------------------------------
(* The identity table, written by the rest of the service.                 *)

Change == changes < MaxChanges /\ changes' = changes + 1

\* The enrolment of a face mints a subject without an address.
CreateOther(s) ==
    /\ ~Known(s)
    /\ Change
    /\ subjects' = [subjects EXCEPT ![s] =
         [application |-> NoApplication, provider |-> "PrivateID", handle |-> NoEmail,
          email |-> NoEmail, emailVerified |-> FALSE, status |-> "ACTIVE"]]
    /\ UNCHANGED <<clock, challenges, evidence, results, requests, principals>>

\* update: an account link or a merge overrides the email claims (NoEmail is
\* an address of nobody else), or a merge retires the subject; nothing makes
\* it active again.
Update(s, email, verified, status) ==
    /\ Known(s)
    /\ status \in {subjects[s].status, "DISABLED"}
    /\ Change
    /\ subjects' = [subjects EXCEPT ![s] =
         [@ EXCEPT !.email = email, !.emailVerified = verified, !.status = status]]
    /\ UNCHANGED <<clock, challenges, evidence, results, requests, principals>>

\* relinkPrimaryProviderSubject: recovery points a subject, of whatever
\* provider, to a PrivateID user.
Relink(s) ==
    /\ Known(s)
    /\ Change
    /\ subjects' = [subjects EXCEPT ![s].handle = NoEmail]
    /\ UNCHANGED <<clock, challenges, evidence, results, requests, principals>>

Tick ==
    /\ clock < MaxTime
    /\ clock' = clock + 1
    /\ UNCHANGED <<challenges, subjects, evidence, results, requests, principals, changes>>

-----------------------------------------------------------------------------
Handler(r) ==
    \/ BurnProof(r)
    \/ Establish(r)
    \/ CallComplete(r)
    \/ CheckRegistration(r)
    \/ CommitRegistration(r)
    \/ FinishRegistration(r)

Arrival ==
    \E c \in ChallengeIds :
      \/ Resend(c)
      \/ Abandon(c)
      \/ \E client \in Clients :
           \/ \E email \in Emails, mode \in Modes : Start(client, email, mode, c)
           \/ \E r \in RequestIds, interactive \in BOOLEAN : Prove(r, client, c, interactive)
           \/ \E r \in RequestIds : PostComplete(r, client, c)
           \/ ConsumeResult(client, c)

TableChange ==
    \E s \in SubjectIds :
      \/ Relink(s)
      \/ CreateOther(s)
      \/ \E email \in Emails \cup {NoEmail}, verified \in BOOLEAN,
            status \in {"ACTIVE", "DISABLED"} : Update(s, email, verified, status)

Next ==
    \/ \E r \in RequestIds : Handler(r) \/ Crash(r)
    \/ Arrival
    \/ TableChange
    \/ Tick

Spec == Init /\ [][Next]_vars

\* A request that is being served goes on unless it crashes.
Fairness == \A r \in RequestIds : WF_vars(Handler(r))

LiveSpec == Spec /\ Fairness

-----------------------------------------------------------------------------
(* Properties.                                                             *)

TypeOK ==
    /\ clock \in Nat /\ changes \in Nat
    /\ challenges \in [ChallengeIds -> Challenge \cup {NoChallenge}]
    /\ subjects \in [SubjectIds -> Subject \cup {NoSubject}]
    /\ evidence \in [ChallengeIds -> SubjectIds \cup {NoSubject}]
    /\ results \in [ChallengeIds -> Result \cup {NoResult}]
    /\ requests \in [RequestIds -> Request]
    /\ principals \in [ChallengeIds -> Seq(Principal)]

\* One proof of an address signs in at most once, however many requests,
\* retries and clients race to use it and wherever they crash.
OnePrincipalPerProof == \A c \in ChallengeIds : Len(principals[c]) <= 1

\* The principals that a step adds.
SignedInNow(c) == principals'[c] # principals[c]
Newest(c) == principals'[c][Len(principals'[c])]

\* Whoever proves an address signs in only as the subject that owns it at
\* that very moment: one disabled, relinked or given another address after
\* the proof, or between result and handoff, is not signed in.
PrincipalsEligible ==
    [][\A c \in ChallengeIds : SignedInNow(c) =>
         Eligible(Newest(c).subject, challenges[c].email)]_vars

\* A registration challenge is consumed exactly when it left evidence of the
\* subject it established, so that a retry after a crash always finds either
\* an unused proof or its result; and evidence is never re-pointed.
EvidenceMatchesConsumption ==
    \A c \in ChallengeIds : Issued(c) /\ Purpose[challenges[c].mode] = "REGISTRATION" =>
      (challenges[c].status = "CONSUMED" <=> evidence[c] # NoSubject)

\* No address is owned by two subjects, whatever registrations race for it.
OneSubjectPerAddress ==
    \A s, t \in SubjectIds, email \in Emails :
      Owns(s, email) /\ Owns(t, email) => s = t

\* A sign-in by email authentication comes within the lifetime of a result
\* from a moment at which the challenge was still good.
SignInBounded ==
    \A c \in ChallengeIds : Issued(c) /\ challenges[c].mode = "AUTHENTICATION" =>
      \A i \in 1 .. Len(principals[c]) :
        principals[c][i].at < challenges[c].expiresAt - 1 + ResultTTL

\* A request that proved its code is answered, unless its process dies: the
\* row lock that concurrent completions of a challenge wait for is released.
EveryRequestSettles ==
    \A r \in RequestIds :
      requests[r].stage # "IDLE" ~> requests[r].stage \in {"DONE", "DENIED", "CRASHED"}

\* H4's document: a subject registered under another application is not
\* usable here.
PrincipalsOfSameApplication ==
    [][\A c \in ChallengeIds : SignedInNow(c) =>
         subjects[Newest(c).subject].application = ApplicationOf[Newest(c).client]]_vars

\* H2's document: verified evidence is consumed before its challenge expires.
ConsumedInTime ==
    [][\A c \in ChallengeIds :
         Issued(c) /\ challenges[c].status = "VERIFIED" /\ challenges'[c].status = "CONSUMED"
         => ~Expired(c)]_vars

\* Registration's comment on case C: an address that belongs to another
\* provider's subject is never superseded by a new registration.
NoRegistrationOverConflict ==
    [][\A c \in ChallengeIds : evidence[c] = NoSubject /\ evidence'[c] # NoSubject
         => ~ClaimedElsewhere(challenges[c].email)]_vars
=============================================================================
