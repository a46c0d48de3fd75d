# bookwrm-identity-services: verification project

Bookwrm's identity service proves e-mail addresses, turns proofs into identity
subjects, signs users in by e-mail or by face (PrivateID), and hands the result
to OIDC clients as codes and tokens. This directory holds TLA+ models of its
protocols, the TLC configurations that check them on small instances, and
proofs checked by TLAPS. Paths below are relative to the repository root
(`src/` is the implementation, `docs/` its documents); `PROJECT.json` gives the
same paths prefixed by the directory the repository lies in.

## 1. The system

### Components

| component | state it keeps | operations | hard behaviour | what makes it correct |
|---|---|---|---|---|
| **H2 e-mail verification** `email/EmailVerificationService.ts`, `adapters/email/PostgresVerificationChallengeRepository.ts` | `verification_challenges`, `verification_delivery_events` | start, resend, verify, consume, deliver, recordProviderEvent | send budgets shared by applications, rotation of codes, crash between the reservation of a send and its outcome, provider reports before or after the timeout | a destination never receives more mail than its budget; attempts add up over resends; a proof is used once and in time |
| **H3 registration** `registration/PostgresRegistrationRepository.ts` | `registration_evidence`, and `identity_subjects` rows it inserts | complete (and its replay) | row locks, a conflicting claim committed during the transaction, retry after a crash | consumed exactly when it left evidence; one subject per address |
| **H4 e-mail authentication** `authentication/email/PostgresEmailAuthenticationRepository.ts` | `email_authentication_results` | establish, consumeResult | identity changes between proof, result and handoff; the token of a result presented twice | one sign-in per proof, as the subject that owns the address at that moment |
| **Interactive e-mail sign-in** `adapters/email/EmailVerificationComposition.ts` | the mode of an address, in the login interaction | start, verify in three modes | several transactions in one request, any of which may be the last before a crash | an ineligible address is never signed in |
| **Identity subjects** `identity/IdentityRegistry.ts`, `identity/PostgresIdentitySubjectRepository.ts` | `identity_subjects` | resolveOrCreate, update, relink | unique index on (provider, subject), nothing on the address | an address has one owner |
| **Claims, merge, recovery, account links** `identity/Identity*Service.ts`, `identity/IdentityClaim*.ts`, `identity/ApplicationAccountLinks.ts` | claim sources, links, subject status | resolve, merge, recover, linkAccount, reconcile | several statements without a transaction | provenance matches value; a merge leaves one active subject |
| **Authorization code exchange** `oidc/infrastructure/RedisLockService.ts`, `oidc/infrastructure/RedisOIDCStore.ts`, POST /token in `oidc/OIDCService.ts` | code and token records in Redis, a Redlock per code | storeAuthorizationCode, consumeAuthorizationCode, token | GET and SET of a record under a lock that lapses by itself | a code is redeemed once, in time, for its own client |
| **Universal Login** `oidc/AuthorizationInteractionStore.ts`, routes in `oidc/OIDCService.ts` | the login interaction and its `consumed` marker in Redis | create, find, save, consume; /authorize, /login/* | two tabs on one interaction, save over consume, marker and key lapse together | one winner per interaction |
| **Face login** `privateid/*.ts`, `oidc/CorrelationStore.ts`, `routes/privateid.ts`, `identity/AuthenticatorLoginResolver.ts` | session records, correlations, one pending slot per process | launch, webhook, callback | webhook and browser callback in any order, repeated webhooks | a face login ends in the interaction that began it |
| **Legacy enrollment** `identity/PrivateIDEnrollmentService.ts` | enrollment transactions, authenticators | startEnrollment, completeEnrollment, link repair | check-then-act without transaction, repeated webhooks | a completed enrollment enrolled its own face |
| **H5 face enrollment** `authenticators/PostgresFaceEnrollmentRepository.ts`, `HapiFaceEnrollmentService.ts` | enrollments, consents, authenticators | acceptConsent, reserve, bind, fail, webhook, status | webhook before bind, expiry while waiting for a lock | a face belongs to one subject; only a fresh proof enrols it |
| **H5.4 face setup** `authenticators/FaceSetupInteractionStore.ts`, `routes/faceSetup.ts` | setup interaction (compare-and-set in Redis) | claim, submit, verify, consent, start, continue, cancel | a claim whose owner dies | no step is done twice, none is skipped |
| **Signing keys, rate limits** `oidc/infrastructure/OIDCKeyRotationService.ts`, `OIDCRateLimiter.ts` | active key, last rotation, counters | ensureKeyRing, getActiveKey, enforce | non-atomic read-modify-write | an activated key stays for its interval; a bucket reopens |
| **Outbound resilience** `infrastructure/CircuitBreaker.ts`, `DependencyHealthMonitor.ts`, `clients/IdentityPlatformClient.ts`, `cache/IdentityCache.ts` | breaker state, in-flight probe, cache | execute, observe, invoke | late answers in another breaker state | a failing dependency is left alone, a healed one is used again |
| **Start-up seed** `adapters/base44/Base44ApplicationSeed.ts`, `identity/infrastructure/PostgresInfrastructure.ts` | tenant, application, client, subjects' application, links of the application | schema, upserts, backfill, migration of legacy links | processes that start together, any failing on the way, administrators in between | a repeated seed changes nothing; no link is lost or audited twice |
| **Health, diagnostics, administration, pages, configuration** | none of their own | reads and reports | – | not modelled |

### How they interact

A login starts at /authorize, which either is answered at once (a result token
or a resumed session) or creates a login interaction. The login page drives H2
(start, resend, verify); the interactive composition turns the VERIFIED
challenge into a principal through H4 (`establish`, `consumeResult`) or H3
(`complete`) and reads the subject again; the login route consumes the
interaction and issues an authorization code, which POST /token redeems. The
components share state rather than calling back: H3 and H4 write the challenge
rows of H2 in transactions of their own, and everything reads
`identity_subjects`, which account links, merges and recoveries rewrite at any
time. Administrators suspend clients, applications and tenants meanwhile, and
the OIDC endpoints read each of these by itself, several times per request. A
face login leaves through the provider: the provider's webhook and the
browser's return meet again in maps of the process. H2 serialises on an
advisory lock per (tenant, destination) and locks the challenge rows of that
destination; H3 and H4 lock the one row. Redis state has no transactions at all
beyond single commands and a few Lua scripts.

## 2. Plan

In order of importance; all of it is done but what the last item says is left.

1. `EmailVerification` with the abstract `VerificationEvidence`, theorems in
   `EmailVerificationProofs`.
2. `EmailSignIn`: H3, H4 and the interactive composition over H2's challenges,
   theorems in `EmailSignInProofs`.
3. `AuthorizationCode`, theorems in `AuthorizationCodeProofs`.
4. `AuthorizationInteraction`, theorems in `AuthorizationInteractionProofs`.
5. `FaceLogin`: sessions, correlation, the pending slot, webhook and callback;
   theorems in `FaceLoginProofs`.
6. `FaceEnrollment` (H5), with the other writers of faces: legacy enrollment,
   link repair, merges; theorems in `FaceEnrollmentProofs`.
7. `FaceSetup` (H5.4) over the compare-and-set store; theorems in
   `FaceSetupProofs`.
8. `TokenIssuance`: what /authorize, /login, /token and /userinfo read on their
   way while it is withdrawn.
9. `IdentityClaims`: links, claims with provenance, merges, recoveries.
10. `LegacyEnrollment`, `ApplicationSeed`, `KeyRotation`, `RateLimiter`,
    `PlatformClient`, `IdentityContextCache`.
11. The compositions: `IdentityServices` (safety of the services of 7 to 10,
    instantiated by `MCServices`), theorems in `IdentityServicesProofs`;
    `MCSettles` (liveness).
12. Left: abstract specifications beside `VerificationEvidence`. Worth most are a
    one-time code that `AuthorizationCode` implements and a login that is won once
    for `AuthorizationInteraction`, with their refinements proved.

Runs keep to two or three actors and the smallest bounds at which each limit is
hit and passed.

## 3. The modules

### EmailVerification (H2)

One action per transaction of the service, because
`withDestinationTransaction` takes an advisory lock on the destination and
`SELECT … FOR UPDATE` on its rows before anything is decided: `Start`,
`Resend`, `Verify`, `Consume`, `RecordOutcome`, `RecordProviderEvent`. What the
service does between two transactions is an action of its own:
`ProviderAccepts` (mail accepted, perhaps after the caller gave up), `Answer`
(the race of the provider's answer and the timer), `Crash`. A refusal that
writes nothing is a negated guard; a refusal that writes (an expired challenge
found by resend, verify or consume) is a disjunct.

`challenges` is the challenge table, `sends` the SEND_REQUESTED rows with the
code the mail carries, `delivery` the states recorded for each send, `caller`
the process waiting for the provider. `clock` is `Date.now()`. Code hashes are
the codes themselves: `matches` compares the hash of a guess with the stored
one under the challenge's own id and equal codes are all that matters. The HMAC
key versions and the audit trail are left out.

`FreshCodes` excludes the current code of the challenge, as `prepareSend` draws
again until it differs; codes of different challenges may coincide.

### VerificationEvidence

What H2 promises its callers: an item of evidence is OFFERED, PROVEN, SPENT or
VOID; it is spent at most once, proven and spent only before its deadline, and
the deadline moves back only while it is offered and alive. `EmailVerification`
maps challenges to items (`StageOf`) and implements it.

### EmailSignIn (H3, H4, interactive)

A request has a `stage`: IDLE, PROVED (H2's verify committed), COMPLETING,
CHECKED (inside H3's transaction, the row lock held, conflict check passed),
REGISTERED (committed, subject to be read again), and its ends. Between two
stages other requests, the identity table and crashes interleave. H3's
transaction is the only one split in two: its conflict query locks no row when
it finds none, and other writers of `identity_subjects` may commit between it
and the commit. H2 and H4 wait for the row lock (`DestinationFree`,
`RowLocked`). The state of H2 is reduced to status and deadline. `Update`,
`Relink` and `CreateOther` are the other writers of the identity table, with
what they may write to a subject: claims and links override the e-mail, merges
disable, recovery repoints, enrollment creates. `principals` records, per
challenge, the principals handed over; nothing in the code keeps it, it is the
history the properties are about.

### AuthorizationCode

POST /token's exchange at the grain of Redis commands: `Acquire` and `GiveUp`
(Redlock's SET NX PX with retries), `Get`, `Delete`, `Put`, `Release`,
`Exchange`, with `Crash` and `Tick` anywhere. A key's lifetime is a field of
its value and a lapsed key reads as absent. Clock ticks are coarse; a stall is
a sequence of ticks during which a request takes no step. `issued` is the
history of what a code was issued with; its deadline is computed before the SET
that starts the key's lifetime, so the key may outlive it. `Delete` may follow
a comparison made when the record was still read as usable: the clock is read
once more after `Get`. The checks after the consumption
(redirect URI, secret, PKCE, identity) may go either way; the client is
compared.

### AuthorizationInteraction (Universal Login)

The interaction store and the three posts of the login page at the grain of
Redis commands. The interaction and its `consumed` marker are two keys, each
with a time at which Redis drops it (`lapses`, `markers`). find is `Get`,
`Delete` (an interaction past its deadline) and `Look` (the marker); save is
`Lease` and `Save`; consume is find once more, `Lease`, `Claim` and `Drop`.
`Lease` works out the lifetime left from what was read and the clock; the
command that uses it may come any time later, because a stall or a tick may
fall in between. `Create` takes its deadline from a time that may lie before
the command, and `Delete` may follow a comparison of the clock with the
deadline that comes late. `StartEmail`, `VerifyEmail` and `ChooseFace` are what
the routes do in between, `Refuse` their refusals before that; `HandOver` is
the authorization code or the face session for the winner. H2 is reduced to
which challenges were started and which proven; POST /login/email/resend
changes no interaction and is left out. `wonAt` is history.

### FaceEnrollment (H5)

A start is three steps: `Reserve` (a transaction that finds and, when late,
expires the subject's pending ceremony and checks subject, client, consent and
the freshness of the e-mail proof), the session at the provider, and `Bind`, or
`Fail` when the provider refuses. A webhook reads its binding, waits for the
rows of subject and ceremony, then for the advisory lock of the face, and reads
the clock again after each wait; each of these is an action, and `webhooks`
keeps what it has read. Others move in between: a subject is retired, a client
closed, a face revoked, the legacy path mints an identity or an authenticator
for a face, link repair and merges move faces (`Retire`, `CloseClient`,
`Revoke`, `LegacyIdentity`, `LegacyAuthenticator`, `Repair`, `Reassign`), all
within `MaxChanges`; what holds a row lock makes them wait.
`StatusReply` and `EnrollmentEligible` are the two answers the service gives
about a ceremony, as operators.

### FaceLogin

`Begin` puts a request's context into the one slot of the process; `Launched`,
which follows the await of the provider's answer, takes whatever the slot holds,
links session and correlation and empties the slot. The webhook's steps (`Correlate`, storing
result and user, consuming the pending request) and the callback's (reading the
record, resolving face and user itself when the webhook has not yet, completing
and issuing the code) each end at an await. `codes` is the list of codes with
the request each answers. A restart empties every map of the process.

### FaceSetup (H5.4)

A request loads the interaction, claims the next operation over the text it
loaded (the store's script compares whole texts; `Matches`), calls H4 or H5,
saves the next phase the same way, and releases its claim when the call failed.
The subject's world (a recent e-mail proof, authority, consent, an active face)
changes between any two steps. H4 and H5 are reduced to what the setup tells
apart in their answers. `challenges`, `starts` and `outcomes` are history.

`enrollments` is the status on record of the interaction's enrollment, and `lapsed`
says that its deadline is past (`EnrollmentLapses`, at any time: 300 s after it began,
while the interaction lives for 600 s). H5 answers `StatusOf`: past the deadline it
is EXPIRED, whatever is on record, as `status` compares the time first. A
reservation expires the subject's late enrollments (`Reserved`), and a webhook that is
late ends its own as expired. The callback is two steps: the check of the authority
(`Callback`), and H5's status with the capability (`Resolve`).

### LegacyEnrollment

`completeEnrollment` statement by statement: find the row, compare the deadline,
resolve or create the subject, insert the authenticator under its unique
constraint, mark the row. Two webhooks may serve one row; a crash may fall
between any two statements, and with it go the sessions of the process.

### IdentityClaims

`linkAccount`, `resolve`, `merge` and `recover` as series of statements:
the link's lookup, insert and the lookup of the winner after a unique violation;
for each claim the policy's decision, the provenance row and then the value; the
loser's status and then its faces; the lookup of a principal and then the
relink. `writers` says who wrote the value on record and `disturbed` which
subjects had two resolutions at once or one that died: only there may provenance
and value differ.

### TokenIssuance

`Program` gives each endpoint as the sequence of what it reads and checks, in
the order of the code; a request walks along it, one read at a time, while
`Change` and `ChangeSubject` change what is read. `barred` is what has been
withdrawn during the whole of a request, so that an answer with `barred` not
empty is one that no interleaving justifies. Codes are consumed at once here;
how is `AuthorizationCode`'s subject.

### ApplicationSeed

The statements of a start in order: schema (one transaction), tenant,
application (status read, then upsert), client, backfill of subjects, migration
of legacy links with their audit rows (one statement). Two processes start at
once, may have different client settings, fail or die anywhere and start again.
The trigger mirrors links made later. `decided` and `crossed` are history of the
administrators' decisions, `settled` of a completed and undisturbed seed.

### KeyRotation, RateLimiter

Both at the grain of Redis commands. A rotation reads the time of the last one,
the active key, sets the next key and then the time; ages replace times, and a
call lasts at most `MaxStall`. The limiter increments a counter and gives it a
lifetime when the counter is new; `torn` remembers a death in between.

### PlatformClient, IdentityContextCache

`invoke` with its retries through the breaker, the fetch with its abort, and the
reading of the body outside both; the monitor's probe is one more call, which
`Observe` starts when the snapshot is stale. The cache is one entry with readers
that miss, fetch and store, and a change that deletes the entry before the
platform changes. Ages replace times.

### IdentityServices

The services that share no state with each other – face setup, legacy
enrollment, the administration of subjects, signing keys, cached context, token
issuance, seed, a bucket of the rate limiter and the client of the platform –
as alternatives of one specification. `which` says the one that runs; each is
an instance of its module over variables of its own, and those of the others
are "off". The properties are those of the instances, under `which`. What the
constants of all of them must be is assumed here by name (`ChangesAssumption`,
`TransactionsAssumption`, `AdministrationAssumption`, `KeysAssumption`,
`CacheAssumption`, `StartupAssumption`, `LimiterAssumption`,
`PlatformAssumption`) and evaluated by TLC in the run `services`.

### MCServices, MCSettles, MCFaceSetup

`MCServices` gives IdentityServices its constants. `MCSettles` runs small
instances of the components whose liveness is checked in the same manner, with
the fairness of all of them: it extends `EmailVerification`, and instantiates
`EmailSignIn`, `AuthorizationCode`, `RateLimiter` and `PlatformClient`.
`MCFaceSetup` is face setup alone, for its divergence.

## 4. Runs

All runs end by exhausting their state space, the violations by their
counterexample. CHECK_DEADLOCK is off because each model ends in states where
the bounded clock and all finite supplies are spent, and a service at rest is no
error.

| run | bounds | what it shows |
|---|---|---|
| `email_challenges` | 3 challenges, 4 sends, 2 codes, 2 applications, Expiration 2, 2 attempts, 2 sends per challenge, Hour 2 with 2 sends, Day 3 with 3, clock to 3 | the log of sends agrees with the counters, resends are spaced, rotate the code and forgive no attempt (`ResendsSound`), a challenge is locked exactly at the limit, the two budgets (`SendBudget`) and the bound on live challenges (`LiveChallengeBudget`), and the refinement of `VerificationEvidence`, with evidence proven and spent once and in time |
| `settles` | delivery: 1 challenge, 2 sends; sign-in: 2 requests, 1 challenge; code: 2 requests, lock 2; limiter: 2 requests, limit 2; platform: 2 calls and the probe, threshold 2, 1 retry; fairness | reports follow an acceptance; sends, sign-ins and code exchanges end (`EveryRequestEnds`); an exhausted bucket reopens (`BucketReopens`); an open breaker is tried again by calls that keep coming, and every probe ends (`BreakerRecovers`) |
| `sign_in_races` | 2 requests, 2 clients of 2 applications, 2 challenges, 1 address, 2 subjects, 1 change of the identity table, clock to 3 | one principal per proof, evidence matches consumption, one subject per address, sign-in bounded in time, only the owner of an address at that moment is signed in |
| `code_races` | 3 requests, 1 code, 2 clients, CodeTTL 3, LockTTL 2, ConsumedTTL 2, clock to 5 | redeemed once and never usable again (`UsedOnce`), for its owner, in time |
| `interaction_races` | 3 requests of any route, 1 interaction, 2 challenges, TTL 2, clock to 3 | one winner before the deadline, a won interaction is found by nobody and a deleted one stays deleted (`GoneStaysGone`), a verified code is lost only to another winner or the deadline |
| `face_races` | 2 subjects, 2 faces, 2 ceremonies, 2 webhooks, 1 client, Freshness 1, TTL 1, clock to 2, 1 change by others | one pending ceremony per subject, and a subject told it may enrol is admitted (`CeremoniesConsistent`); what has ended stays ended and is reported so (`OutcomesStand`); a completion finds subject, client, consent, binding and deadline good and makes the face that subject's one active face |
| `face_login` | 2 requests, 2 subjects, 1 face, 1 webhook, 2 callbacks, 1 change or restart | a code answers the request that launched its session and a request has one code at most (`CodesConsistent`), a retired subject gets none from a callback that had not read it |
| `services` | face setup: 1 interaction, 2 requests, 2 changes; legacy: 2 rows, 2 webhooks, 2 faces; administration: 3 subjects, 2 accounts, 2 faces, 2 operations; rotation: 2 keys, 2 calls, interval 3, stall 1; cache: 2 readers, 1 change, TTL 2, stall 1; issuance: 2 requests, 1 code, 2 addresses, 2 changes; start-up: 2 processes, 2 configurations, 2 accounts, 1 subject, 1 change; limiter: 2 requests, limit 2; platform: 2 calls and the probe, threshold 2, 1 retry | see below |
| `sign_in_expiry` | as `sign_in_races`, clock to 2 | a divergence of section 7 |
| `face_legacy` | as `face_races` | a divergence of section 7 |
| `face_setup_failure` | 1 interaction, 1 request, 1 change | a divergence of section 7 |
| `face_login_method` | as `face_login` | a divergence of section 7 |

`services` shows, for each of its services:

* face setup: repeated forms start one challenge and one enrollment, and the
  application is told once, and of success only for an active face and never while
  the enrollment is pending or is reported to have failed (`SetupConsistent`); no stale writer takes an interaction back
  (`PhasesAdvance`); a browser waits only for a living request unless one died
  with its claim (`ProcessingHasWorker`);
* legacy enrollment: a completed row enrolled its own face, and a row whose face
  is in place is pending only while a webhook works on it or after that one died
  (`EnrollmentsAgree`);
* identity claims: an answered link is the link on record and a principal has
  one subject (`OneToOne`), a claim's owner on record wrote its value unless
  resolutions overlapped or died (`ProvenanceOwned`), an answered merge left no
  face behind (`MergeCompletes`);
* key rotation: a key activated by a rotation stays for the interval less what
  a call lasts, unless calls changed keys at once (`KeysKeepTheirInterval`);
* cache: no answer is served longer after it ended than an entry and a call last
  (`StalenessBounded`);
* OIDC endpoints: no code and no token comes out of a request through the whole
  of which its client, application, tenant, method or e-mail subject was
  withdrawn, and claims are never older than the request (`AnswersJustified`);
* start-up: every legacy link is there once a seed is complete, audited once
  (`LinksMigrated`), no suspension of client or
  application is undone unless it fell between a start's two steps on the
  application (`DecisionsStand`), and a repeated seed changes nothing
  (`SeedIsIdempotent`);
* rate limiter: a counter lets no more than its limit through, and only a death
  between its two commands leaves it without a lifetime (`BucketBounded`);
* platform client: the breaker agrees with its counts, however late the results of
  calls come in (`BreakerAgrees`).

Why the bounds are enough. Every limit of H2 is reachable and can be exceeded
by one if a comparison is wrong: there is one send more than the budget, one
attempt more than the limit (the clock does not count attempts), and time to
pass a deadline, an hour and a day. The challenges share one destination, the
only scope in which challenges interact; two applications share its budget, and a
third challenge is what the bound on live ones would break with.
Two requests and two challenges give every pair of racing operations; a third
request is needed only at the code exchange, where a stalled holder, the one
that overtakes it and the next in line differ. The lock lapses within the
life of a code, and a code's consumed record within the clock, so that a stalled
write can fall after every lapse. At the login interaction a third request is
needed for a save that comes between two claims; the clock passes its deadline
by one, enough for a claim after the marker has lapsed. Face enrollment has two
of everything that can conflict over one thing: two ceremonies of one subject,
two subjects over one face, two webhooks for one ceremony; the clock passes both
a ceremony's deadline and the freshness of a proof. Two face logins compete for
the slot, and two callbacks with the webhook of one session. The small services
have two actors each, because every step of theirs reads and writes one key or
row that the other may change in between; identity claims have a third subject,
created by a link, and two operations, so that any pair of operations overlaps;
the seed has a second process that starts again after the first has died. Ages
that replace times stop one past the largest value anything compares them with.
Symmetry is used on model values in runs without liveness properties only. The
identifiers of `email_challenges` are numbers given out in order (`InOrder`), which
serves the same end: which UUID a row gets makes no difference.

### Fairness

Safety runs assume none. In `settles`:

* delivery: weak fairness of the answer and of the recording of an outcome.
  `Promise.race` has a timer, and the process continues unless it crashes;
* sign-in and code: weak fairness of the next step of a request being served.
  Redlock's retries are a bounded number: `GiveUp` is enabled while the lock is
  held, `Acquire` when it is not, so one of them always is;
* limiter: weak fairness of a served request and of time, which is what Redis
  lets keys lapse by;
* platform: weak fairness of time, and of each call's next step: a fetch is
  answered or aborted by its timer after five seconds. That a body ends is
  assumed; the code has no timer for it. `BreakerTries` has the premise that
  calls keep coming, because nothing but a call moves an open breaker.

`Crash` is never fair and may end a request at any stage. No fairness is given
to arrivals, resends, the provider's reports or the clock of the first three.

## 5. Theorems

TLAPS checks these for all values of the constants that the named assumptions
allow (positive lifetimes and limits, a finite set of send ids, absence values
outside the sets they stand beside; for the services those of section 3).

`EmailVerificationProofs`:

* `TypeCorrect`. Each transaction writes well-formed rows (`ResentTyped`,
  `ChallengeWrites`, `RequestTyped`).
* `SendBudgetHolds`. For any window of an hour or a day ending now, the sends to
  a destination are within its budget. The set of recent sends shrinks with time
  and grows by one only under `~DestinationLimited`; `FS_*` facts of finite
  cardinality count it.
* `LockedAtLimitHolds`, `EvidenceInTimeHolds`, `CodeOnlyWhilePendingHolds`, from
  `ChallengeInv`, a soundness
  condition of every row: attempts below the limit unless locked, an order of
  verifiedAt, consumedAt and expiresAt, and no code unless pending. Neither
  property is inductive alone: that a consumed challenge was verified in time
  needs that a verified one was.
* `ResendsSoundHolds`. Every step either keeps the counters of one challenge
  (`Keeps`) or is one send of it (`Sends`; `ChallengeSteps`). So the log counts
  the sends of each challenge, and its latest send carries its time and its code
  (`Logged`), which is what a resend waits for and draws a different code from.
* `ReportsFollowAcceptanceHolds`, from `Delivered`: until the caller is done
  nothing but the request is on record, so a timeout and an acceptance exclude
  each other. It assumes that the provider reports none of the states that only
  the service records (`WebhookStatesAssumption`, the type of
  `recordProviderEvent`).
* `LiveChallengeBudgetHolds`. If a code lives at most an hour, the live pending
  challenges of a destination are within its hourly budget. `PendingBacked` (each
  pending challenge has a send of its own, made when it was last sent) maps live
  challenges injectively into recent sends.
* `H2ImplementsEvidence`. Initial states map to initial states and every step to
  a step of `VerificationEvidence` or a stutter.

`AuthorizationCodeProofs`, all from the inductive invariant `CodeInv`:

* `TypeCorrect`, `RedeemedOnceHolds`, `TokensToOwnerHolds`,
  `NeverUsableAgainHolds`, and `UsedOnceHolds`, which joins two of them.
  `RedeemedOnce` is not inductive: a request may hold a
  record that it read as usable while another redeems the code. `Protected` says
  what excludes it: a code with a redeemer is not usable; a request that has read
  it as usable and still holds the lock has no redeemer before it; a request that
  has written the record back leaves it unusable. A redeemer must hold the lock
  when it releases it, so all others have lost it. No assumption relates the
  lifetimes of lock, code and record. `Traced` carries the client from the
  issued code through the record to the request.
* `RedeemedInTimeHolds`. `Timely` follows one request: a lock it still holds
  lapses at most LockTTL after it was taken, and a record it found usable was
  read before the deadline while the lock was held, so the request that still
  holds the lock when it releases it does so before deadline + LockTTL.

`AuthorizationInteractionProofs`, all from the inductive invariant
`InteractionInv`:

* `TypeCorrect`, `OneWinnerInTimeHolds`, `WonIsNotLoadedHolds`,
  `DeletedStaysDeletedHolds`, and `GoneStaysGoneHolds`, which joins the last
  two. What makes the first winner's marker last long
  enough is that all copies of an interaction agree on its deadline
  (`SameDeadline`: save keeps it) and that a lifetime, added to a later clock,
  reaches at least to that deadline (`Placed`). Hence `MarkerLasts`: no winner's
  marker lapses before the deadline, so a second winner comes after it. Every
  step that neither reads, wins, submits nor creates is one lemma (`MovedStep`).
* `ProofsNotWastedHolds`, from a second inductive invariant, `CodeKept`. An
  interaction is gone only if it was won or its deadline is over: the key stays
  until then (`KeyOutlives`), whoever goes to delete it has seen it expired
  (`Expiring`), and a marker was set by a winner (`Marks`). A challenge that was
  started and not yet saved is known to its request alone (`Unsaved`), so what is
  turned down with a proven challenge had read the interaction (`Turned`).

`EmailSignInProofs`, all from the inductive invariant `SignInInv`, whose parts
are kept by what a step may do to each variable (the `...Move` definitions,
`StepMoves`) rather than by the text of each action:

* `TypeCorrect`, `EvidenceMatchesConsumptionHolds`, `SignInBoundedHolds`.
  A registration's proof changes only by the request that holds its row lock
  (`ChallengesMove`, `OneHolder`), and that request consumes it with evidence
  (`Evidenced`). A result remembers that its proof was good when it was made
  (`Resulting`).
* `OnePrincipalPerProofHolds`. Not inductive: nothing in it says that a second
  path to a sign-in is closed. `SignedIn` does: what was signed in by has a
  consumed result, or no request of the login page left to finish. That there
  was only one such request is `Alone`: it proved the challenge while PENDING,
  and no challenge becomes PENDING again.
* `OneSubjectPerAddressHolds`. Only a registration gives an address to a
  subject, and `Resolved` looks for an owner in the same step (`OwnersStep`);
  inductive with the types alone.
* `PrincipalsEligibleHolds`. An action property: both ways to sign in read the
  subject in the step that adds the principal.

`FaceEnrollmentProofs`, from the inductive invariant `FaceInv`:

* `TypeCorrect`, `CeremoniesConsistentHolds`, `OutcomesStandHolds`,
  `CompletionSoundHolds`. A webhook checks ceremony, subject and client in one
  step and completes the ceremony in a later one. What it read is still so then
  (`Held`), because it holds those rows, no other webhook holds the same
  subject's (`OneHolder`), and every other writer waits for them. Consent and
  e-mail proof were checked by the reservation and are not read again:
  `Grounded` carries them to the completion. That the completed face is the only
  active one needs `OneFace`; `Started` ties a request's start to the ceremony
  it reserved.
* Assumptions: `NoCeremony` is no row, and `Faces` is finite (a merge counts the active ones).

`FaceLoginProofs`, from the inductive invariant `LoginInv`:

* `TypeCorrect`, `CodesConsistentHolds`. A result leads to the request whose
  session it was stored for (`Linked`): the session takes its own request at the
  moment its result is stored. A result is gone once a callback took it, so two
  callbacks never issue for one request (`Spent`, `OneIssue`).
* `RetiredStaysOutHolds`. An action property: the callback reads the subject
  again, and what it has read is `InHand`.

`FaceSetupProofs`, from the inductive invariant `SetupInv`, assuming only that the
bound of the world's steps is a natural number:

* `SetupConsistentHolds`, `ProcessingHasWorkerHolds`. A claim is exclusive:
  whoever claims has just found the interaction unclaimed (`NobodyClaims`), so a
  request with a claim has the interaction's own snapshot until it saves, unless
  the interaction is over (`Fits`). Each effect is still to come or has happened
  once, by the phase (`HandleGood`). That no enrollment starts after a success was told
  needs `NoneAfterSuccess`: a request at the consent and one that is about to
  tell of success are never of the same interaction. What H5 answers, once it is
  COMPLETED or EXPIRED, stays one of the two (`HandleMoves`), although a lapse turns
  every other answer into EXPIRED.
* `PhasesAdvanceHolds`. `Shape` says which phase a request saves from which; as it
  saves only over its own snapshot, `Going` follows for the store.

`IdentityServicesProofs` proves every property of the run `services`, `P` as
`PHolds`. Each service has an inductive invariant that holds when the service is
the one that runs (`...Runs`); TLC has checked each on a small instance before.
Face setup takes its steps from `FaceSetupProofs` (`Served`, `SetupStep`). The
others:

* Legacy enrollment, `LegacyInv`: `EnrollmentsAgree` with what each webhook relies
  on at its statement (`DeliveryGood`): its row exists, it was late if it is about
  to mark it EXPIRED, its identity exists before the insert and its
  authenticator before the mark. Faces are enrolled by rows that name them.
* Administration, `AdministrationInv`, for `OneToOne`, `ProvenanceOwned` and
  `MergeCompletes`. None of them is inductive. A resolution records provenance
  claim by claim before it writes values: `Ahead` says that, of a subject no two
  resolutions or deaths have disturbed, provenance differs from the writers by
  just what its one resolution has recorded. `Relies` carries what an operation
  found in one statement to a later one: the link it made, the loser it
  disabled. `LinksUnique` is what the two unique indices of the links' table keep; a third is
  `Relinkable`, in the statement that assigns a principal, which is why
  `PrincipalsUnique` stands although the lookup before it is stale.
* Signing keys, `KeysInv`, for `KeysKeepTheirInterval`: unless two calls have
  crossed or one died between its writes, one call at a time changes keys, a
  rotation it found due is still due (`Foreseen`), and the age on record exceeds
  that of the active key by a call at most.
* Cached context, `CacheInv`, for `StalenessBounded`: a fetched answer ended no
  longer ago than its call began, an entry no longer ago than its age and a call.
  Versions that are not yet there have not ended.
* Token issuance, `JustifiedInv`, for `AnswersJustified`. What has barred a
  request ever since it began is withdrawn now (`BarredOk`), so a check of it
  cannot pass, and no step that the request has passed looked at it.
  `AnswersLookedAt` goes through the five programs: each has looked at all that
  its kind can be barred by, and read the claims, when it answers. So an answer is
  barred by nothing, and its claims are of those the registry had meanwhile
  (`SeenOk`). Reading in a different order would keep the proof; leaving a read
  out would not.
* Seed, `StartupInv`, for `LinksMigrated`, `DecisionsStand`, `SeedIsIdempotent`
  and `LinksStayMirrored`, which no run checks: once the application has all
  links, every later step keeps it so. `StartGood` says that what a start wrote
  stands while nothing disturbs it (`quiet`), so that an undisturbed end has all
  rows in place (`Seeded`); a start that began after such an end (`calm`) finds
  each row as it would write it. While no start is crossed by an administrator the
  row's status is what was decided, and what a start has read is that status.

* Limiter, `LimiterInv`, for `BucketBounded`. A request that is about to be let
  through holds a number that the counter gave to it alone, so those admitted and
  those still to be are together no more than were counted, and no more than the
  limit; that is a count of a set (`Admissible`), with the `FS_*` facts. A counter
  without a lifetime has its first request still before the EXPIRE, or that one
  died. No assumption bounds the requests.
* Platform client, `BreakerInv`, for `BreakerAgrees`. A failure that comes in while
  the breaker is half-open or open finds the count at the threshold
  (`FailedAgrees`); a success from before closes whatever it meets. What a step may
  do to the breaker is one lemma (`BreakerMoves`).

The type invariants of the first four modules are proved and therefore not
checked by their runs; those of the others are part of the invariants that their
theorems rest on.

Only model-checked: the liveness of `settles` (`EveryRequestEnds`,
`BucketReopens`, `BreakerRecovers`), which is out of the prover's reach together
with ENABLED. Every other property of a passing run is a theorem. No module uses
recursion.

## 6. What is not modelled

* Health, diagnostics, authenticator status and the administration's reports:
  they read and render. What administrators write is in the models as changes
  that may come at any time.
* Configuration, pages (`UniversalLoginPages`, `FaceSetupPages`, the browser
  script `FaceEnrollmentContinuation`), and the wiring of `server.ts` beyond the
  start-up seed.
* Code without a caller in the service: `authenticate`, `completeCallback`,
  `cancel` and the status path of `PrivateIDAuthenticationProvider` with the
  calls of `PrivateIDClient` that serve only them,
  `PrivateIdIdentityResolver.resolveAuthenticatedUserFromPrivateId`, the pending
  identity's `begin` and `markPersisted`, and
  `ApplicationAccountLinks.reconcile`.
* The mounted `oidc-provider` library and its Redis adapter: its protocol is the
  library's, and none of the flows above goes through it.
* Inside the modelled components: audit events other than the links' audit, HMAC
  key versions of H2, key material and signatures, PKCE and input parsing beyond
  accept or refuse, display names, HTTP, and SQL errors other than as a crash or
  a failure of the statement. Redis is one instance that loses nothing; its
  fail-over is outside the code.

## 7. Where code and documents differ

Shown by runs:

* `sign_in_expiry`: `docs/H2-Email-Verification.md:9` promises that verified
  evidence is consumed before its challenge expires. `complete`
  (`registration/PostgresRegistrationRepository.ts:80`) never reads the
  deadline of a VERIFIED challenge; H2's `consume` and H4's `establish` do.
* `face_legacy`: `docs/H5-Face-Authenticator-Attachment.md:133-134` has a face
  with a legacy identity of its own be a conflict. The check at
  `authenticators/PostgresFaceEnrollmentRepository.ts:293` locks no row when
  there is none, and the legacy path, which does not take the lock of the face,
  may mint one before the commit.
* `face_setup_failure`: the comment at `routes/faceSetup.ts:499` says that FAILED
  and CONFLICT never become success. `status` looks at the deadline
  (`authenticators/PostgresFaceEnrollmentRepository.ts:359`) before it looks at
  either (line 363), so a browser that returns after the enrollment's 300 s and
  within the interaction's 600 s is told EXPIRED, and `faceSetup.ts:503-504` answers
  success if another ceremony gave the subject a face. `SetupConsistent` says what
  does hold: never while H5 still reports the failure.
* `face_login_method`: `docs/H5-Face-Authenticator-Attachment.md:208-210` has a
  face login's code carry its method and time. A callback that comes when the
  webhook has stored its result and not yet its user resolves the user itself,
  without them (`routes/privateid.ts:691`).

Stated in the modules as properties that TLC refutes, without a run of their own
in `PROJECT.json`:

* `PrincipalsOfSameApplication` of `EmailSignIn` (2 changes):
  `docs/H4-Email-Authentication.md:15-21` restricts sign-in to the application
  of the trusted context; `eligible` does not compare the subject's application.
* `NoRegistrationOverConflict` of `EmailSignIn` (2 changes): the comment at
  `registration/PostgresRegistrationRepository.ts:85-88` and
  `docs/H3-Identity-Registration.md:147-149` close the window of a conflicting
  identity by FOR UPDATE. When the query finds no such subject it locks nothing,
  and one that gets the address before the commit is superseded.
* `OneWinner` of `AuthorizationInteraction`: the comment at
  `oidc/AuthorizationInteractionStore.ts:102` says exactly one caller can win
  the marker. A caller that has worked out its lifetime and then stalls past the
  deadline finds the winner's marker lapsed and wins too. Before the deadline
  there is one winner (`OneWinnerInTime`).

Seen while modelling, and in the models as the code has it:

* H5: status answers EXPIRED for a completed ceremony once its deadline is past;
  the capability report asks for live ceremonies of the caller's client only,
  `reserve` for those of any client (the exception in `EligibilityTold`).
* Face login: a session's expiry is not read on success. A SUCCESS webhook that
  comes before its session is stored is answered 202 and not kept. /token reads
  nothing of a face login's subject again.
* Face setup: a cancel that consumes a STARTING interaction does not stop the
  request past its claim. An unexpected error leaves its claim until the
  interaction expires, as the H5.4 document says.
* Legacy enrollment: an expired row is answered like a completed one; a webhook
  repeated after a crash fails on the unique constraint.
* Claims: a merge that dies after disabling the loser leaves it disabled with its
  faces; two resolutions of one subject at once, or one that dies, leave a claim
  with a source that did not write it (the exception in `ProvenanceOwned`); a merge
  does not read the survivor's status again, so a merge of A
  into B beside one of B into A disables both; a new address keeps the
  verification of the old one; a link does not read the status of the link it
  repeats.
* Keys: two overlapping rotations of a ring of two return to the old key (the
  exception in `KeysKeepTheirInterval`); the time written is that of the call's begin.
* Limits: `/token` counts its request after the code is consumed, so a refusal
  costs the code. A bucket whose maker died between its two commands never
  reopens (the exception in `BucketReopens` and `BucketBounded`).
* Breaker: an answer of 500 counts as a success; a refusal of the open breaker
  is retried at once; a success of a call that began earlier closes an open
  breaker.
* Cache: an entry is deleted before the platform changes, so a reader in between
  stores the old answer again (bounded by `StalenessBounded`).
* Seed: every start makes a suspended tenant active and resets the methods of
  the application; a suspension between a start's read of the application and
  its upsert is undone (the exception in `DecisionsStand`); a subject with two
  legacy accounts keeps the migration of all links from completing.

## 8. Running

    tlc -workers 2 -config MCSignInRaces.cfg MCEmailSignIn
    tlc -workers 2 -config MCServices.cfg MCServices
    tlapm AuthorizationCodeProofs.tla

`PROJECT.json` lists every run with its module and configuration, the mutant
that each property detects, the source lines of each definition, the hazards of
the code and the theorems.
