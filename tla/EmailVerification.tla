------------------------- MODULE EmailVerification -------------------------
(***************************************************************************)
(* H2, email verification: src/email/EmailVerificationService.ts over      *)
(* src/adapters/email/PostgresVerificationChallengeRepository.ts.          *)
(*                                                                         *)
(* Every mutation runs inside one repository transaction, serialised by an *)
(* advisory lock on (tenant, destination); each such transaction is one    *)
(* action here.  Sending mail happens between two transactions, so a send  *)
(* is reserved by Start or Resend, answered by the provider or timed out,  *)
(* and its outcome recorded by a second transaction that a crash may       *)
(* prevent.  Requests that the code refuses without writing (wrong         *)
(* context, purpose or state; rate limits) leave the state alone and are   *)
(* the negated guards of the actions.                                      *)
(***************************************************************************)
EXTENDS Integers, FiniteSets

CONSTANTS
    Tenants, Applications, Destinations, Purposes,
    ChallengeIds,          \* the UUIDs of challenges
    SendIds,               \* the UUIDs of send requests
    Codes, NoCode,         \* one-time codes, and the empty code hash
    NoChallenge, NoSend,   \* an id not used so far
    NoPurpose,             \* verify called without its optional purpose
    Expiration, Cooldown, Hour, Day,
    MaxAttempts, MaxSendsPerChallenge,
    MaxSendsPerDestinationHour, MaxSendsPerDestinationDay,
    WebhookStates,         \* the delivery states the provider reports later
    MaxTime                \* bound on the clock

\* verificationPolicyFromEnvironment accepts positive safe integers only.
ASSUME PolicyAssumption ==
    /\ Expiration \in Nat \ {0} /\ Cooldown \in Nat \ {0}
    /\ Hour \in Nat \ {0} /\ Day \in Nat \ {0}
    /\ MaxAttempts \in Nat \ {0} /\ MaxSendsPerChallenge \in Nat \ {0}
    /\ MaxSendsPerDestinationHour \in Nat \ {0}
    /\ MaxSendsPerDestinationDay \in Nat \ {0}
    /\ MaxTime \in Nat

ASSUME SendIdsAssumption == IsFiniteSet(SendIds)
ASSUME CodeAssumption == NoCode \notin Codes

\* The type of recordProviderEvent's state leaves out what only the service records.
ASSUME WebhookStatesAssumption ==
    {"SEND_REQUESTED", "PROVIDER_ACCEPTED", "PROVIDER_TIMEOUT"} \cap WebhookStates = {}

Contexts == [tenant : Tenants, application : Applications]

NoTime == -1
Time == Nat
Instants == Nat \cup {NoTime}

Statuses == {"PENDING", "VERIFIED", "EXPIRED", "LOCKED", "CONSUMED"}

Challenge ==
    [context : Contexts, purpose : Purposes, destination : Destinations,
     status : Statuses, code : Codes \cup {NoCode}, expiresAt : Time,
     attemptCount : Nat, sendCount : Nat, lastSentAt : Time,
     verifiedAt : Instants, consumedAt : Instants]

\* A SEND_REQUESTED row, with the code its mail carries and its place among
\* the sends of its challenge.
Send ==
    [challenge : ChallengeIds, tenant : Tenants, destination : Destinations,
     code : Codes, nth : Nat, at : Time]

ASSUME AbsenceAssumption == NoChallenge \notin Challenge /\ NoSend \notin Send

Failures == {"PROVIDER_FAILED", "PROVIDER_TIMEOUT"}
Outcomes == {"PROVIDER_ACCEPTED"} \cup Failures
DeliveryStates == {"SEND_REQUESTED"} \cup Outcomes \cup WebhookStates

VARIABLES
    clock,
    challenges,  \* the table verification_challenges
    sends,       \* the SEND_REQUESTED rows of verification_delivery_events
    delivery,    \* delivery[s]: the states recorded for send s
    caller,      \* caller[s]: the process that waits for the provider
    mailed       \* the sends that the provider accepted

vars == <<clock, challenges, sends, delivery, caller, mailed>>
sendVars == <<sends, delivery, caller, mailed>>

Init ==
    /\ clock = 0
    /\ challenges = [c \in ChallengeIds |-> NoChallenge]
    /\ sends = [s \in SendIds |-> NoSend]
    /\ delivery = [s \in SendIds |-> {}]
    /\ caller = [s \in SendIds |-> "IDLE"]
    /\ mailed = {}

-----------------------------------------------------------------------------
(* Helpers of the service.                                                 *)

Exists(c) == challenges[c] # NoChallenge
Requested(s) == sends[s] # NoSend

\* withChallenge: the row must exist and belong to the caller's context.
InContext(context, c) == Exists(c) /\ challenges[c].context = context

RecentSends(tenant, destination, window) ==
    {s \in SendIds : /\ Requested(s)
                     /\ sends[s].tenant = tenant
                     /\ sends[s].destination = destination
                     /\ sends[s].at > clock - window}

\* Mutant: the limit is compared with > instead of >=.
DestinationLimitedLate(tenant, destination) ==
    \/ Cardinality(RecentSends(tenant, destination, Hour)) > MaxSendsPerDestinationHour
    \/ Cardinality(RecentSends(tenant, destination, Day)) > MaxSendsPerDestinationDay

DestinationLimited(tenant, destination) ==
    \/ Cardinality(RecentSends(tenant, destination, Hour)) >= MaxSendsPerDestinationHour
    \/ Cardinality(RecentSends(tenant, destination, Day)) >= MaxSendsPerDestinationDay

\* Mutant: only the cooldown guards a resend; the destination's budget is
\* left to start.
ResendLimitedByCooldown(c) ==
    \/ clock - challenges[c].lastSentAt < Cooldown
    \/ challenges[c].sendCount >= MaxSendsPerChallenge

\* Mutant: a resend exactly at the last permitted moment of the cooldown.
ResendLimitedEarly(c) ==
    \/ clock - challenges[c].lastSentAt < Cooldown - 1
    \/ challenges[c].sendCount >= MaxSendsPerChallenge
    \/ DestinationLimited(challenges[c].context.tenant, challenges[c].destination)

ResendLimited(c) ==
    \/ clock - challenges[c].lastSentAt < Cooldown
    \/ challenges[c].sendCount >= MaxSendsPerChallenge
    \/ DestinationLimited(challenges[c].context.tenant, challenges[c].destination)

\* Mutant: pending challenges never run out.
PastDeadlineNever(c) == challenges[c].expiresAt < 0

PastDeadline(c) == challenges[c].expiresAt <= clock

Expired(challenge) == [challenge EXCEPT !.status = "EXPIRED", !.code = NoCode]

Expire(c) == challenges' = [challenges EXCEPT ![c] = Expired(@)]

\* secrets.matches: nothing matches the empty hash.
Matches(challenge, code) == challenge.code # NoCode /\ challenge.code = code

\* The codes that prepareSend may generate: any but the current one.
FreshCodes(challenge) == Codes \ {challenge.code}

\* Mutant: a resend gives back the attempts already used.
ResentForgiving(challenge, code) ==
    [challenge EXCEPT !.code = code, !.sendCount = @ + 1, !.lastSentAt = clock,
                      !.expiresAt = clock + Expiration, !.attemptCount = 0]

\* Mutant: the challenge keeps the code it had; the mail carries a new one.
ResentStale(challenge, code) ==
    [challenge EXCEPT !.sendCount = @ + 1, !.lastSentAt = clock,
                      !.expiresAt = clock + Expiration]

\* prepareSend, on the challenge.
Resent(challenge, code) ==
    [challenge EXCEPT !.code = code, !.sendCount = @ + 1, !.lastSentAt = clock,
                      !.expiresAt = clock + Expiration]

\* prepareSend, on the event log: the request is committed before the
\* provider is called.
Request(s, c, challenge, code) ==
    /\ ~Requested(s)
    /\ sends' = [sends EXCEPT ![s] =
         [challenge |-> c, tenant |-> challenge.context.tenant,
          destination |-> challenge.destination, code |-> code,
          nth |-> challenge.sendCount, at |-> clock]]
    /\ delivery' = [delivery EXCEPT ![s] = {"SEND_REQUESTED"}]
    /\ caller' = [caller EXCEPT ![s] = "CALLING"]
    /\ UNCHANGED mailed

-----------------------------------------------------------------------------
(* The operations of the service, one transaction each.                    *)

New(context, destination, purpose) ==
    [context |-> context, purpose |-> purpose, destination |-> destination,
     status |-> "PENDING", code |-> NoCode, expiresAt |-> clock + Expiration,
     attemptCount |-> 0, sendCount |-> 0, lastSentAt |-> clock,
     verifiedAt |-> NoTime, consumedAt |-> NoTime]

Start(context, destination, purpose, c, s) ==
    /\ ~Exists(c)
    /\ ~DestinationLimited(context.tenant, destination)
    /\ LET new == New(context, destination, purpose)
       IN \E code \in FreshCodes(new) :
            /\ challenges' = [challenges EXCEPT ![c] = Resent(new, code)]
            /\ Request(s, c, Resent(new, code), code)
    /\ UNCHANGED clock

ResendPending(c, s) ==
    /\ ~ResendLimited(c)
    /\ \E code \in FreshCodes(challenges[c]) :
         /\ challenges' = [challenges EXCEPT ![c] = Resent(@, code)]
         /\ Request(s, c, Resent(challenges[c], code), code)

Resend(context, c, s) ==
    /\ InContext(context, c)
    /\ challenges[c].status = "PENDING"
    /\ \/ PastDeadline(c) /\ Expire(c) /\ UNCHANGED sendVars
       \/ ~PastDeadline(c) /\ ResendPending(c, s)
    /\ UNCHANGED clock

Locked(challenge) == [challenge EXCEPT !.status = "LOCKED", !.code = NoCode]

\* Mutant: the last permitted attempt does not lock.
WrongCodeLate(challenge) ==
    LET counted == [challenge EXCEPT !.attemptCount = @ + 1]
    IN IF counted.attemptCount > MaxAttempts THEN Locked(counted) ELSE counted

WrongCode(challenge) ==
    LET counted == [challenge EXCEPT !.attemptCount = @ + 1]
    IN IF counted.attemptCount >= MaxAttempts THEN Locked(counted) ELSE counted

RightCode(challenge) ==
    [challenge EXCEPT !.status = "VERIFIED", !.verifiedAt = clock, !.code = NoCode]

\* A guess is a code or anything malformed; NoCode stands for the latter.
Verify(context, c, guess, purpose) ==
    /\ InContext(context, c)
    /\ purpose \in {NoPurpose, challenges[c].purpose}
    /\ challenges[c].status = "PENDING"
    /\ \/ PastDeadline(c) /\ Expire(c)
       \/ /\ ~PastDeadline(c)
          /\ challenges' = [challenges EXCEPT ![c] =
               IF Matches(@, guess) THEN RightCode(@) ELSE WrongCode(@)]
    /\ UNCHANGED <<clock, sendVars>>

Consumed(challenge) == [challenge EXCEPT !.status = "CONSUMED", !.consumedAt = clock]

\* Mutant: consume accepts evidence whatever its age.
ConsumeAnyAge(context, c, destination, purpose) ==
    /\ InContext(context, c)
    /\ challenges[c].destination = destination
    /\ challenges[c].purpose = purpose
    /\ challenges[c].status = "VERIFIED"
    /\ challenges' = [challenges EXCEPT ![c] = Consumed(@)]
    /\ UNCHANGED <<clock, sendVars>>

Consume(context, c, destination, purpose) ==
    /\ InContext(context, c)
    /\ challenges[c].destination = destination
    /\ challenges[c].purpose = purpose
    /\ challenges[c].status = "VERIFIED"
    /\ \/ PastDeadline(c) /\ Expire(c)
       \/ /\ ~PastDeadline(c)
          /\ challenges' = [challenges EXCEPT ![c] = Consumed(@)]
    /\ UNCHANGED <<clock, sendVars>>

-----------------------------------------------------------------------------
(* deliver: the call to the provider and the transaction that records it.  *)

\* The provider accepts the mail, possibly after the caller gave up.
ProviderAccepts(s) ==
    /\ Requested(s)
    /\ mailed' = mailed \cup {s}
    /\ UNCHANGED <<clock, challenges, sends, delivery, caller>>

\* Mutant: there is no timer, so only a mail that went out is answered.
AnswerNoTimeout(s, outcome) ==
    /\ caller[s] = "CALLING" /\ s \in mailed
    /\ caller' = [caller EXCEPT ![s] = outcome]
    /\ UNCHANGED <<clock, challenges, sends, delivery, mailed>>

\* Promise.race: the answer, an error (even of a mail that was accepted), or
\* the timeout, whichever comes first.
Answer(s, outcome) ==
    /\ caller[s] = "CALLING"
    /\ outcome = "PROVIDER_ACCEPTED" => s \in mailed
    /\ caller' = [caller EXCEPT ![s] = outcome]
    /\ UNCHANGED <<clock, challenges, sends, delivery, mailed>>

RecordOutcome(s) ==
    /\ caller[s] \in Outcomes
    /\ delivery' = [delivery EXCEPT ![s] = @ \cup {caller[s]}]
    /\ caller' = [caller EXCEPT ![s] = "DONE"]
    /\ UNCHANGED <<clock, challenges, sends, mailed>>

\* The process dies between the two transactions.
Crash(s) ==
    /\ caller[s] \in {"CALLING"} \cup Outcomes
    /\ caller' = [caller EXCEPT ![s] = "CRASHED"]
    /\ UNCHANGED <<clock, challenges, sends, delivery, mailed>>

\* Mutant: an event of an unknown message is stored instead of refused.
KnownDeliveryAny(s) == Requested(s)

\* findByProviderMessageId: only a recorded acceptance carries a message id.
KnownDelivery(s) == "PROVIDER_ACCEPTED" \in delivery[s]

\* recordProviderEvent; a repeated event id changes nothing, and an unknown
\* message is answered 503 for the provider to try again.
RecordProviderEvent(s, state) ==
    /\ s \in mailed
    /\ KnownDelivery(s)
    /\ delivery' = [delivery EXCEPT ![s] = @ \cup {state}]
    /\ UNCHANGED <<clock, challenges, sends, caller, mailed>>

Tick ==
    /\ clock < MaxTime
    /\ clock' = clock + 1
    /\ UNCHANGED <<challenges, sendVars>>

-----------------------------------------------------------------------------
Operation ==
    \E context \in Contexts, c \in ChallengeIds :
      \/ \E d \in Destinations, p \in Purposes, s \in SendIds : Start(context, d, p, c, s)
      \/ \E s \in SendIds : Resend(context, c, s)
      \/ \E g \in Codes \cup {NoCode}, p \in Purposes \cup {NoPurpose} : Verify(context, c, g, p)
      \/ \E d \in Destinations, p \in Purposes : Consume(context, c, d, p)

Delivery ==
    \E s \in SendIds :
      \/ ProviderAccepts(s)
      \/ \E outcome \in Outcomes : Answer(s, outcome)
      \/ RecordOutcome(s)
      \/ Crash(s)
      \/ \E state \in WebhookStates : RecordProviderEvent(s, state)

Next == Operation \/ Delivery \/ Tick

Spec == Init /\ [][Next]_vars

\* The provider call ends (Promise.race has a timer) and the process goes on
\* to record it unless it crashes; nothing else is owed by the code.
Fairness ==
    \A s \in SendIds :
      /\ WF_vars(\E outcome \in Outcomes : Answer(s, outcome))
      /\ WF_vars(RecordOutcome(s))

LiveSpec == Spec /\ Fairness

-----------------------------------------------------------------------------
(* Properties.                                                             *)

Pending(c) == Exists(c) /\ challenges[c].status = "PENDING"

\* The sends of challenge c, and two of them that follow each other.
SendsOf(c) == {s \in SendIds : Requested(s) /\ sends[s].challenge = c}
Consecutive(s, t) ==
    /\ Requested(s) /\ Requested(t)
    /\ sends[s].challenge = sends[t].challenge
    /\ sends[t].nth = sends[s].nth + 1

TypeOK ==
    /\ clock \in Time
    /\ challenges \in [ChallengeIds -> Challenge \cup {NoChallenge}]
    /\ sends \in [SendIds -> Send \cup {NoSend}]
    /\ delivery \in [SendIds -> SUBSET DeliveryStates]
    /\ caller \in [SendIds -> {"IDLE", "CALLING", "DONE", "CRASHED"} \cup Outcomes]
    /\ mailed \subseteq SendIds

\* In no rolling hour or day does a destination get more mail than the
\* policy allows, whatever mixture of starts and resends, by whichever
\* application of the tenant, and whether or not the sends succeed.
SendBudget ==
    \A tenant \in Tenants, d \in Destinations :
      /\ Cardinality(RecentSends(tenant, d, Hour)) <= MaxSendsPerDestinationHour
      /\ Cardinality(RecentSends(tenant, d, Day)) <= MaxSendsPerDestinationDay

\* The challenges of a destination that still accept guesses.
LiveChallenges(tenant, d) ==
    {c \in ChallengeIds : /\ Pending(c)
                          /\ ~PastDeadline(c)
                          /\ challenges[c].context.tenant = tenant
                          /\ challenges[c].destination = d}

\* Start never withdraws earlier challenges of a destination; what bounds
\* the guesses at one mailbox is that the challenges open at any moment are
\* no more than its hourly sends (for codes that live at most an hour).
LiveChallengeBudget ==
    \A tenant \in Tenants, d \in Destinations :
      Cardinality(LiveChallenges(tenant, d)) <= MaxSendsPerDestinationHour

\* The challenge row and the event log tell the same story: as many sends as
\* the row counts, and the code that a pending challenge accepts is the one
\* in its latest mail, so that no superseded code verifies.
SendLogAgrees ==
    \A c \in ChallengeIds : Exists(c) =>
      /\ Cardinality(SendsOf(c)) = challenges[c].sendCount
      /\ Pending(c) =>
           \E s \in SendsOf(c) : /\ sends[s].nth = challenges[c].sendCount
                                 /\ sends[s].code = challenges[c].code
                                 /\ sends[s].at = challenges[c].lastSentAt

\* Two mails of one challenge in a row are a cooldown apart and carry
\* different codes.
ResendsSpacedAndRotated ==
    \A s, t \in SendIds : Consecutive(s, t) =>
      /\ sends[t].at - sends[s].at >= Cooldown
      /\ sends[t].code # sends[s].code

\* A challenge stops accepting guesses with its last permitted wrong one,
\* and only then is it locked.
LockedAtLimit ==
    \A c \in ChallengeIds : Exists(c) =>
      /\ challenges[c].attemptCount <= MaxAttempts
      /\ challenges[c].status = "LOCKED" <=> challenges[c].attemptCount = MaxAttempts

\* Wrong guesses are never forgiven, by a resend or anything else.
AttemptsNeverForgiven ==
    [][\A c \in ChallengeIds : Exists(c) =>
         challenges'[c].attemptCount >= challenges[c].attemptCount]_vars

\* Evidence is established and used before the challenge's deadline.
EvidenceInTime ==
    \A c \in ChallengeIds : Exists(c) =>
      LET ch == challenges[c] IN
      /\ ch.status \in {"VERIFIED", "CONSUMED"} =>
           ch.verifiedAt \in 0 .. ch.expiresAt - 1
      /\ ch.status = "CONSUMED" =>
           ch.consumedAt \in ch.verifiedAt .. ch.expiresAt - 1

\* A code hash is kept exactly while the challenge is pending.
CodeOnlyWhilePending ==
    \A c \in ChallengeIds : Exists(c) =>
      (challenges[c].code # NoCode <=> challenges[c].status = "PENDING")

\* What the provider reports about a mail is stored only after the
\* acceptance that identifies it, which is only of mail really accepted, and
\* which excludes a recorded timeout.
ReportsFollowAcceptance ==
    \A s \in SendIds :
      /\ delivery[s] \cap (WebhookStates \ Failures) # {} => KnownDelivery(s)
      /\ KnownDelivery(s) => s \in mailed /\ "PROVIDER_TIMEOUT" \notin delivery[s]

\* Every reserved send gets an outcome in the log, unless the process that
\* waits for it dies.
EverySendSettles ==
    \A s \in SendIds :
      Requested(s) ~> (delivery[s] \cap Outcomes # {} \/ caller[s] = "CRASHED")

\* H2 implements one-time evidence with a deadline.
StageOf == [PENDING |-> "OFFERED", VERIFIED |-> "PROVEN", CONSUMED |-> "SPENT",
            EXPIRED |-> "VOID", LOCKED |-> "VOID"]

Evidence == INSTANCE VerificationEvidence WITH
    Items <- ChallengeIds,
    now <- clock,
    stage <- [c \in ChallengeIds |->
                IF Exists(c) THEN StageOf[challenges[c].status] ELSE "NONE"],
    deadline <- [c \in ChallengeIds |-> IF Exists(c) THEN challenges[c].expiresAt ELSE 0]

ImplementsEvidence == Evidence!Spec

\* What a resend may never do: leave the log of sends and the counters apart, come
\* before the cooldown or with the code it replaces, or forgive attempts.
ResendsSound == [][SendLogAgrees' /\ ResendsSpacedAndRotated']_vars /\ AttemptsNeverForgiven
=============================================================================
