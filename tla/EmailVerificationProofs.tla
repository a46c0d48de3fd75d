---------------------- MODULE EmailVerificationProofs ----------------------
(***************************************************************************)
(* Theorems about EmailVerification, for every tenant, destination and     *)
(* challenge, any policy, and any finite supply of send requests.          *)
(***************************************************************************)
EXTENDS EmailVerification, FiniteSetTheorems, TLAPS

USE PolicyAssumption

-----------------------------------------------------------------------------
(* Every challenge that a transaction writes is well formed.               *)

\* A resent challenge is a challenge.
LEMMA ResentTyped ==
    ASSUME NEW ch \in Challenge, NEW code \in Codes, clock \in Nat
    PROVE  Resent(ch, code) \in Challenge
<1>1. clock + Expiration \in Nat
  BY PolicyAssumption
<1>2. ch.sendCount + 1 \in Nat
  BY DEF Challenge
<1> DEFINE rotated == [ch EXCEPT !.code = code, !.sendCount = @ + 1]
<1>3. rotated \in Challenge
  BY <1>2 DEF Challenge
<1> HIDE DEF rotated
<1>4. [rotated EXCEPT !.lastSentAt = clock, !.expiresAt = clock + Expiration] \in Challenge
  BY <1>1, <1>3 DEF Challenge, Time
<1> QED
  BY <1>4 DEF Resent, rotated

\* So is what expiry, guesses and consumption make of one.
LEMMA ChallengeWrites ==
    ASSUME NEW ch \in Challenge, clock \in Nat
    PROVE  /\ Expired(ch) \in Challenge
           /\ WrongCode(ch) \in Challenge
           /\ RightCode(ch) \in Challenge
           /\ Consumed(ch) \in Challenge
<1>1. Expired(ch) \in Challenge
  BY DEF Expired, Challenge, Statuses
<1>2. WrongCode(ch) \in Challenge
  <2> DEFINE counted == [ch EXCEPT !.attemptCount = @ + 1]
  <2>1. counted \in Challenge
    BY DEF Challenge
  <2> HIDE DEF counted
  <2>2. Locked(counted) \in Challenge
    BY <2>1 DEF Locked, Challenge, Statuses
  <2> QED
    BY <2>1, <2>2 DEF WrongCode, counted
<1>3. RightCode(ch) \in Challenge
  BY DEF RightCode, Challenge, Statuses, Instants
<1>4. Consumed(ch) \in Challenge
  BY DEF Consumed, Challenge, Statuses, Instants
<1> QED
  BY <1>1, <1>2, <1>3, <1>4

\* A new challenge is a challenge.
LEMMA NewIsChallenge ==
    ASSUME NEW context \in Contexts, NEW d \in Destinations, NEW p \in Purposes, clock \in Nat
    PROVE  New(context, d, p) \in Challenge
BY DEF New, Challenge, Statuses, Time, Instants, NoTime

\* A requested send is well formed.
LEMMA RequestTyped ==
    ASSUME TypeOK, NEW s \in SendIds, NEW c \in ChallengeIds,
           NEW ch \in Challenge, NEW code \in Codes, Request(s, c, ch, code)
    PROVE  /\ sends' \in [SendIds -> Send \cup {NoSend}]
           /\ delivery' \in [SendIds -> SUBSET DeliveryStates]
           /\ caller' \in [SendIds -> {"IDLE", "CALLING", "DONE", "CRASHED"} \cup Outcomes]
           /\ mailed' \subseteq SendIds
<1> DEFINE send == [challenge |-> c, tenant |-> ch.context.tenant,
                    destination |-> ch.destination, code |-> code,
                    nth |-> ch.sendCount, at |-> clock]
<1>1. send \in Send
  BY DEF Send, TypeOK, Challenge, Contexts, Time
<1>2. sends' = [sends EXCEPT ![s] = send]
  BY DEF Request
<1> HIDE DEF send
<1>3. sends' \in [SendIds -> Send \cup {NoSend}]
  BY <1>1, <1>2 DEF TypeOK
<1>4. delivery' \in [SendIds -> SUBSET DeliveryStates]
  BY DEF Request, TypeOK, DeliveryStates
<1> QED
  BY <1>3, <1>4 DEF Request, TypeOK

\* Replacing one challenge by a well-formed one keeps the table well formed.
LEMMA TableTyped ==
    ASSUME TypeOK, NEW c \in ChallengeIds, NEW ch \in Challenge,
           challenges' = [challenges EXCEPT ![c] = ch]
    PROVE  challenges' \in [ChallengeIds -> Challenge \cup {NoChallenge}]
BY DEF TypeOK

\* Every variable keeps its type, whatever the order of operations,
\* provider answers, crashes and ticks.
THEOREM TypeCorrect == Spec => []TypeOK
<1>1. Init => TypeOK
  BY DEF Init, TypeOK, Time
<1>2. TypeOK /\ [Next]_vars => TypeOK'
  <2> SUFFICES ASSUME TypeOK, [Next]_vars PROVE TypeOK'
    OBVIOUS
  <2>1. ASSUME NEW context \in Contexts, NEW c \in ChallengeIds, NEW d \in Destinations,
               NEW p \in Purposes, NEW s \in SendIds, Start(context, d, p, c, s)
        PROVE  TypeOK'
    <3>1. New(context, d, p) \in Challenge
      BY NewIsChallenge DEF TypeOK, Time
    <3>2. PICK code \in Codes :
            /\ challenges' = [challenges EXCEPT ![c] = Resent(New(context, d, p), code)]
            /\ Request(s, c, Resent(New(context, d, p), code), code)
      BY <2>1 DEF Start, FreshCodes
    <3>3. Resent(New(context, d, p), code) \in Challenge
      BY <3>1, ResentTyped DEF TypeOK, Time
    <3>4. challenges' \in [ChallengeIds -> Challenge \cup {NoChallenge}]
      BY <3>2, <3>3, TableTyped
    <3>5. clock' \in Time
      BY <2>1 DEF Start, TypeOK
    <3> QED
      BY <3>2, <3>3, <3>4, <3>5, RequestTyped DEF TypeOK
  <2>2. ASSUME NEW context \in Contexts, NEW c \in ChallengeIds, NEW s \in SendIds,
               Resend(context, c, s)
        PROVE  TypeOK'
    <3>1. challenges[c] \in Challenge /\ clock \in Nat
      BY <2>2 DEF Resend, InContext, Exists, TypeOK, Time
    <3>2. CASE Expire(c) /\ UNCHANGED sendVars
      <4>1. challenges' \in [ChallengeIds -> Challenge \cup {NoChallenge}]
        BY <3>1, <3>2, ChallengeWrites, TableTyped DEF Expire
      <4> QED
        BY <2>2, <3>2, <4>1 DEF Resend, TypeOK, sendVars
    <3>3. CASE ResendPending(c, s)
      <4>1. PICK code \in Codes :
              /\ challenges' = [challenges EXCEPT ![c] = Resent(challenges[c], code)]
              /\ Request(s, c, Resent(challenges[c], code), code)
        BY <3>3 DEF ResendPending, FreshCodes
      <4>2. Resent(challenges[c], code) \in Challenge
        BY <3>1, ResentTyped
      <4>3. challenges' \in [ChallengeIds -> Challenge \cup {NoChallenge}]
        BY <4>1, <4>2, TableTyped
      <4> QED
        BY <2>2, <4>1, <4>2, <4>3, RequestTyped DEF Resend, TypeOK
    <3> QED
      BY <2>2, <3>2, <3>3 DEF Resend
  <2>3. ASSUME NEW context \in Contexts, NEW c \in ChallengeIds,
               NEW g \in Codes \cup {NoCode}, NEW p \in Purposes \cup {NoPurpose},
               Verify(context, c, g, p)
        PROVE  TypeOK'
    <3>1. challenges[c] \in Challenge /\ clock \in Nat
      BY <2>3 DEF Verify, InContext, Exists, TypeOK, Time
    <3>2. PICK ch \in Challenge : challenges' = [challenges EXCEPT ![c] = ch]
      <4>1. CASE Expire(c)
        BY <3>1, <4>1, ChallengeWrites DEF Expire
      <4>2. CASE ~PastDeadline(c)
        <5>1. RightCode(challenges[c]) \in Challenge /\ WrongCode(challenges[c]) \in Challenge
          BY <3>1, ChallengeWrites
        <5> QED
          BY <2>3, <4>2, <5>1 DEF Verify
      <4> QED
        BY <2>3, <4>1, <4>2 DEF Verify
    <3> QED
      BY <2>3, <3>2, TableTyped DEF Verify, TypeOK, sendVars
  <2>4. ASSUME NEW context \in Contexts, NEW c \in ChallengeIds, NEW d \in Destinations,
               NEW p \in Purposes, Consume(context, c, d, p)
        PROVE  TypeOK'
    <3>1. challenges[c] \in Challenge /\ clock \in Nat
      BY <2>4 DEF Consume, InContext, Exists, TypeOK, Time
    <3>2. PICK ch \in Challenge : challenges' = [challenges EXCEPT ![c] = ch]
      <4>1. CASE Expire(c)
        BY <3>1, <4>1, ChallengeWrites DEF Expire
      <4>2. CASE ~PastDeadline(c)
        <5>1. Consumed(challenges[c]) \in Challenge
          BY <3>1, ChallengeWrites
        <5> QED
          BY <2>4, <4>2, <5>1 DEF Consume
      <4> QED
        BY <2>4, <4>1, <4>2 DEF Consume
    <3> QED
      BY <2>4, <3>2, TableTyped DEF Consume, TypeOK, sendVars
  <2>5. ASSUME NEW s \in SendIds,
               \/ ProviderAccepts(s)
               \/ \E outcome \in Outcomes : Answer(s, outcome)
               \/ RecordOutcome(s)
               \/ Crash(s)
               \/ \E state \in WebhookStates : RecordProviderEvent(s, state)
        PROVE  TypeOK'
    BY <2>5 DEF TypeOK, ProviderAccepts, Answer, RecordOutcome, Crash,
                RecordProviderEvent, DeliveryStates
  <2>6. CASE Tick
    BY <2>6 DEF Tick, TypeOK, Time, sendVars
  <2>7. CASE UNCHANGED vars
    BY <2>7 DEF vars, TypeOK
  <2> QED
    BY <2>1, <2>2, <2>3, <2>4, <2>5, <2>6, <2>7 DEF Next, Operation, Delivery
<1> QED
  BY <1>1, <1>2, PTL DEF Spec

-----------------------------------------------------------------------------
(* The send budget of a destination.                                       *)

\* A send request adds one send to the window of its own destination, and
\* nothing to any other.
LEMMA WindowGrowth ==
    ASSUME TypeOK, NEW s \in SendIds, NEW c \in ChallengeIds, NEW ch \in Challenge,
           NEW code \in Codes, Request(s, c, ch, code), clock' = clock,
           NEW t \in Tenants, NEW d \in Destinations, NEW w \in Nat
    PROVE  /\ RecentSends(t, d, w)' \subseteq RecentSends(t, d, w) \cup {s}
           /\ \/ t = ch.context.tenant /\ d = ch.destination
              \/ RecentSends(t, d, w)' \subseteq RecentSends(t, d, w)
<1> DEFINE send == [challenge |-> c, tenant |-> ch.context.tenant,
                    destination |-> ch.destination, code |-> code,
                    nth |-> ch.sendCount, at |-> clock]
<1>1. /\ sends' = [sends EXCEPT ![s] = send]
      /\ sends \in [SendIds -> Send \cup {NoSend}]
      /\ send.tenant = ch.context.tenant
      /\ send.destination = ch.destination
  BY DEF Request, TypeOK
<1> HIDE DEF send
<1>2. \A r \in SendIds : r # s => sends'[r] = sends[r]
  BY <1>1
<1>3. sends'[s] = send
  BY <1>1
<1>4. RecentSends(t, d, w)' \subseteq RecentSends(t, d, w) \cup {s}
  BY <1>2 DEF RecentSends, Requested
<1>5. ASSUME ~(t = ch.context.tenant /\ d = ch.destination)
      PROVE  RecentSends(t, d, w)' \subseteq RecentSends(t, d, w)
  BY <1>1, <1>2, <1>3, <1>5 DEF RecentSends, Requested
<1> QED
  BY <1>4, <1>5

\* The sends that a limit counts are finitely many.
LEMMA RecentSendsFinite ==
    ASSUME NEW t, NEW d, NEW w
    PROVE  /\ IsFiniteSet(RecentSends(t, d, w))
           /\ Cardinality(RecentSends(t, d, w)) \in Nat
<1>1. RecentSends(t, d, w) \in SUBSET SendIds
  BY DEF RecentSends
<1> QED
  BY <1>1, SendIdsAssumption, FS_Subset, FS_CardinalityType

\* A window that shrinks or stands still stays within its limit.
LEMMA WindowShrinks ==
    ASSUME NEW t, NEW d, NEW w, NEW limit \in Nat,
           RecentSends(t, d, w)' \subseteq RecentSends(t, d, w),
           Cardinality(RecentSends(t, d, w)) <= limit
    PROVE  Cardinality(RecentSends(t, d, w)') <= limit
<1>1. RecentSends(t, d, w)' \in SUBSET RecentSends(t, d, w)
  OBVIOUS
<1>2. /\ Cardinality(RecentSends(t, d, w)') <= Cardinality(RecentSends(t, d, w))
      /\ IsFiniteSet(RecentSends(t, d, w)')
  BY <1>1, RecentSendsFinite, FS_Subset
<1>3. Cardinality(RecentSends(t, d, w)') \in Nat
  BY <1>2, FS_CardinalityType
<1> QED
  BY <1>2, <1>3, RecentSendsFinite

\* One more send keeps a window that was below its limit within it.
LEMMA WindowTakesOne ==
    ASSUME NEW t, NEW d, NEW w, NEW s, NEW limit \in Nat,
           RecentSends(t, d, w)' \subseteq RecentSends(t, d, w) \cup {s},
           ~(Cardinality(RecentSends(t, d, w)) >= limit)
    PROVE  Cardinality(RecentSends(t, d, w)') <= limit
<1> DEFINE R == RecentSends(t, d, w)
           N == RecentSends(t, d, w)'
<1>1. IsFiniteSet(R) /\ Cardinality(R) \in Nat
  BY RecentSendsFinite
<1>2. N \in SUBSET (R \cup {s})
  OBVIOUS
<1> HIDE DEF R, N
<1>3. IsFiniteSet(R \cup {s}) /\ Cardinality(R \cup {s}) <= Cardinality(R) + 1
  <2>1. /\ IsFiniteSet(R \cup {s})
        /\ Cardinality(R \cup {s}) = IF s \in R THEN Cardinality(R) ELSE Cardinality(R) + 1
    BY <1>1, FS_AddElement, Zenon
  <2> QED
    BY <1>1, <2>1
<1>4. Cardinality(R \cup {s}) \in Nat
  BY <1>3, FS_CardinalityType
<1>5. IsFiniteSet(N) /\ Cardinality(N) <= Cardinality(R \cup {s})
  BY <1>2, <1>3, FS_Subset
<1>6. Cardinality(N) \in Nat
  BY <1>5, FS_CardinalityType
<1>7. ~(Cardinality(R) >= limit)
  BY DEF R
<1>8. Cardinality(N) <= limit
  BY <1>1, <1>3, <1>4, <1>5, <1>6, <1>7
<1> QED
  BY <1>8 DEF N

\* The guard of start and resend makes a request keep every window in budget.
LEMMA RequestInBudget ==
    ASSUME TypeOK, SendBudget, NEW s \in SendIds, NEW c \in ChallengeIds,
           NEW ch \in Challenge, NEW code \in Codes, Request(s, c, ch, code), clock' = clock,
           ~DestinationLimited(ch.context.tenant, ch.destination)
    PROVE  SendBudget'
<1> SUFFICES ASSUME NEW t \in Tenants, NEW d \in Destinations
    PROVE /\ Cardinality(RecentSends(t, d, Hour)') <= MaxSendsPerDestinationHour
          /\ Cardinality(RecentSends(t, d, Day)') <= MaxSendsPerDestinationDay
  BY DEF SendBudget
<1>1. /\ Hour \in Nat /\ Day \in Nat
      /\ MaxSendsPerDestinationHour \in Nat
      /\ MaxSendsPerDestinationDay \in Nat
  OBVIOUS
<1>2. CASE t = ch.context.tenant /\ d = ch.destination
  <2>1. /\ ~(Cardinality(RecentSends(t, d, Hour)) >= MaxSendsPerDestinationHour)
        /\ ~(Cardinality(RecentSends(t, d, Day)) >= MaxSendsPerDestinationDay)
    BY <1>2 DEF DestinationLimited
  <2>2. /\ RecentSends(t, d, Hour)' \subseteq RecentSends(t, d, Hour) \cup {s}
        /\ RecentSends(t, d, Day)' \subseteq RecentSends(t, d, Day) \cup {s}
    BY <1>1, WindowGrowth
  <2>3. Cardinality(RecentSends(t, d, Hour)') <= MaxSendsPerDestinationHour
    BY <1>1, <2>1, <2>2, WindowTakesOne
  <2>4. Cardinality(RecentSends(t, d, Day)') <= MaxSendsPerDestinationDay
    BY <1>1, <2>1, <2>2, WindowTakesOne
  <2> QED
    BY <2>3, <2>4
<1>3. CASE ~(t = ch.context.tenant /\ d = ch.destination)
  <2>1. /\ RecentSends(t, d, Hour)' \subseteq RecentSends(t, d, Hour)
        /\ RecentSends(t, d, Day)' \subseteq RecentSends(t, d, Day)
    BY <1>1, <1>3, WindowGrowth
  <2>2. /\ Cardinality(RecentSends(t, d, Hour)) <= MaxSendsPerDestinationHour
        /\ Cardinality(RecentSends(t, d, Day)) <= MaxSendsPerDestinationDay
    BY DEF SendBudget
  <2> QED
    BY <1>1, <2>1, <2>2, WindowShrinks
<1> QED
  BY <1>2, <1>3

\* Time passing, or a step that requests no send, only empties windows.
LEMMA QuietStepInBudget ==
    ASSUME TypeOK, SendBudget, UNCHANGED sends, clock' \in Nat, clock' >= clock
    PROVE  SendBudget'
<1> SUFFICES ASSUME NEW t \in Tenants, NEW d \in Destinations
    PROVE /\ Cardinality(RecentSends(t, d, Hour)') <= MaxSendsPerDestinationHour
          /\ Cardinality(RecentSends(t, d, Day)') <= MaxSendsPerDestinationDay
  BY DEF SendBudget
<1>1. ASSUME NEW w \in Nat
      PROVE  RecentSends(t, d, w)' \subseteq RecentSends(t, d, w)
  <2> SUFFICES ASSUME NEW s \in RecentSends(t, d, w)' PROVE s \in RecentSends(t, d, w)
    OBVIOUS
  <2>1. s \in SendIds /\ sends[s] \in Send /\ sends[s].at > clock' - w
    BY DEF RecentSends, Requested, TypeOK
  <2>2. sends[s].at > clock - w
    BY <2>1 DEF Send, Time, TypeOK
  <2> QED
    BY <2>1, <2>2 DEF RecentSends, Requested
<1>2. /\ Cardinality(RecentSends(t, d, Hour)) <= MaxSendsPerDestinationHour
      /\ Cardinality(RecentSends(t, d, Day)) <= MaxSendsPerDestinationDay
  BY DEF SendBudget
<1> QED
  BY <1>1, <1>2, WindowShrinks

\* No destination gets more mail in a rolling hour or day than the policy
\* allows: destinationLimited is read and the request written under one lock,
\* by start and resend alike, so concurrent requests cannot overspend.
THEOREM SendBudgetHolds == Spec => []SendBudget
<1>1. Init => SendBudget
  <2> SUFFICES ASSUME Init, NEW t \in Tenants, NEW d \in Destinations
      PROVE /\ Cardinality(RecentSends(t, d, Hour)) <= MaxSendsPerDestinationHour
            /\ Cardinality(RecentSends(t, d, Day)) <= MaxSendsPerDestinationDay
    BY DEF SendBudget
  <2>1. RecentSends(t, d, Hour) = {} /\ RecentSends(t, d, Day) = {}
    BY DEF Init, RecentSends, Requested
  <2> QED
    BY <2>1, FS_EmptySet
<1>2. TypeOK /\ TypeOK' /\ SendBudget /\ [Next]_vars => SendBudget'
  <2> SUFFICES ASSUME TypeOK, TypeOK', SendBudget, [Next]_vars PROVE SendBudget'
    OBVIOUS
  <2>0. clock \in Nat /\ clock' \in Nat
    BY DEF TypeOK, Time
  <2>1. ASSUME NEW context \in Contexts, NEW c \in ChallengeIds, NEW d \in Destinations,
               NEW p \in Purposes, NEW s \in SendIds, Start(context, d, p, c, s)
        PROVE  SendBudget'
    <3>1. New(context, d, p) \in Challenge
      BY <2>0, NewIsChallenge
    <3>2. PICK code \in Codes : Request(s, c, Resent(New(context, d, p), code), code)
      BY <2>1 DEF Start, FreshCodes
    <3>3. Resent(New(context, d, p), code) \in Challenge
      BY <2>0, <3>1, ResentTyped
    <3>4. /\ Resent(New(context, d, p), code).context.tenant = context.tenant
          /\ Resent(New(context, d, p), code).destination = d
      BY DEF Resent, New
    <3>5. ~DestinationLimited(context.tenant, d) /\ clock' = clock
      BY <2>1 DEF Start
    <3> QED
      BY <3>2, <3>3, <3>4, <3>5, RequestInBudget
  <2>2. ASSUME NEW context \in Contexts, NEW c \in ChallengeIds, NEW s \in SendIds,
               Resend(context, c, s)
        PROVE  SendBudget'
    <3>1. challenges[c] \in Challenge /\ clock' = clock
      BY <2>2 DEF Resend, InContext, Exists, TypeOK
    <3>2. CASE Expire(c) /\ UNCHANGED sendVars
      BY <2>0, <3>1, <3>2, QuietStepInBudget DEF sendVars
    <3>3. CASE ResendPending(c, s)
      <4>1. PICK code \in Codes : Request(s, c, Resent(challenges[c], code), code)
        BY <3>3 DEF ResendPending, FreshCodes
      <4>2. Resent(challenges[c], code) \in Challenge
        BY <2>0, <3>1, ResentTyped
      <4>3. /\ Resent(challenges[c], code).context = challenges[c].context
            /\ Resent(challenges[c], code).destination = challenges[c].destination
        BY <3>1 DEF Resent, Challenge
      <4>4. ~DestinationLimited(challenges[c].context.tenant, challenges[c].destination)
        BY <3>3 DEF ResendPending, ResendLimited
      <4> QED
        BY <3>1, <4>1, <4>2, <4>3, <4>4, RequestInBudget
    <3> QED
      BY <2>2, <3>2, <3>3 DEF Resend
  <2>3. ASSUME UNCHANGED sends, clock' >= clock PROVE SendBudget'
    BY <2>0, <2>3, QuietStepInBudget
  <2>4. ASSUME NEW context \in Contexts, NEW c \in ChallengeIds,
               \/ \E g \in Codes \cup {NoCode}, p \in Purposes \cup {NoPurpose} :
                    Verify(context, c, g, p)
               \/ \E d \in Destinations, p \in Purposes : Consume(context, c, d, p)
        PROVE  UNCHANGED sends /\ clock' >= clock
    BY <2>0, <2>4 DEF Verify, Consume, sendVars
  <2>5. CASE Delivery \/ Tick \/ UNCHANGED vars
    <3>1. UNCHANGED sends /\ clock' >= clock
      BY <2>0, <2>5 DEF Delivery, ProviderAccepts, Answer, RecordOutcome, Crash,
                        RecordProviderEvent, Tick, vars, sendVars
    <3> QED
      BY <2>3, <3>1
  <2> QED
    BY <2>1, <2>2, <2>3, <2>4, <2>5 DEF Next, Operation
<1> QED
  BY <1>1, <1>2, TypeCorrect, PTL DEF Spec

-----------------------------------------------------------------------------
(* What every challenge row satisfies.                                     *)

ChallengeSound(ch) ==
    /\ ch.lastSentAt <= clock
    /\ ch.expiresAt = ch.lastSentAt + Expiration
    /\ ch.attemptCount <= MaxAttempts
    /\ ch.status = "LOCKED" <=> ch.attemptCount = MaxAttempts
    /\ ch.code # NoCode <=> ch.status = "PENDING"
    /\ ch.status \in {"VERIFIED", "CONSUMED"} =>
         ch.verifiedAt \in Nat /\ ch.verifiedAt <= clock /\ ch.verifiedAt < ch.expiresAt
    /\ ch.status = "CONSUMED" =>
         ch.consumedAt \in Nat /\ ch.verifiedAt <= ch.consumedAt /\ ch.consumedAt < ch.expiresAt

ChallengeInv == \A c \in ChallengeIds : Exists(c) => ChallengeSound(challenges[c])

\* A new challenge is sound.
LEMMA NewSound ==
    ASSUME NEW context \in Contexts, NEW d \in Destinations, NEW p \in Purposes,
           NEW code \in Codes, clock \in Nat
    PROVE  ChallengeSound(Resent(New(context, d, p), code))
BY CodeAssumption DEF ChallengeSound, Resent, New, NoTime

\* A resend leaves a sound challenge sound.
LEMMA ResentSound ==
    ASSUME NEW ch \in Challenge, NEW code \in Codes, clock \in Nat,
           ChallengeSound(ch), ch.status = "PENDING"
    PROVE  ChallengeSound(Resent(ch, code))
<1> DEFINE r == Resent(ch, code)
<1>1. /\ r.lastSentAt = clock /\ r.expiresAt = clock + Expiration /\ r.code = code
      /\ r.attemptCount = ch.attemptCount /\ r.status = "PENDING"
  BY DEF Resent, Challenge
<1> HIDE DEF r
<1>2. ChallengeSound(r)
  BY <1>1, CodeAssumption DEF ChallengeSound
<1> QED
  BY <1>2 DEF r

\* So does its expiry,
LEMMA ExpiredSound ==
    ASSUME NEW ch \in Challenge, clock \in Nat,
           ChallengeSound(ch), ch.status \in {"PENDING", "VERIFIED"}
    PROVE  ChallengeSound(Expired(ch))
<1> DEFINE e == Expired(ch)
<1>1. /\ e.lastSentAt = ch.lastSentAt /\ e.expiresAt = ch.expiresAt /\ e.code = NoCode
      /\ e.attemptCount = ch.attemptCount /\ e.status = "EXPIRED"
  BY DEF Expired, Challenge
<1> HIDE DEF e
<1>2. ChallengeSound(e)
  BY <1>1 DEF ChallengeSound
<1> QED
  BY <1>2 DEF e

\* and a wrong guess,
LEMMA WrongCodeSound ==
    ASSUME NEW ch \in Challenge, clock \in Nat, ChallengeSound(ch), ch.status = "PENDING"
    PROVE  ChallengeSound(WrongCode(ch))
<1> DEFINE counted == [ch EXCEPT !.attemptCount = @ + 1]
           locked == Locked(counted)
<1>1. /\ counted \in Challenge
      /\ counted.lastSentAt = ch.lastSentAt /\ counted.expiresAt = ch.expiresAt
      /\ counted.attemptCount = ch.attemptCount + 1 /\ counted.status = "PENDING"
      /\ counted.code = ch.code
  BY DEF Challenge
<1> HIDE DEF counted
<1>2. /\ locked.lastSentAt = ch.lastSentAt /\ locked.expiresAt = ch.expiresAt
      /\ locked.attemptCount = ch.attemptCount + 1 /\ locked.status = "LOCKED"
      /\ locked.code = NoCode
  BY <1>1 DEF Locked, Challenge
<1> HIDE DEF locked
<1>3. /\ ch.attemptCount \in Nat /\ ch.attemptCount < MaxAttempts
      /\ ch.code # NoCode /\ ch.lastSentAt <= clock
      /\ ch.expiresAt = ch.lastSentAt + Expiration
  BY DEF ChallengeSound, Challenge
<1>4. CASE counted.attemptCount >= MaxAttempts
  <2>1. ChallengeSound(locked)
    BY <1>2, <1>3, <1>1, <1>4 DEF ChallengeSound
  <2> QED
    BY <1>4, <2>1 DEF WrongCode, counted, locked
<1>5. CASE ~(counted.attemptCount >= MaxAttempts)
  <2>1. ChallengeSound(counted)
    BY <1>1, <1>3, <1>5 DEF ChallengeSound
  <2> QED
    BY <1>5, <2>1 DEF WrongCode, counted
<1> QED
  BY <1>4, <1>5

\* and the right one,
LEMMA RightCodeSound ==
    ASSUME NEW ch \in Challenge, clock \in Nat, ChallengeSound(ch), ch.status = "PENDING",
           clock < ch.expiresAt
    PROVE  ChallengeSound(RightCode(ch))
<1> DEFINE r == RightCode(ch)
<1>1. /\ r.lastSentAt = ch.lastSentAt /\ r.expiresAt = ch.expiresAt /\ r.code = NoCode
      /\ r.attemptCount = ch.attemptCount /\ r.status = "VERIFIED" /\ r.verifiedAt = clock
  BY DEF RightCode, Challenge
<1> HIDE DEF r
<1>2. ChallengeSound(r)
  BY <1>1 DEF ChallengeSound
<1> QED
  BY <1>2 DEF r

\* and its consumption.
LEMMA ConsumedSound ==
    ASSUME NEW ch \in Challenge, clock \in Nat, ChallengeSound(ch), ch.status = "VERIFIED",
           clock < ch.expiresAt
    PROVE  ChallengeSound(Consumed(ch))
<1> DEFINE r == Consumed(ch)
<1>1. /\ r.lastSentAt = ch.lastSentAt /\ r.expiresAt = ch.expiresAt /\ r.code = ch.code
      /\ r.attemptCount = ch.attemptCount /\ r.status = "CONSUMED"
      /\ r.verifiedAt = ch.verifiedAt /\ r.consumedAt = clock
  BY DEF Consumed, Challenge
<1> HIDE DEF r
<1>2. ChallengeSound(r)
  BY <1>1 DEF ChallengeSound
<1> QED
  BY <1>2 DEF r

\* One challenge replaced by a sound one, at an instant.
LEMMA TableSound ==
    ASSUME TypeOK, ChallengeInv, UNCHANGED clock, NEW c \in ChallengeIds, NEW ch \in Challenge,
           ChallengeSound(ch), challenges' = [challenges EXCEPT ![c] = ch]
    PROVE  ChallengeInv'
<1> SUFFICES ASSUME NEW x \in ChallengeIds, Exists(x)' PROVE ChallengeSound(challenges[x])'
  BY DEF ChallengeInv
<1>1. CASE x = c
  <2>1. challenges'[x] = ch
    BY <1>1 DEF TypeOK
  <2> QED
    BY <2>1 DEF ChallengeSound
<1>2. CASE x # c
  <2>1. challenges'[x] = challenges[x]
    BY <1>2 DEF TypeOK
  <2> QED
    BY <2>1 DEF ChallengeSound, ChallengeInv, Exists
<1> QED
  BY <1>1, <1>2

\* A step of the clock, or one that leaves the challenges alone.
LEMMA QuietStepSound ==
    ASSUME TypeOK, TypeOK', ChallengeInv, UNCHANGED challenges, clock' >= clock
    PROVE  ChallengeInv'
<1> SUFFICES ASSUME NEW x \in ChallengeIds, Exists(x)' PROVE ChallengeSound(challenges[x])'
  BY DEF ChallengeInv
<1>1. challenges[x] \in Challenge /\ ChallengeSound(challenges[x])
  BY DEF ChallengeInv, Exists, TypeOK
<1>2. clock \in Nat /\ clock' \in Nat
  BY DEF TypeOK, Time
<1> QED
  BY <1>1, <1>2 DEF ChallengeSound, Challenge, Time, Instants, NoTime

\* Every challenge is sound.
LEMMA ChallengeInvHolds == Spec => []ChallengeInv
<1>1. Init => ChallengeInv
  BY DEF Init, ChallengeInv, Exists
<1>2. TypeOK /\ TypeOK' /\ ChallengeInv /\ [Next]_vars => ChallengeInv'
  <2> SUFFICES ASSUME TypeOK, TypeOK', ChallengeInv, [Next]_vars PROVE ChallengeInv'
    OBVIOUS
  <2>0. clock \in Nat /\ clock' \in Nat
    BY DEF TypeOK, Time
  <2>1. ASSUME NEW context \in Contexts, NEW c \in ChallengeIds, NEW d \in Destinations,
               NEW p \in Purposes, NEW s \in SendIds, Start(context, d, p, c, s)
        PROVE  ChallengeInv'
    <3>1. PICK code \in Codes :
            challenges' = [challenges EXCEPT ![c] = Resent(New(context, d, p), code)]
      BY <2>1 DEF Start, FreshCodes
    <3>2. Resent(New(context, d, p), code) \in Challenge
      BY <2>0, NewIsChallenge, ResentTyped
    <3>3. ChallengeSound(Resent(New(context, d, p), code))
      BY <2>0, NewSound
    <3>4. UNCHANGED clock
      BY <2>1 DEF Start
    <3> QED
      BY <3>1, <3>2, <3>3, <3>4, TableSound
  <2>2. ASSUME NEW c \in ChallengeIds, Exists(c), UNCHANGED clock,
               challenges[c].status \in {"PENDING", "VERIFIED"}, Expire(c)
        PROVE  ChallengeInv'
    <3>1. challenges[c] \in Challenge /\ ChallengeSound(challenges[c])
      BY <2>2 DEF Exists, TypeOK, ChallengeInv
    <3>2. Expired(challenges[c]) \in Challenge /\ ChallengeSound(Expired(challenges[c]))
      BY <2>0, <2>2, <3>1, ChallengeWrites, ExpiredSound
    <3> QED
      BY <2>2, <3>2, TableSound DEF Expire
  <2>3. ASSUME NEW context \in Contexts, NEW c \in ChallengeIds, NEW s \in SendIds,
               Resend(context, c, s)
        PROVE  ChallengeInv'
    <3>1. /\ challenges[c] \in Challenge /\ ChallengeSound(challenges[c])
          /\ Exists(c) /\ UNCHANGED clock /\ challenges[c].status = "PENDING"
      BY <2>3 DEF Resend, InContext, Exists, TypeOK, ChallengeInv
    <3>2. CASE Expire(c)
      BY <2>2, <3>1, <3>2
    <3>3. CASE ResendPending(c, s)
      <4>1. PICK code \in Codes :
              challenges' = [challenges EXCEPT ![c] = Resent(challenges[c], code)]
        BY <3>3 DEF ResendPending, FreshCodes
      <4>2. Resent(challenges[c], code) \in Challenge
        BY <2>0, <3>1, ResentTyped
      <4>3. ChallengeSound(Resent(challenges[c], code))
        BY <2>0, <3>1, ResentSound
      <4> QED
        BY <3>1, <4>1, <4>2, <4>3, TableSound
    <3> QED
      BY <2>3, <3>2, <3>3 DEF Resend
  <2>4. ASSUME NEW context \in Contexts, NEW c \in ChallengeIds,
               NEW g \in Codes \cup {NoCode}, NEW p \in Purposes \cup {NoPurpose},
               Verify(context, c, g, p)
        PROVE  ChallengeInv'
    <3>1. /\ challenges[c] \in Challenge /\ ChallengeSound(challenges[c])
          /\ Exists(c) /\ UNCHANGED clock /\ challenges[c].status = "PENDING"
      BY <2>4 DEF Verify, InContext, Exists, TypeOK, ChallengeInv
    <3>2. CASE Expire(c)
      BY <2>2, <3>1, <3>2
    <3>3. CASE ~PastDeadline(c) /\ challenges' = [challenges EXCEPT ![c] = RightCode(challenges[c])]
      <4>1. clock < challenges[c].expiresAt
        BY <2>0, <3>1, <3>3 DEF PastDeadline, Challenge, Time
      <4> QED
        BY <2>0, <3>1, <3>3, <4>1, ChallengeWrites, RightCodeSound, TableSound
    <3>4. CASE challenges' = [challenges EXCEPT ![c] = WrongCode(challenges[c])]
      BY <2>0, <3>1, <3>4, ChallengeWrites, WrongCodeSound, TableSound
    <3> QED
      BY <2>4, <3>2, <3>3, <3>4 DEF Verify
  <2>5. ASSUME NEW context \in Contexts, NEW c \in ChallengeIds, NEW d \in Destinations,
               NEW p \in Purposes, Consume(context, c, d, p)
        PROVE  ChallengeInv'
    <3>1. /\ challenges[c] \in Challenge /\ ChallengeSound(challenges[c])
          /\ Exists(c) /\ UNCHANGED clock /\ challenges[c].status = "VERIFIED"
      BY <2>5 DEF Consume, InContext, Exists, TypeOK, ChallengeInv
    <3>2. CASE Expire(c)
      BY <2>2, <3>1, <3>2
    <3>3. CASE ~PastDeadline(c) /\ challenges' = [challenges EXCEPT ![c] = Consumed(challenges[c])]
      <4>1. clock < challenges[c].expiresAt
        BY <2>0, <3>1, <3>3 DEF PastDeadline, Challenge, Time
      <4> QED
        BY <2>0, <3>1, <3>3, <4>1, ChallengeWrites, ConsumedSound, TableSound
    <3> QED
      BY <2>5, <3>2, <3>3 DEF Consume
  <2>6. CASE Delivery \/ Tick \/ UNCHANGED vars
    <3>1. UNCHANGED challenges /\ clock' >= clock
      BY <2>0, <2>6 DEF Delivery, ProviderAccepts, Answer, RecordOutcome, Crash,
                        RecordProviderEvent, Tick, vars, sendVars
    <3> QED
      BY <3>1, QuietStepSound
  <2> QED
    BY <2>1, <2>3, <2>4, <2>5, <2>6 DEF Next, Operation
<1> QED
  BY <1>1, <1>2, TypeCorrect, PTL DEF Spec

\* A challenge locks with its last permitted wrong guess and never accepts
\* more, whatever resends happen in between.
THEOREM LockedAtLimitHolds == Spec => []LockedAtLimit
<1>1. ChallengeInv => LockedAtLimit
  BY DEF ChallengeInv, LockedAtLimit, ChallengeSound
<1> QED
  BY <1>1, ChallengeInvHolds, PTL

\* No code hash outlives its pending challenge: whatever ends a challenge (a lock,
\* the right code, its deadline) also takes the code away.
THEOREM CodeOnlyWhilePendingHolds == Spec => []CodeOnlyWhilePending
<1>1. ChallengeInv => CodeOnlyWhilePending
  BY DEF ChallengeInv, CodeOnlyWhilePending, ChallengeSound
<1> QED
  BY <1>1, ChallengeInvHolds, PTL

\* Evidence is established and consumed before the deadline of its challenge.
THEOREM EvidenceInTimeHolds == Spec => []EvidenceInTime
<1>1. TypeOK /\ ChallengeInv => EvidenceInTime
  <2> SUFFICES ASSUME TypeOK, ChallengeInv, NEW c \in ChallengeIds, Exists(c)
      PROVE  /\ challenges[c].status \in {"VERIFIED", "CONSUMED"} =>
                  challenges[c].verifiedAt \in 0 .. challenges[c].expiresAt - 1
             /\ challenges[c].status = "CONSUMED" =>
                  challenges[c].consumedAt \in
                    challenges[c].verifiedAt .. challenges[c].expiresAt - 1
    BY DEF EvidenceInTime
  <2>1. challenges[c] \in Challenge /\ ChallengeSound(challenges[c])
    BY DEF ChallengeInv, Exists, TypeOK
  <2> QED
    BY <2>1 DEF ChallengeSound, Challenge, Time
<1> QED
  BY <1>1, ChallengeInvHolds, TypeCorrect, PTL

-----------------------------------------------------------------------------
(* Every pending challenge is backed by its latest send.                   *)

Backs(s, c) ==
    /\ Requested(s)
    /\ sends[s].challenge = c
    /\ sends[s].tenant = challenges[c].context.tenant
    /\ sends[s].destination = challenges[c].destination
    /\ sends[s].at = challenges[c].lastSentAt
    /\ sends[s].nth = challenges[c].sendCount
    /\ sends[s].code = challenges[c].code

PendingBacked == \A c \in ChallengeIds : Pending(c) => \E s \in SendIds : Backs(s, c)

\* A request backs its challenge and disturbs no other.
LEMMA RequestBacks ==
    ASSUME TypeOK, PendingBacked, NEW s \in SendIds, NEW c \in ChallengeIds,
           NEW ch \in Challenge, NEW code \in Codes,
           ch.code = code, ch.lastSentAt = clock, Request(s, c, ch, code),
           challenges' = [challenges EXCEPT ![c] = ch]
    PROVE  PendingBacked'
<1> DEFINE send == [challenge |-> c, tenant |-> ch.context.tenant,
                    destination |-> ch.destination, code |-> code,
                    nth |-> ch.sendCount, at |-> clock]
<1>1. /\ sends' = [sends EXCEPT ![s] = send]
      /\ ~Requested(s)
      /\ send.challenge = c /\ send.tenant = ch.context.tenant /\ send.code = code
      /\ send.destination = ch.destination /\ send.nth = ch.sendCount /\ send.at = clock
  BY DEF Request
<1>2. send \in Send
  BY DEF Send, TypeOK, Challenge, Contexts, Time
<1> HIDE DEF send
<1>3. SUFFICES ASSUME NEW x \in ChallengeIds, Pending(x)'
               PROVE  \E r \in SendIds : Backs(r, x)'
  BY DEF PendingBacked
<1>4. CASE x = c
  <2>1. sends'[s] = send /\ challenges'[c] = ch
    BY <1>1 DEF TypeOK
  <2>2. send # NoSend
    BY <1>2, AbsenceAssumption
  <2>3. Backs(s, c)'
    BY <1>1, <2>1, <2>2 DEF Backs, Requested
  <2> QED
    BY <1>4, <2>3
<1>5. CASE x # c
  <2>1. challenges'[x] = challenges[x]
    BY <1>5 DEF TypeOK
  <2>2. PICK r \in SendIds : Backs(r, x)
    BY <2>1, <1>3 DEF PendingBacked, Pending, Exists
  <2>3. sends'[r] = sends[r]
    BY <1>1, <2>2 DEF Backs, TypeOK
  <2> QED
    BY <2>1, <2>2, <2>3 DEF Backs, Requested
<1> QED
  BY <1>4, <1>5

\* A step that sends nothing keeps what a pending challenge is backed by.
LEMMA QuietStepBacks ==
    ASSUME TypeOK, PendingBacked, UNCHANGED sends, NEW c \in ChallengeIds, NEW ch,
           challenges' = [challenges EXCEPT ![c] = ch],
           \/ ch.status # "PENDING"
           \/ /\ Pending(c)
              /\ ch.context = challenges[c].context
              /\ ch.destination = challenges[c].destination
              /\ ch.lastSentAt = challenges[c].lastSentAt
              /\ ch.sendCount = challenges[c].sendCount
              /\ ch.code = challenges[c].code
    PROVE  PendingBacked'
<1> SUFFICES ASSUME NEW x \in ChallengeIds, Pending(x)'
             PROVE  \E r \in SendIds : Backs(r, x)'
  BY DEF PendingBacked
<1>1. CASE x = c
  <2>1. challenges'[x] = ch
    BY <1>1 DEF TypeOK
  <2>2. PICK r \in SendIds : Backs(r, c)
    BY <1>1, <2>1 DEF PendingBacked, Pending
  <2> QED
    BY <1>1, <2>1, <2>2 DEF Backs, Requested, Pending
<1>2. CASE x # c
  <2>1. challenges'[x] = challenges[x]
    BY <1>2 DEF TypeOK
  <2>2. PICK r \in SendIds : Backs(r, x)
    BY <2>1 DEF PendingBacked, Pending, Exists
  <2> QED
    BY <2>1, <2>2 DEF Backs, Requested
<1> QED
  BY <1>1, <1>2

\* Every pending challenge has its latest send.
LEMMA PendingBackedHolds == Spec => []PendingBacked
<1>1. Init => PendingBacked
  BY DEF Init, PendingBacked, Pending, Exists
<1>2. TypeOK /\ PendingBacked /\ [Next]_vars => PendingBacked'
  <2> SUFFICES ASSUME TypeOK, PendingBacked, [Next]_vars PROVE PendingBacked'
    OBVIOUS
  <2>0. clock \in Nat
    BY DEF TypeOK, Time
  <2>1. ASSUME NEW context \in Contexts, NEW c \in ChallengeIds, NEW d \in Destinations,
               NEW p \in Purposes, NEW s \in SendIds, Start(context, d, p, c, s)
        PROVE  PendingBacked'
    <3>1. PICK code \in Codes :
            /\ challenges' = [challenges EXCEPT ![c] = Resent(New(context, d, p), code)]
            /\ Request(s, c, Resent(New(context, d, p), code), code)
      BY <2>1 DEF Start, FreshCodes
    <3>2. Resent(New(context, d, p), code) \in Challenge
      BY <2>0, NewIsChallenge, ResentTyped
    <3>3. /\ Resent(New(context, d, p), code).code = code
          /\ Resent(New(context, d, p), code).lastSentAt = clock
      BY DEF Resent, New
    <3> QED
      BY <3>1, <3>2, <3>3, RequestBacks
  <2>2. ASSUME NEW c \in ChallengeIds, Exists(c), UNCHANGED sends, Expire(c)
        PROVE  PendingBacked'
    <3>1. Expired(challenges[c]).status # "PENDING"
      BY <2>2 DEF Expired, Exists, TypeOK, Challenge
    <3> QED
      BY <2>2, <3>1, QuietStepBacks DEF Expire
  <2>3. ASSUME NEW context \in Contexts, NEW c \in ChallengeIds, NEW s \in SendIds,
               Resend(context, c, s)
        PROVE  PendingBacked'
    <3>1. challenges[c] \in Challenge /\ Exists(c)
      BY <2>3 DEF Resend, InContext, Exists, TypeOK
    <3>2. CASE Expire(c) /\ UNCHANGED sendVars
      BY <2>2, <3>1, <3>2 DEF sendVars
    <3>3. CASE ResendPending(c, s)
      <4>1. PICK code \in Codes :
              /\ challenges' = [challenges EXCEPT ![c] = Resent(challenges[c], code)]
              /\ Request(s, c, Resent(challenges[c], code), code)
        BY <3>3 DEF ResendPending, FreshCodes
      <4>2. Resent(challenges[c], code) \in Challenge
        BY <2>0, <3>1, ResentTyped
      <4>3. /\ Resent(challenges[c], code).code = code
            /\ Resent(challenges[c], code).lastSentAt = clock
        BY <3>1 DEF Resent, Challenge
      <4> QED
        BY <4>1, <4>2, <4>3, RequestBacks
    <3> QED
      BY <2>3, <3>2, <3>3 DEF Resend
  <2>4. ASSUME NEW context \in Contexts, NEW c \in ChallengeIds,
               NEW g \in Codes \cup {NoCode}, NEW p \in Purposes \cup {NoPurpose},
               Verify(context, c, g, p)
        PROVE  PendingBacked'
    <3>1. /\ challenges[c] \in Challenge /\ Exists(c) /\ Pending(c)
          /\ UNCHANGED sends
      BY <2>4 DEF Verify, InContext, Exists, TypeOK, sendVars, Pending
    <3>2. CASE Expire(c)
      BY <2>2, <3>1, <3>2
    <3>3. CASE challenges' = [challenges EXCEPT ![c] = RightCode(challenges[c])]
      <4>1. RightCode(challenges[c]).status # "PENDING"
        BY <3>1 DEF RightCode, Challenge
      <4> QED
        BY <3>1, <3>3, <4>1, QuietStepBacks
    <3>4. CASE challenges' = [challenges EXCEPT ![c] = WrongCode(challenges[c])]
      <4> DEFINE counted == [challenges[c] EXCEPT !.attemptCount = @ + 1]
      <4>1. /\ counted.context = challenges[c].context
            /\ counted.destination = challenges[c].destination
            /\ counted.lastSentAt = challenges[c].lastSentAt
            /\ counted.sendCount = challenges[c].sendCount
            /\ counted.code = challenges[c].code
            /\ counted \in Challenge
        BY <3>1 DEF Challenge
      <4> HIDE DEF counted
      <4>2. Locked(counted).status # "PENDING"
        BY <4>1 DEF Locked, Challenge
      <4>3. WrongCode(challenges[c]) \in {counted, Locked(counted)}
        BY DEF WrongCode, counted
      <4> QED
        BY <3>1, <3>4, <4>1, <4>2, <4>3, QuietStepBacks
    <3> QED
      BY <2>4, <3>2, <3>3, <3>4 DEF Verify
  <2>5. ASSUME NEW context \in Contexts, NEW c \in ChallengeIds, NEW d \in Destinations,
               NEW p \in Purposes, Consume(context, c, d, p)
        PROVE  PendingBacked'
    <3>1. challenges[c] \in Challenge /\ Exists(c) /\ UNCHANGED sends
      BY <2>5 DEF Consume, InContext, Exists, TypeOK, sendVars
    <3>2. CASE Expire(c)
      BY <2>2, <3>1, <3>2
    <3>3. CASE challenges' = [challenges EXCEPT ![c] = Consumed(challenges[c])]
      <4>1. Consumed(challenges[c]).status # "PENDING"
        BY <3>1 DEF Consumed, Challenge
      <4> QED
        BY <3>1, <3>3, <4>1, QuietStepBacks
    <3> QED
      BY <2>5, <3>2, <3>3 DEF Consume
  <2>6. CASE Delivery \/ Tick \/ UNCHANGED vars
    <3>1. UNCHANGED <<challenges, sends>>
      BY <2>6 DEF Delivery, ProviderAccepts, Answer, RecordOutcome, Crash,
                  RecordProviderEvent, Tick, vars, sendVars
    <3> QED
      BY <3>1 DEF PendingBacked, Pending, Exists, Backs, Requested
  <2> QED
    BY <2>1, <2>3, <2>4, <2>5, <2>6 DEF Next, Operation
<1> QED
  BY <1>1, <1>2, TypeCorrect, PTL DEF Spec

\* When codes live at most an hour, the challenges of a destination that
\* accept guesses at one moment are no more than its hourly send limit:
\* each has a send of its own in the current hour.
THEOREM LiveChallengeBudgetHolds ==
    ASSUME Expiration <= Hour PROVE Spec => []LiveChallengeBudget
<1>1. TypeOK /\ ChallengeInv /\ PendingBacked /\ SendBudget => LiveChallengeBudget
  <2> SUFFICES ASSUME TypeOK, ChallengeInv, PendingBacked, SendBudget,
                      NEW t \in Tenants, NEW d \in Destinations
               PROVE  Cardinality(LiveChallenges(t, d)) <= MaxSendsPerDestinationHour
    BY DEF LiveChallengeBudget
  <2> DEFINE L == LiveChallenges(t, d)
             R == RecentSends(t, d, Hour)
             f == [c \in L |-> CHOOSE s \in SendIds : Backs(s, c)]
  <2>1. ASSUME NEW c \in L PROVE f[c] \in SendIds /\ Backs(f[c], c)
    <3>1. \E s \in SendIds : Backs(s, c)
      BY DEF LiveChallenges, PendingBacked
    <3> QED
      BY <3>1
  <2> HIDE DEF f
  <2>2. ASSUME NEW c \in L PROVE f[c] \in R
    <3>1. /\ challenges[c] \in Challenge /\ ChallengeSound(challenges[c])
          /\ ~(challenges[c].expiresAt <= clock)
          /\ challenges[c].context.tenant = t /\ challenges[c].destination = d
      BY DEF LiveChallenges, Pending, Exists, ChallengeInv, TypeOK, PastDeadline
    <3>2. challenges[c].lastSentAt > clock - Hour
      BY <3>1 DEF ChallengeSound, Challenge, Time, TypeOK
    <3> QED
      BY <2>1, <3>1, <3>2 DEF RecentSends, Backs
  <2>3. f \in [L -> R]
    BY <2>2 DEF f
  <2>4. ASSUME NEW x \in L, NEW y \in L, f[x] = f[y] PROVE x = y
    BY <2>1, <2>4 DEF Backs
  <2>5. f \in Injection(L, R)
    BY <2>3, <2>4 DEF Injection, IsInjective
  <2>6. IsFiniteSet(R) /\ Cardinality(R) \in Nat
    BY RecentSendsFinite
  <2> HIDE DEF L, R
  <2>7. IsFiniteSet(L) /\ Cardinality(L) <= Cardinality(R)
    BY <2>5, <2>6, FS_Injection
  <2>8. Cardinality(L) \in Nat
    BY <2>7, FS_CardinalityType
  <2>9. Cardinality(R) <= MaxSendsPerDestinationHour
    BY DEF R, SendBudget
  <2>10. Cardinality(L) <= MaxSendsPerDestinationHour
    BY <2>6, <2>7, <2>8, <2>9
  <2> QED
    BY <2>10 DEF L
<1> QED
  BY <1>1, TypeCorrect, ChallengeInvHolds, PendingBackedHolds, SendBudgetHolds, PTL

-----------------------------------------------------------------------------
(* H2 implements one-time evidence with a deadline.                        *)

\* Stage and deadline of the abstract evidence, as functions of their own.
StageMap == [c \in ChallengeIds |->
               IF Exists(c) THEN StageOf[challenges[c].status] ELSE "NONE"]
DeadlineMap == [c \in ChallengeIds |-> IF Exists(c) THEN challenges[c].expiresAt ELSE 0]

\* What replacing one challenge does to the abstract evidence.
LEMMA MapStep ==
    ASSUME TypeOK, NEW c \in ChallengeIds, NEW ch \in Challenge,
           challenges' = [challenges EXCEPT ![c] = ch]
    PROVE  /\ StageMap' = [StageMap EXCEPT ![c] = StageOf[ch.status]]
           /\ DeadlineMap' = [DeadlineMap EXCEPT ![c] = ch.expiresAt]
<1>1. challenges'[c] = ch /\ \A x \in ChallengeIds \ {c} : challenges'[x] = challenges[x]
  BY DEF TypeOK
<1>2. ch # NoChallenge
  BY AbsenceAssumption
<1>3. StageMap' = [StageMap EXCEPT ![c] = StageOf[ch.status]]
  <2>1. StageMap'[c] = StageOf[ch.status]
    BY <1>1, <1>2 DEF StageMap, Exists
  <2>2. \A x \in ChallengeIds \ {c} : StageMap'[x] = StageMap[x]
    BY <1>1 DEF StageMap, Exists
  <2>3. /\ StageMap' = [x \in ChallengeIds |-> StageMap'[x]]
        /\ StageMap = [x \in ChallengeIds |-> StageMap[x]]
    BY DEF StageMap
  <2> QED
    BY <2>1, <2>2, <2>3
<1>4. DeadlineMap' = [DeadlineMap EXCEPT ![c] = ch.expiresAt]
  <2>1. DeadlineMap'[c] = ch.expiresAt
    BY <1>1, <1>2 DEF DeadlineMap, Exists
  <2>2. \A x \in ChallengeIds \ {c} : DeadlineMap'[x] = DeadlineMap[x]
    BY <1>1 DEF DeadlineMap, Exists
  <2>3. /\ DeadlineMap' = [x \in ChallengeIds |-> DeadlineMap'[x]]
        /\ DeadlineMap = [x \in ChallengeIds |-> DeadlineMap[x]]
    BY DEF DeadlineMap
  <2> QED
    BY <2>1, <2>2, <2>3
<1> QED
  BY <1>3, <1>4

\* The stages that the statuses stand for.
LEMMA StageOfValues ==
    /\ StageOf["PENDING"] = "OFFERED"
    /\ StageOf["VERIFIED"] = "PROVEN"
    /\ StageOf["CONSUMED"] = "SPENT"
    /\ StageOf["EXPIRED"] = "VOID"
    /\ StageOf["LOCKED"] = "VOID"
BY DEF StageOf

\* The mapping, at one challenge.
LEMMA MapAt ==
    ASSUME TypeOK, NEW c \in ChallengeIds, Exists(c)
    PROVE  /\ StageMap[c] = StageOf[challenges[c].status]
           /\ DeadlineMap[c] = challenges[c].expiresAt
           /\ DeadlineMap \in [ChallengeIds -> Nat]
           /\ challenges[c] \in Challenge
BY DEF StageMap, DeadlineMap, Exists, TypeOK, Challenge, Time

\* Expiry of pending or verified evidence discards it.
LEMMA ExpireDiscards ==
    ASSUME TypeOK, NEW c \in ChallengeIds, Exists(c), UNCHANGED clock,
           challenges[c].status \in {"PENDING", "VERIFIED"}, Expire(c)
    PROVE  Evidence!Discard(c)
<1>1. /\ StageMap[c] = StageOf[challenges[c].status]
      /\ DeadlineMap[c] = challenges[c].expiresAt
      /\ DeadlineMap \in [ChallengeIds -> Nat] /\ challenges[c] \in Challenge
  BY MapAt
<1>2. /\ Expired(challenges[c]) \in Challenge
      /\ Expired(challenges[c]).status = "EXPIRED"
      /\ Expired(challenges[c]).expiresAt = challenges[c].expiresAt
  BY <1>1 DEF Expired, Challenge, Statuses
<1>3. challenges' = [challenges EXCEPT ![c] = Expired(challenges[c])]
  BY DEF Expire
<1>4. /\ StageMap' = [StageMap EXCEPT ![c] = StageOf[Expired(challenges[c]).status]]
      /\ DeadlineMap' = [DeadlineMap EXCEPT ![c] = Expired(challenges[c]).expiresAt]
  BY <1>3, <1>2, MapStep
<1>5. /\ StageMap' = [StageMap EXCEPT ![c] = "VOID"]
      /\ DeadlineMap' = [DeadlineMap EXCEPT ![c] = challenges[c].expiresAt]
  BY StageOfValues, <1>2, <1>4
<1>6. DeadlineMap' = DeadlineMap
  BY <1>1, <1>5
<1>7. StageMap[c] \in {"OFFERED", "PROVEN"}
  BY StageOfValues, <1>1
<1> QED
  BY <1>5, <1>6, <1>7 DEF Evidence!Discard, Evidence!Move, StageMap, DeadlineMap

\* H2 implements VerificationEvidence: a challenge is proven and spent at
\* most once, before its deadline, which only a resend of a live pending
\* challenge moves, and a dead challenge stays dead.
THEOREM H2ImplementsEvidence == Spec => ImplementsEvidence
<1>1. Init => Evidence!Init
  BY DEF Init, Evidence!Init, Exists
<1>2. TypeOK /\ TypeOK' /\ ChallengeInv /\ [Next]_vars => [Evidence!Next]_(Evidence!vars)
  <2> SUFFICES ASSUME TypeOK, TypeOK', ChallengeInv, [Next]_vars
               PROVE  Evidence!Next \/ UNCHANGED Evidence!vars
    OBVIOUS
  <2>0. clock \in Nat /\ clock' \in Nat
    BY DEF TypeOK, Time
  <2>1. ASSUME NEW context \in Contexts, NEW c \in ChallengeIds, NEW d \in Destinations,
               NEW p \in Purposes, NEW s \in SendIds, Start(context, d, p, c, s)
        PROVE  Evidence!Offer(c)
    <3>1. PICK code \in Codes :
            challenges' = [challenges EXCEPT ![c] = Resent(New(context, d, p), code)]
      BY <2>1 DEF Start, FreshCodes
    <3> DEFINE r == Resent(New(context, d, p), code)
    <3>2. r \in Challenge
      BY <2>0, NewIsChallenge, ResentTyped
    <3>3. r.status = "PENDING" /\ r.expiresAt = clock + Expiration
      BY DEF Resent, New
    <3> HIDE DEF r
    <3>4. /\ StageMap' = [StageMap EXCEPT ![c] = "OFFERED"]
          /\ DeadlineMap' = [DeadlineMap EXCEPT ![c] = clock + Expiration]
      <4>1. challenges' = [challenges EXCEPT ![c] = r]
        BY <3>1, <3>2, <3>3 DEF r
      <4>2. /\ StageMap' = [StageMap EXCEPT ![c] = StageOf[r.status]]
          /\ DeadlineMap' = [DeadlineMap EXCEPT ![c] = r.expiresAt]
        BY <3>1, <3>2, <3>3, <4>1, MapStep
      <4> QED
        BY StageOfValues, <3>1, <3>2, <3>3, <4>2
    <3>5. StageMap[c] = "NONE" /\ UNCHANGED clock
      BY <2>1 DEF Start, StageMap
    <3>6. DeadlineMap'[c] = clock + Expiration /\ clock + Expiration \in Nat
          /\ clock + Expiration >= clock
      BY <2>0, <3>4 DEF DeadlineMap
    <3> QED
      BY <3>4, <3>5, <3>6 DEF Evidence!Offer, Evidence!Move, Evidence!Postpone,
                              StageMap, DeadlineMap
  <2>2. ASSUME NEW context \in Contexts, NEW c \in ChallengeIds, NEW s \in SendIds,
               Resend(context, c, s)
        PROVE  Evidence!Renew(c) \/ Evidence!Discard(c)
    <3>1. /\ Exists(c) /\ UNCHANGED clock /\ challenges[c].status = "PENDING"
          /\ ChallengeSound(challenges[c])
      BY <2>2 DEF Resend, InContext, ChallengeInv, Exists
    <3>2. CASE Expire(c)
      BY <3>1, <3>2, ExpireDiscards
    <3>3. CASE ~PastDeadline(c) /\ ResendPending(c, s)
      <4>1. PICK code \in Codes :
              challenges' = [challenges EXCEPT ![c] = Resent(challenges[c], code)]
        BY <3>3 DEF ResendPending, FreshCodes
      <4> DEFINE r == Resent(challenges[c], code)
      <4>2. /\ StageMap[c] = "OFFERED" /\ DeadlineMap[c] = challenges[c].expiresAt
            /\ DeadlineMap \in [ChallengeIds -> Nat] /\ challenges[c] \in Challenge
        BY StageOfValues, <3>1, MapAt
      <4>3. r \in Challenge
        BY <2>0, <4>2, ResentTyped
      <4>4. r.status = "PENDING" /\ r.expiresAt = clock + Expiration
        BY <3>1, <4>2 DEF Resent, Challenge
      <4> HIDE DEF r
      <4>5. /\ StageMap' = [StageMap EXCEPT ![c] = "OFFERED"]
            /\ DeadlineMap' = [DeadlineMap EXCEPT ![c] = clock + Expiration]
        <5>1. challenges' = [challenges EXCEPT ![c] = r]
          BY <4>1, <4>3, <4>4 DEF r
        <5>2. /\ StageMap' = [StageMap EXCEPT ![c] = StageOf[r.status]]
            /\ DeadlineMap' = [DeadlineMap EXCEPT ![c] = r.expiresAt]
          BY <4>1, <4>3, <4>4, <5>1, MapStep
        <5> QED
          BY StageOfValues, <4>1, <4>3, <4>4, <5>2
      <4>6. StageMap' = StageMap
        BY <4>2, <4>5 DEF StageMap
      <4>7. /\ clock < DeadlineMap[c]
            /\ DeadlineMap'[c] = clock + Expiration
            /\ clock + Expiration \in Nat
            /\ clock + Expiration >= DeadlineMap[c]
        <5>1. ~(challenges[c].expiresAt <= clock) /\ challenges[c].expiresAt \in Nat
          BY <3>3, <4>2 DEF PastDeadline, Challenge, Time
        <5>2. /\ challenges[c].lastSentAt \in Nat /\ challenges[c].lastSentAt <= clock
              /\ challenges[c].expiresAt = challenges[c].lastSentAt + Expiration
          BY <3>1, <4>2 DEF ChallengeSound, Challenge, Time
        <5> QED
          BY <2>0, <4>2, <4>5, <5>1, <5>2
      <4> QED
        BY <3>1, <4>2, <4>5, <4>6, <4>7 DEF Evidence!Renew, Evidence!Postpone,
                                             StageMap, DeadlineMap
    <3> QED
      BY <2>2, <3>2, <3>3 DEF Resend
  <2>3. ASSUME NEW context \in Contexts, NEW c \in ChallengeIds,
               NEW g \in Codes \cup {NoCode}, NEW p \in Purposes \cup {NoPurpose},
               Verify(context, c, g, p)
        PROVE  Evidence!Prove(c) \/ Evidence!Discard(c) \/ UNCHANGED Evidence!vars
    <3>1. /\ Exists(c) /\ UNCHANGED clock /\ challenges[c].status = "PENDING"
      BY <2>3 DEF Verify, InContext
    <3>2. /\ StageMap[c] = "OFFERED" /\ DeadlineMap[c] = challenges[c].expiresAt
          /\ DeadlineMap \in [ChallengeIds -> Nat] /\ challenges[c] \in Challenge
      BY StageOfValues, <3>1, MapAt
    <3>3. CASE Expire(c)
      BY <3>1, <3>3, ExpireDiscards
    <3>4. CASE ~PastDeadline(c) /\ challenges' = [challenges EXCEPT ![c] = RightCode(challenges[c])]
      <4> DEFINE r == RightCode(challenges[c])
      <4>1. /\ r \in Challenge /\ r.status = "VERIFIED"
            /\ r.expiresAt = challenges[c].expiresAt
        BY <2>0, <3>2, ChallengeWrites DEF RightCode, Challenge
      <4> HIDE DEF r
      <4>2. /\ StageMap' = [StageMap EXCEPT ![c] = "PROVEN"]
            /\ DeadlineMap' = [DeadlineMap EXCEPT ![c] = challenges[c].expiresAt]
        <5>1. challenges' = [challenges EXCEPT ![c] = r]
          BY <3>4, <4>1 DEF r
        <5>2. /\ StageMap' = [StageMap EXCEPT ![c] = StageOf[r.status]]
            /\ DeadlineMap' = [DeadlineMap EXCEPT ![c] = r.expiresAt]
          BY <3>4, <4>1, <5>1, MapStep
        <5> QED
          BY StageOfValues, <3>4, <4>1, <5>2
      <4>3. DeadlineMap' = DeadlineMap
        BY <3>2, <4>2
      <4>4. clock < DeadlineMap[c]
        BY <2>0, <3>2, <3>4 DEF PastDeadline, Challenge, Time
      <4> QED
        BY <3>1, <3>2, <4>2, <4>3, <4>4 DEF Evidence!Prove, Evidence!Move, StageMap, DeadlineMap
    <3>5. CASE challenges' = [challenges EXCEPT ![c] = WrongCode(challenges[c])]
      <4> DEFINE w == WrongCode(challenges[c])
      <4>1. w \in Challenge
        BY <2>0, <3>2, ChallengeWrites
      <4>2. w.status \in {"PENDING", "LOCKED"} /\ w.expiresAt = challenges[c].expiresAt
        <5> DEFINE counted == [challenges[c] EXCEPT !.attemptCount = @ + 1]
        <5>1. /\ counted \in Challenge /\ counted.status = "PENDING"
              /\ counted.expiresAt = challenges[c].expiresAt
          BY <3>1, <3>2 DEF Challenge
        <5> HIDE DEF counted
        <5>2. /\ Locked(counted).status = "LOCKED"
              /\ Locked(counted).expiresAt = challenges[c].expiresAt
          BY <5>1 DEF Locked, Challenge
        <5>3. w \in {counted, Locked(counted)}
          BY DEF WrongCode, counted
        <5> QED
          BY <5>1, <5>2, <5>3
      <4> HIDE DEF w
      <4>3. /\ StageMap' = [StageMap EXCEPT ![c] = StageOf[w.status]]
            /\ DeadlineMap' = [DeadlineMap EXCEPT ![c] = challenges[c].expiresAt]
        <5>1. challenges' = [challenges EXCEPT ![c] = w]
          BY <3>5 DEF w
        <5>2. /\ StageMap' = [StageMap EXCEPT ![c] = StageOf[w.status]]
              /\ DeadlineMap' = [DeadlineMap EXCEPT ![c] = w.expiresAt]
          BY <2>0, <4>1, <5>1, MapStep
        <5> QED
          BY <4>2, <5>2
      <4>4. DeadlineMap' = DeadlineMap
        BY <3>2, <4>3
      <4>5. CASE w.status = "PENDING"
        <5>1. StageMap' = StageMap
          <6>1. StageMap' = [StageMap EXCEPT ![c] = "OFFERED"]
            BY StageOfValues, <4>3, <4>5
          <6>2. StageMap = [x \in ChallengeIds |-> StageMap[x]]
            BY DEF StageMap
          <6> QED
            BY <3>2, <6>1, <6>2
        <5> QED
          BY <3>1, <4>4, <5>1 DEF Evidence!vars, StageMap, DeadlineMap
      <4>6. CASE w.status = "LOCKED"
        <5>1. StageMap' = [StageMap EXCEPT ![c] = "VOID"]
          BY StageOfValues, <4>3, <4>6
        <5> QED
          BY <3>1, <3>2, <4>4, <5>1 DEF Evidence!Discard, Evidence!Move, StageMap, DeadlineMap
      <4> QED
        BY <4>2, <4>5, <4>6
    <3> QED
      BY <2>3, <3>3, <3>4, <3>5 DEF Verify
  <2>4. ASSUME NEW context \in Contexts, NEW c \in ChallengeIds, NEW d \in Destinations,
               NEW p \in Purposes, Consume(context, c, d, p)
        PROVE  Evidence!Spend(c) \/ Evidence!Discard(c)
    <3>1. /\ Exists(c) /\ UNCHANGED clock /\ challenges[c].status = "VERIFIED"
      BY <2>4 DEF Consume, InContext
    <3>2. /\ StageMap[c] = "PROVEN" /\ DeadlineMap[c] = challenges[c].expiresAt
          /\ DeadlineMap \in [ChallengeIds -> Nat] /\ challenges[c] \in Challenge
      BY StageOfValues, <3>1, MapAt
    <3>3. CASE Expire(c)
      BY <3>1, <3>3, ExpireDiscards
    <3>4. CASE ~PastDeadline(c) /\ challenges' = [challenges EXCEPT ![c] = Consumed(challenges[c])]
      <4> DEFINE r == Consumed(challenges[c])
      <4>1. /\ r \in Challenge /\ r.status = "CONSUMED"
            /\ r.expiresAt = challenges[c].expiresAt
        BY <2>0, <3>2, ChallengeWrites DEF Consumed, Challenge
      <4> HIDE DEF r
      <4>2. /\ StageMap' = [StageMap EXCEPT ![c] = "SPENT"]
            /\ DeadlineMap' = [DeadlineMap EXCEPT ![c] = challenges[c].expiresAt]
        <5>1. challenges' = [challenges EXCEPT ![c] = r]
          BY <3>4, <4>1 DEF r
        <5>2. /\ StageMap' = [StageMap EXCEPT ![c] = StageOf[r.status]]
            /\ DeadlineMap' = [DeadlineMap EXCEPT ![c] = r.expiresAt]
          BY <3>4, <4>1, <5>1, MapStep
        <5> QED
          BY StageOfValues, <3>4, <4>1, <5>2
      <4>3. DeadlineMap' = DeadlineMap
        BY <3>2, <4>2
      <4>4. clock < DeadlineMap[c]
        BY <2>0, <3>2, <3>4 DEF PastDeadline, Challenge, Time
      <4> QED
        BY <3>1, <3>2, <4>2, <4>3, <4>4 DEF Evidence!Spend, Evidence!Move, StageMap, DeadlineMap
    <3> QED
      BY <2>4, <3>3, <3>4 DEF Consume
  <2>5. CASE Tick
    <3>1. clock' > clock /\ UNCHANGED challenges
      BY <2>0, <2>5 DEF Tick
    <3> QED
      BY <2>0, <3>1 DEF Evidence!Next, Evidence!Pass, Exists
  <2>6. CASE Delivery \/ UNCHANGED vars
    <3>1. UNCHANGED <<clock, challenges>>
      BY <2>6 DEF Delivery, ProviderAccepts, Answer, RecordOutcome, Crash,
                  RecordProviderEvent, vars
    <3> QED
      BY <3>1 DEF Evidence!vars, Exists
  <2> QED
    BY <2>1, <2>2, <2>3, <2>4, <2>5, <2>6 DEF Next, Operation, Evidence!Next
<1> QED
  BY <1>1, <1>2, TypeCorrect, ChallengeInvHolds, PTL DEF Spec, ImplementsEvidence, Evidence!Spec

-----------------------------------------------------------------------------
(* The log of sends.                                                       *)

\* A step that sends nothing keeps the counters of challenge c, and neither reopens it
\* nor gives it another code to accept.
Keeps(c, ch) ==
    /\ Exists(c)
    /\ ch.sendCount = challenges[c].sendCount /\ ch.lastSentAt = challenges[c].lastSentAt
    /\ ch.attemptCount >= challenges[c].attemptCount
    /\ ch.status = "PENDING" => Pending(c) /\ ch.code = challenges[c].code

\* A send of challenge c follows its last one by a cooldown, with another code.
Sends(c, ch, code) ==
    /\ ch.code = code /\ ch.lastSentAt = clock
    /\ Exists(c) => /\ Pending(c)
                    /\ ch.sendCount = challenges[c].sendCount + 1
                    /\ ch.attemptCount = challenges[c].attemptCount
                    /\ clock - challenges[c].lastSentAt >= Cooldown
                    /\ code # challenges[c].code
    /\ ~Exists(c) => ch.sendCount = 1

\* Every step changes one challenge at most, in one of these two ways.
LEMMA ChallengeSteps ==
    ASSUME TypeOK, [Next]_vars
    PROVE  \/ UNCHANGED <<challenges, sends>>
           \/ \E c \in ChallengeIds, ch \in Challenge :
                 /\ challenges' = [challenges EXCEPT ![c] = ch]
                 /\ Keeps(c, ch) /\ UNCHANGED sends
           \/ \E c \in ChallengeIds, s \in SendIds, code \in Codes, ch \in Challenge :
                 /\ challenges' = [challenges EXCEPT ![c] = ch]
                 /\ Sends(c, ch, code) /\ Request(s, c, ch, code)
<1> DEFINE Quiet == \E c \in ChallengeIds, ch \in Challenge :
                       /\ challenges' = [challenges EXCEPT ![c] = ch]
                       /\ Keeps(c, ch) /\ UNCHANGED sends
           Sent == \E c \in ChallengeIds, s \in SendIds, code \in Codes, ch \in Challenge :
                       /\ challenges' = [challenges EXCEPT ![c] = ch]
                       /\ Sends(c, ch, code) /\ Request(s, c, ch, code)
<1>0. clock \in Nat
  BY DEF TypeOK, Time
<1>1. ASSUME NEW context \in Contexts, NEW c \in ChallengeIds, NEW d \in Destinations,
             NEW p \in Purposes, NEW s \in SendIds, Start(context, d, p, c, s)
      PROVE  Sent
  <2>1. PICK code \in Codes :
          /\ challenges' = [challenges EXCEPT ![c] = Resent(New(context, d, p), code)]
          /\ Request(s, c, Resent(New(context, d, p), code), code)
    BY <1>1 DEF Start, FreshCodes
  <2>2. Resent(New(context, d, p), code) \in Challenge
    BY <1>0, NewIsChallenge, ResentTyped
  <2>3. /\ Resent(New(context, d, p), code).code = code
        /\ Resent(New(context, d, p), code).lastSentAt = clock
        /\ Resent(New(context, d, p), code).sendCount = 1
    BY DEF Resent, New
  <2>4. Sends(c, Resent(New(context, d, p), code), code)
    BY <1>1, <2>3 DEF Start, Sends
  <2> QED
    BY <2>1, <2>2, <2>4
<1>2. ASSUME NEW c \in ChallengeIds, Exists(c), UNCHANGED sends, Expire(c)
      PROVE  Quiet
  <2>1. Expired(challenges[c]) \in Challenge /\ challenges[c] \in Challenge
    BY <1>0, <1>2, ChallengeWrites DEF Exists, TypeOK
  <2>2. Keeps(c, Expired(challenges[c]))
    BY <1>2, <2>1 DEF Keeps, Expired, Challenge
  <2> QED
    BY <1>2, <2>1, <2>2 DEF Expire
<1>3. ASSUME NEW context \in Contexts, NEW c \in ChallengeIds, NEW s \in SendIds,
             Resend(context, c, s)
      PROVE  Quiet \/ Sent
  <2>1. challenges[c] \in Challenge /\ Exists(c) /\ Pending(c)
    BY <1>3 DEF Resend, InContext, Exists, Pending, TypeOK
  <2>2. CASE Expire(c) /\ UNCHANGED sendVars
    BY <1>2, <2>1, <2>2 DEF sendVars
  <2>3. CASE ResendPending(c, s)
    <3>1. PICK code \in FreshCodes(challenges[c]) :
            /\ challenges' = [challenges EXCEPT ![c] = Resent(challenges[c], code)]
            /\ Request(s, c, Resent(challenges[c], code), code)
      BY <2>3 DEF ResendPending
    <3>2. code \in Codes /\ code # challenges[c].code
      BY DEF FreshCodes
    <3>3. Resent(challenges[c], code) \in Challenge
      BY <1>0, <2>1, <3>2, ResentTyped
    <3>4. /\ Resent(challenges[c], code).code = code
          /\ Resent(challenges[c], code).lastSentAt = clock
          /\ Resent(challenges[c], code).sendCount = challenges[c].sendCount + 1
          /\ Resent(challenges[c], code).attemptCount = challenges[c].attemptCount
      BY <2>1 DEF Resent, Challenge
    <3>5. ~(clock - challenges[c].lastSentAt < Cooldown)
      BY <2>3 DEF ResendPending, ResendLimited
    <3>6. clock - challenges[c].lastSentAt >= Cooldown
      BY <1>0, <2>1, <3>5 DEF Challenge, Time
    <3> QED
      BY <2>1, <3>1, <3>2, <3>3, <3>4, <3>6 DEF Sends
  <2> QED
    BY <1>3, <2>2, <2>3 DEF Resend
<1>4. ASSUME NEW context \in Contexts, NEW c \in ChallengeIds,
             NEW g \in Codes \cup {NoCode}, NEW p \in Purposes \cup {NoPurpose},
             Verify(context, c, g, p)
      PROVE  Quiet
  <2>1. /\ challenges[c] \in Challenge /\ Exists(c) /\ Pending(c)
        /\ UNCHANGED sends
    BY <1>4 DEF Verify, InContext, Exists, TypeOK, sendVars, Pending
  <2>2. CASE Expire(c)
    BY <1>2, <2>1, <2>2
  <2>3. CASE challenges' = [challenges EXCEPT ![c] = RightCode(challenges[c])]
    <3>1. RightCode(challenges[c]) \in Challenge
      BY <1>0, <2>1, ChallengeWrites
    <3>2. Keeps(c, RightCode(challenges[c]))
      BY <2>1 DEF Keeps, RightCode, Challenge
    <3> QED
      BY <2>1, <2>3, <3>1, <3>2
  <2>4. CASE challenges' = [challenges EXCEPT ![c] = WrongCode(challenges[c])]
    <3> DEFINE counted == [challenges[c] EXCEPT !.attemptCount = @ + 1]
    <3>1. /\ counted \in Challenge
          /\ counted.lastSentAt = challenges[c].lastSentAt
          /\ counted.sendCount = challenges[c].sendCount
          /\ counted.attemptCount >= challenges[c].attemptCount
          /\ counted.code = challenges[c].code
      BY <2>1 DEF Challenge
    <3> HIDE DEF counted
    <3>2. /\ Locked(counted).lastSentAt = counted.lastSentAt
          /\ Locked(counted).sendCount = counted.sendCount
          /\ Locked(counted).attemptCount = counted.attemptCount
          /\ Locked(counted).status # "PENDING"
      BY <3>1 DEF Locked, Challenge
    <3>3. Keeps(c, counted) /\ Keeps(c, Locked(counted))
      BY <2>1, <3>1, <3>2 DEF Keeps
    <3>4. WrongCode(challenges[c]) \in {counted, Locked(counted)}
      BY DEF WrongCode, counted
    <3>5. WrongCode(challenges[c]) \in Challenge
      BY <1>0, <2>1, ChallengeWrites
    <3> QED
      BY <2>1, <2>4, <3>3, <3>4, <3>5
  <2> QED
    BY <1>4, <2>2, <2>3, <2>4 DEF Verify
<1>5. ASSUME NEW context \in Contexts, NEW c \in ChallengeIds, NEW d \in Destinations,
             NEW p \in Purposes, Consume(context, c, d, p)
      PROVE  Quiet
  <2>1. challenges[c] \in Challenge /\ Exists(c) /\ UNCHANGED sends
    BY <1>5 DEF Consume, InContext, Exists, TypeOK, sendVars
  <2>2. CASE Expire(c)
    BY <1>2, <2>1, <2>2
  <2>3. CASE challenges' = [challenges EXCEPT ![c] = Consumed(challenges[c])]
    <3>1. Consumed(challenges[c]) \in Challenge
      BY <1>0, <2>1, ChallengeWrites
    <3>2. Keeps(c, Consumed(challenges[c]))
      BY <2>1 DEF Keeps, Consumed, Challenge
    <3> QED
      BY <2>1, <2>3, <3>1, <3>2
  <2> QED
    BY <1>5, <2>2, <2>3 DEF Consume
<1>6. ASSUME Delivery \/ Tick \/ UNCHANGED vars
      PROVE  UNCHANGED <<challenges, sends>>
  BY <1>6 DEF Delivery, ProviderAccepts, Answer, RecordOutcome, Crash,
              RecordProviderEvent, Tick, vars, sendVars
<1> HIDE DEF Quiet, Sent
<1>7. Quiet \/ Sent \/ UNCHANGED <<challenges, sends>>
  BY <1>1, <1>3, <1>4, <1>5, <1>6 DEF Next, Operation
<1> QED
  BY <1>7 DEF Quiet, Sent

\* The log counts the sends of every challenge, and a send that counts as its latest one
\* is.
Logged ==
    /\ \A c \in ChallengeIds : Exists(c) => Cardinality(SendsOf(c)) = challenges[c].sendCount
    /\ \A s \in SendIds : Requested(s) =>
        LET ch == challenges[sends[s].challenge] IN
        /\ Exists(sends[s].challenge) /\ sends[s].nth <= ch.sendCount
        /\ sends[s].nth = ch.sendCount =>
             /\ sends[s].at = ch.lastSentAt
             /\ Pending(sends[s].challenge) => sends[s].code = ch.code

\* A step that sends nothing keeps the log.
LEMMA QuietStepLogged ==
    ASSUME TypeOK, Logged, UNCHANGED sends, NEW c \in ChallengeIds, NEW ch \in Challenge,
           challenges' = [challenges EXCEPT ![c] = ch], Keeps(c, ch)
    PROVE  Logged'
<1>1. /\ challenges'[c] = ch /\ ch # NoChallenge
      /\ \A x \in ChallengeIds : x # c => challenges'[x] = challenges[x]
  BY AbsenceAssumption DEF TypeOK
<1>2. \A x \in ChallengeIds : /\ Exists(x)' <=> Exists(x)
                              /\ challenges'[x].sendCount = challenges[x].sendCount
                              /\ challenges'[x].lastSentAt = challenges[x].lastSentAt
                              /\ Pending(x)' => Pending(x) /\ challenges'[x].code = challenges[x].code
  BY <1>1 DEF Keeps, Exists, Pending
<1>3. \A x \in ChallengeIds : SendsOf(x)' = SendsOf(x)
  BY DEF SendsOf, Requested
<1>4. \A s \in SendIds : Requested(s) => sends[s].challenge \in ChallengeIds
  BY DEF TypeOK, Requested, Send
<1>5. \A s \in SendIds : Requested(s)' <=> Requested(s)
  BY DEF Requested
<1> QED
  BY <1>2, <1>3, <1>4, <1>5 DEF Logged

\* A send is added to the log.
LEMMA RequestLogged ==
    ASSUME TypeOK, Logged, ResendsSpacedAndRotated, NEW s \in SendIds, NEW c \in ChallengeIds,
           NEW ch \in Challenge, NEW code \in Codes, Request(s, c, ch, code), Sends(c, ch, code),
           challenges' = [challenges EXCEPT ![c] = ch]
    PROVE  Logged' /\ ResendsSpacedAndRotated'
<1> DEFINE send == [challenge |-> c, tenant |-> ch.context.tenant,
                    destination |-> ch.destination, code |-> code,
                    nth |-> ch.sendCount, at |-> clock]
<1>1. /\ sends' = [sends EXCEPT ![s] = send]
      /\ ~Requested(s)
      /\ send.challenge = c /\ send.code = code /\ send.nth = ch.sendCount /\ send.at = clock
  BY DEF Request
<1>2. send \in Send
  BY DEF Send, TypeOK, Challenge, Contexts, Time
<1> HIDE DEF send
<1>3. /\ sends'[s] = send /\ Requested(s)'
      /\ \A r \in SendIds : r # s => sends'[r] = sends[r] /\ (Requested(r)' <=> Requested(r))
      /\ challenges'[c] = ch /\ Exists(c)'
      /\ \A x \in ChallengeIds : x # c => challenges'[x] = challenges[x] /\ (Exists(x)' <=> Exists(x))
  BY <1>1, <1>2, AbsenceAssumption DEF TypeOK, Requested, Exists
<1>4. \A r \in SendIds : Requested(r) => /\ sends[r].challenge \in ChallengeIds
                                         /\ sends[r].nth \in Nat /\ sends[r].at \in Nat
  BY DEF TypeOK, Requested, Send, Time
<1>5. ch.sendCount \in Nat /\ clock \in Nat
  BY DEF Challenge, TypeOK, Time
<1>6. Exists(c) => challenges[c].sendCount \in Nat /\ challenges[c].lastSentAt \in Nat
  BY DEF Exists, TypeOK, Challenge, Time
<1>7. \A r \in SendIds : Requested(r) /\ sends[r].challenge = c =>
         /\ Exists(c) /\ sends[r].nth < ch.sendCount
         /\ ch.sendCount = sends[r].nth + 1 =>
              sends[r].at = challenges[c].lastSentAt /\ sends[r].code = challenges[c].code
  BY <1>4, <1>5, <1>6 DEF Logged, Sends
<1>8. \A x \in ChallengeIds : Exists(x)' => Cardinality(SendsOf(x))' = challenges'[x].sendCount
  <2> SUFFICES ASSUME NEW x \in ChallengeIds, Exists(x)'
               PROVE  Cardinality(SendsOf(x)') = challenges'[x].sendCount
    OBVIOUS
  <2>1. IsFiniteSet(SendsOf(x)) /\ Cardinality(SendsOf(x)) \in Nat
    BY SendIdsAssumption, FS_Subset, FS_CardinalityType DEF SendsOf
  <2>2. CASE x # c
    <3>1. SendsOf(x)' = SendsOf(x)
      BY <1>1, <1>3, <2>2 DEF SendsOf
    <3> QED
      BY <1>3, <2>2, <3>1 DEF Logged
  <2>3. CASE x = c
    <3>1. SendsOf(c)' = SendsOf(c) \cup {s} /\ s \notin SendsOf(c)
      BY <1>1, <1>3 DEF SendsOf
    <3>2. Cardinality(SendsOf(c) \cup {s}) = Cardinality(SendsOf(c)) + 1
      BY <2>1, <2>3, <3>1, FS_AddElement
    <3>3. CASE Exists(c)
      BY <1>3, <2>3, <3>1, <3>2, <3>3 DEF Logged, Sends
    <3>4. CASE ~Exists(c)
      <4>1. SendsOf(c) = {}
        BY <3>4, <1>7 DEF SendsOf
      <4>2. Cardinality(SendsOf(c)) = 0
        BY <4>1, FS_EmptySet
      <4> QED
        BY <1>3, <2>3, <3>1, <3>2, <3>4, <4>2 DEF Sends
    <3> QED
      BY <3>3, <3>4
  <2> QED
    BY <2>2, <2>3
<1>9. ASSUME NEW r \in SendIds, Requested(r)'
      PROVE  LET at == challenges'[sends'[r].challenge] IN
             /\ Exists(sends[r].challenge)' /\ sends'[r].nth <= at.sendCount
             /\ sends'[r].nth = at.sendCount =>
                  /\ sends'[r].at = at.lastSentAt
                  /\ Pending(sends[r].challenge)' => sends'[r].code = at.code
  <2>1. CASE r = s
    BY <1>1, <1>3, <1>5, <2>1 DEF Sends
  <2>2. CASE r # s /\ sends[r].challenge = c
    BY <1>3, <1>4, <1>5, <1>7, <1>9, <2>2
  <2>3. CASE r # s /\ sends[r].challenge # c
    BY <1>3, <1>4, <1>9, <2>3 DEF Logged, Pending
  <2> QED
    BY <2>1, <2>2, <2>3
<1>10. Logged'
  BY <1>8, <1>9 DEF Logged
<1>11. ResendsSpacedAndRotated'
  <2> SUFFICES ASSUME NEW q \in SendIds, NEW r \in SendIds, Consecutive(q, r)'
               PROVE  /\ sends'[r].at - sends'[q].at >= Cooldown
                      /\ sends'[r].code # sends'[q].code
    BY DEF ResendsSpacedAndRotated
  <2>1. /\ Requested(q)' /\ Requested(r)' /\ sends'[q].challenge = sends'[r].challenge
        /\ sends'[r].nth = sends'[q].nth + 1
    BY DEF Consecutive
  <2>2. CASE q # s /\ r # s
    BY <1>3, <2>1, <2>2 DEF ResendsSpacedAndRotated, Consecutive
  <2>3. CASE q # s /\ r = s
    <3>1. /\ Requested(q) /\ sends[q].challenge = c /\ ch.sendCount = sends[q].nth + 1
          /\ sends'[q] = sends[q]
      BY <1>1, <1>3, <2>1, <2>3
    <3>2. Exists(c) /\ sends[q].at = challenges[c].lastSentAt /\ sends[q].code = challenges[c].code
      BY <1>7, <3>1
    <3> QED
      BY <1>1, <1>3, <2>3, <3>1, <3>2 DEF Sends
  <2>4. CASE q = s /\ r # s
    <3>1. Requested(r) /\ sends[r].challenge = c /\ sends[r].nth = ch.sendCount + 1
      BY <1>1, <1>3, <2>1, <2>4
    <3> QED
      BY <1>4, <1>5, <1>7, <3>1
  <2>5. CASE q = s /\ r = s
    BY <1>1, <1>3, <1>5, <2>1, <2>5
  <2> QED
    BY <2>2, <2>3, <2>4, <2>5
<1> QED
  BY <1>10, <1>11

\* Sends are logged one by one, each later than the cooldown and with a code of its own.
LEMMA LogHolds == Spec => [](Logged /\ ResendsSpacedAndRotated)
<1>1. Init => Logged /\ ResendsSpacedAndRotated
  BY DEF Init, Logged, ResendsSpacedAndRotated, Consecutive, Exists, Requested
<1>2. TypeOK /\ Logged /\ ResendsSpacedAndRotated /\ [Next]_vars
        => Logged' /\ ResendsSpacedAndRotated'
  <2> SUFFICES ASSUME TypeOK, Logged, ResendsSpacedAndRotated, [Next]_vars
               PROVE  Logged' /\ ResendsSpacedAndRotated'
    OBVIOUS
  <2>1. CASE UNCHANGED <<challenges, sends>>
    BY <2>1 DEF Logged, ResendsSpacedAndRotated, Consecutive, Exists, Requested, Pending, SendsOf
  <2>2. ASSUME NEW c \in ChallengeIds, NEW ch \in Challenge,
               challenges' = [challenges EXCEPT ![c] = ch], Keeps(c, ch), UNCHANGED sends
        PROVE  Logged' /\ ResendsSpacedAndRotated'
    <3>1. Logged'
      BY <2>2, QuietStepLogged
    <3>2. ResendsSpacedAndRotated'
      BY <2>2 DEF ResendsSpacedAndRotated, Consecutive, Requested
    <3> QED
      BY <3>1, <3>2
  <2>3. ASSUME NEW c \in ChallengeIds, NEW s \in SendIds, NEW code \in Codes, NEW ch \in Challenge,
               challenges' = [challenges EXCEPT ![c] = ch], Sends(c, ch, code),
               Request(s, c, ch, code)
        PROVE  Logged' /\ ResendsSpacedAndRotated'
    BY <2>3, RequestLogged
  <2> QED
    BY <2>1, <2>2, <2>3, ChallengeSteps
<1> QED
  BY <1>1, <1>2, TypeCorrect, PTL DEF Spec

\* Whatever resends, guesses and deadlines come between, the log agrees with the
\* counters, mails of a challenge are a cooldown apart with different codes, and wrong
\* guesses are never forgiven.
THEOREM ResendsSoundHolds == Spec => ResendsSound
<1>1. Logged /\ PendingBacked => SendLogAgrees
  BY DEF Logged, PendingBacked, Backs, SendLogAgrees, SendsOf
<1>2. TypeOK /\ [Next]_vars =>
        [\A c \in ChallengeIds : Exists(c) =>
            challenges'[c].attemptCount >= challenges[c].attemptCount]_vars
  <2> SUFFICES ASSUME TypeOK, [Next]_vars, NEW x \in ChallengeIds, Exists(x)
               PROVE  challenges'[x].attemptCount >= challenges[x].attemptCount
    OBVIOUS
  <2>1. challenges[x].attemptCount \in Nat
    BY DEF TypeOK, Exists, Challenge
  <2>2. ASSUME NEW c \in ChallengeIds, NEW ch,
               challenges' = [challenges EXCEPT ![c] = ch],
               Exists(c) => ch.attemptCount >= challenges[c].attemptCount
        PROVE  challenges'[x].attemptCount >= challenges[x].attemptCount
    BY <2>1, <2>2 DEF TypeOK
  <2>3. ASSUME NEW c \in ChallengeIds, NEW code, NEW ch, Sends(c, ch, code), Exists(c)
        PROVE  ch.attemptCount >= challenges[c].attemptCount
    BY <2>3 DEF Sends, TypeOK, Exists, Challenge
  <2> QED
    BY <2>1, <2>2, <2>3, ChallengeSteps DEF Keeps
<1> QED
  BY <1>1, <1>2, LogHolds, PendingBackedHolds, TypeCorrect, PTL
     DEF Spec, ResendsSound, AttemptsNeverForgiven

-----------------------------------------------------------------------------
(* The states of a delivery.                                               *)

\* Until the caller is done nothing but the request is recorded, and what is more than a
\* request and its failure came after the acceptance.
Delivered(s) ==
    /\ caller[s] # "DONE" => delivery[s] \subseteq {"SEND_REQUESTED"}
    /\ caller[s] = "PROVIDER_ACCEPTED" => s \in mailed
    /\ KnownDelivery(s) => s \in mailed /\ "PROVIDER_TIMEOUT" \notin delivery[s]
    /\ KnownDelivery(s) \/ delivery[s] \subseteq {"SEND_REQUESTED"} \cup Failures

\* A new request starts its delivery over.
LEMMA RequestDelivered ==
    ASSUME TypeOK, NEW s \in SendIds, Delivered(s), NEW t \in SendIds, NEW c, NEW ch, NEW code,
           Request(t, c, ch, code)
    PROVE  Delivered(s)'
<1>1. CASE s = t
  <2>1. delivery'[s] = {"SEND_REQUESTED"} /\ caller'[s] = "CALLING"
    BY <1>1 DEF Request, TypeOK
  <2> QED
    BY <2>1 DEF Delivered, KnownDelivery
<1>2. CASE s # t
  <2>1. delivery'[s] = delivery[s] /\ caller'[s] = caller[s] /\ mailed' = mailed
    BY <1>2 DEF Request, TypeOK
  <2> QED
    BY <2>1 DEF Delivered, KnownDelivery
<1> QED
  BY <1>1, <1>2

\* The provider's answer, its record and the events that follow keep the order.
LEMMA DeliverySteps ==
    ASSUME TypeOK, NEW s \in SendIds, Delivered(s), Delivery
    PROVE  Delivered(s)'
<1>1. PICK t \in SendIds :
        \/ ProviderAccepts(t) \/ RecordOutcome(t) \/ Crash(t)
        \/ \E outcome \in Outcomes : Answer(t, outcome)
        \/ \E state \in WebhookStates : RecordProviderEvent(t, state)
  BY DEF Delivery
<1>2. CASE ProviderAccepts(t)
  BY <1>2 DEF ProviderAccepts, Delivered, KnownDelivery
<1>3. CASE RecordOutcome(t)
  <2>1. caller[t] \in Outcomes /\ mailed' = mailed
    BY <1>3 DEF RecordOutcome
  <2>2. CASE s = t
    <3>1. /\ delivery'[s] = delivery[s] \cup {caller[s]} /\ caller'[s] = "DONE"
          /\ delivery[s] \subseteq {"SEND_REQUESTED"}
      BY <1>3, <2>1, <2>2 DEF RecordOutcome, TypeOK, Delivered, Outcomes, Failures
    <3> QED
      BY <2>1, <2>2, <3>1 DEF Delivered, KnownDelivery, Outcomes, Failures
  <2>3. CASE s # t
    <3>1. delivery'[s] = delivery[s] /\ caller'[s] = caller[s]
      BY <1>3, <2>3 DEF RecordOutcome, TypeOK
    <3> QED
      BY <2>1, <3>1 DEF Delivered, KnownDelivery
  <2> QED
    BY <2>2, <2>3
<1>4. CASE Crash(t)
  <2>1. /\ delivery' = delivery /\ mailed' = mailed
        /\ s # t => caller'[s] = caller[s]
        /\ s = t => caller'[s] = "CRASHED" /\ caller[s] # "DONE"
    BY <1>4 DEF Crash, TypeOK, Outcomes, Failures
  <2> QED
    BY <2>1 DEF Delivered, KnownDelivery
<1>5. ASSUME NEW outcome \in Outcomes, Answer(t, outcome)
      PROVE  Delivered(s)'
  <2>1. /\ delivery' = delivery /\ mailed' = mailed
        /\ s # t => caller'[s] = caller[s]
        /\ s = t => /\ caller'[s] = outcome /\ caller[s] = "CALLING"
                    /\ outcome = "PROVIDER_ACCEPTED" => s \in mailed
    BY <1>5 DEF Answer, TypeOK
  <2> QED
    BY <2>1 DEF Delivered, KnownDelivery
<1>6. ASSUME NEW state \in WebhookStates, RecordProviderEvent(t, state)
      PROVE  Delivered(s)'
  <2>1. /\ caller' = caller /\ mailed' = mailed
        /\ s # t => delivery'[s] = delivery[s]
        /\ s = t => delivery'[s] = delivery[s] \cup {state} /\ KnownDelivery(s)
    BY <1>6 DEF RecordProviderEvent, TypeOK
  <2>2. state # "PROVIDER_TIMEOUT"
    BY WebhookStatesAssumption
  <2> QED
    BY <2>1, <2>2 DEF Delivered, KnownDelivery
<1> QED
  BY <1>1, <1>2, <1>3, <1>4, <1>5, <1>6

\* What the provider reports is recorded after the acceptance it belongs to, of mail
\* that was accepted, however late its answer and whoever crashes.
THEOREM ReportsFollowAcceptanceHolds == Spec => []ReportsFollowAcceptance
<1> DEFINE Inv == \A s \in SendIds : Delivered(s)
<1>1. Init => Inv
  BY DEF Init, Delivered, KnownDelivery
<1>2. TypeOK /\ Inv /\ [Next]_vars => Inv'
  <2> SUFFICES ASSUME TypeOK, [Next]_vars, NEW s \in SendIds, Delivered(s)
               PROVE  Delivered(s)'
    OBVIOUS
  <2>1. ASSUME UNCHANGED <<delivery, caller, mailed>>
        PROVE  Delivered(s)'
    BY <2>1 DEF Delivered, KnownDelivery
  <2>2. ASSUME NEW t \in SendIds, NEW c, NEW ch, NEW code, Request(t, c, ch, code)
        PROVE  Delivered(s)'
    BY <2>2, RequestDelivered
  <2>3. CASE Delivery
    BY <2>3, DeliverySteps
  <2>4. CASE Operation
    <3>1. PICK context \in Contexts, c \in ChallengeIds :
            \/ \E d \in Destinations, p \in Purposes, t \in SendIds : Start(context, d, p, c, t)
            \/ \E t \in SendIds : Resend(context, c, t)
            \/ \E g \in Codes \cup {NoCode}, p \in Purposes \cup {NoPurpose} :
                 Verify(context, c, g, p)
            \/ \E d \in Destinations, p \in Purposes : Consume(context, c, d, p)
      BY <2>4 DEF Operation
    <3>2. ASSUME NEW d \in Destinations, NEW p \in Purposes, NEW t \in SendIds,
                 Start(context, d, p, c, t)
          PROVE  Delivered(s)'
      BY <2>2, <3>2 DEF Start
    <3>3. ASSUME NEW t \in SendIds, Resend(context, c, t)
          PROVE  Delivered(s)'
      BY <2>1, <2>2, <3>3 DEF Resend, ResendPending, sendVars
    <3>4. ASSUME NEW g, NEW p, Verify(context, c, g, p)
          PROVE  Delivered(s)'
      BY <2>1, <3>4 DEF Verify, sendVars
    <3>5. ASSUME NEW d, NEW p, Consume(context, c, d, p)
          PROVE  Delivered(s)'
      BY <2>1, <3>5 DEF Consume, sendVars
    <3> QED
      BY <3>1, <3>2, <3>3, <3>4, <3>5
  <2>5. CASE Tick \/ UNCHANGED vars
    BY <2>1, <2>5 DEF Tick, vars, sendVars
  <2> QED
    BY <2>3, <2>4, <2>5 DEF Next
<1>3. Inv => ReportsFollowAcceptance
  BY WebhookStatesAssumption DEF Delivered, ReportsFollowAcceptance, Failures, KnownDelivery
<1> QED
  BY <1>1, <1>2, <1>3, TypeCorrect, PTL DEF Spec
=============================================================================
