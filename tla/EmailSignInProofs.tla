-------------------------- MODULE EmailSignInProofs --------------------------
(***************************************************************************)
(* Theorems about EmailSignIn, for any clients, applications, addresses,   *)
(* challenges, subjects and requests and any lifetimes.                    *)
(*                                                                         *)
(* First what one step writes, variable by variable (the ...Move           *)
(* definitions), then which facts about two variables those moves keep.    *)
(***************************************************************************)
EXTENDS EmailSignIn, SequenceTheorems, TLAPS

Statuses == {"PENDING", "VERIFIED", "EXPIRED", "LOCKED", "CONSUMED"}

Ended == {"DONE", "DENIED", "CRASHED"}

-----------------------------------------------------------------------------
(* How one step writes.                                                    *)

\* Changing the stage of a request changes nothing else of it, and no other.
LEMMA GotoWrites ==
    ASSUME TypeOK, NEW r \in RequestIds, NEW stage \in Stages, Goto(r, stage)
    PROVE  /\ requests' \in [RequestIds -> Request]
           /\ requests'[r].stage = stage
           /\ requests'[r].challenge = requests[r].challenge
           /\ requests'[r].client = requests[r].client
           /\ requests'[r].interactive = requests[r].interactive
           /\ \A q \in RequestIds \ {r} : requests'[q] = requests[q]
<1>1. requests \in [RequestIds -> Request]
  BY DEF TypeOK
<1>2. requests' = [requests EXCEPT ![r].stage = stage]
  BY DEF Goto
<1>3. [requests[r] EXCEPT !.stage = stage] \in Request
  BY <1>1 DEF Request
<1> QED
  BY <1>1, <1>2, <1>3 DEF Request

\* Changing the status of a challenge changes nothing else of it, and no other.
LEMMA SetStatusWrites ==
    ASSUME TypeOK, NEW c \in ChallengeIds, NEW status \in Statuses, Issued(c),
           SetStatus(c, status)
    PROVE  /\ challenges' \in [ChallengeIds -> Challenge \cup {NoChallenge}]
           /\ challenges'[c] # NoChallenge
           /\ challenges'[c].status = status
           /\ challenges'[c].mode = challenges[c].mode
           /\ challenges'[c].email = challenges[c].email
           /\ challenges'[c].expiresAt = challenges[c].expiresAt
           /\ \A d \in ChallengeIds \ {c} : challenges'[d] = challenges[d]
<1>1. challenges[c] \in Challenge
  BY DEF TypeOK, Issued
<1>2. challenges' = [challenges EXCEPT ![c].status = status]
  BY DEF SetStatus
<1>3. [challenges[c] EXCEPT !.status = status] \in Challenge
  BY <1>1 DEF Challenge, Statuses
<1>4. challenges'[c] = [challenges[c] EXCEPT !.status = status]
  BY <1>2 DEF TypeOK
<1>5. \A d \in ChallengeIds \ {c} : challenges'[d] = challenges[d]
  BY <1>2 DEF TypeOK
<1>6. challenges' \in [ChallengeIds -> Challenge \cup {NoChallenge}]
  BY <1>2, <1>3 DEF TypeOK
<1>7. challenges'[c] # NoChallenge
  BY <1>3, <1>4, AbsenceAssumption
<1>8. /\ challenges'[c].status = status
      /\ challenges'[c].mode = challenges[c].mode
      /\ challenges'[c].email = challenges[c].email
      /\ challenges'[c].expiresAt = challenges[c].expiresAt
  BY <1>1, <1>4 DEF Challenge
<1> QED
  BY <1>5, <1>6, <1>7, <1>8

\* A principal is added at the end of those of its challenge.
LEMMA SignInWrites ==
    ASSUME TypeOK, NEW c \in ChallengeIds, NEW client \in Clients, NEW s \in SubjectIds,
           SignIn(c, client, s)
    PROVE  /\ principals' \in [ChallengeIds -> Seq(Principal)]
           /\ principals'[c] = Append(principals[c],
                [subject |-> s, client |-> client, at |-> clock])
           /\ \A d \in ChallengeIds \ {c} : principals'[d] = principals[d]
<1> DEFINE p == [subject |-> s, client |-> client, at |-> clock]
<1>1. p \in Principal
  BY DEF Principal, TypeOK
<1>2. principals' = [principals EXCEPT ![c] = Append(principals[c], p)]
  BY DEF SignIn
<1> HIDE DEF p
<1>3. Append(principals[c], p) \in Seq(Principal)
  BY <1>1 DEF TypeOK
<1>4. /\ principals' \in [ChallengeIds -> Seq(Principal)]
      /\ principals'[c] = Append(principals[c], p)
      /\ \A d \in ChallengeIds \ {c} : principals'[d] = principals[d]
  BY <1>2, <1>3 DEF TypeOK
<1> QED
  BY <1>4 DEF p

-----------------------------------------------------------------------------
(* Types.                                                                  *)

\* The challenge and the client of a request that has begun exist, and so does
\* the subject of one that has registered.
Begun ==
    \A r \in RequestIds : requests[r].stage # "IDLE" =>
      /\ requests[r].client \in Clients
      /\ requests[r].challenge \in ChallengeIds
      /\ Issued(requests[r].challenge)
      /\ requests[r].stage = "REGISTERED" => evidence[requests[r].challenge] # NoSubject

\* A step of a request that is being served.
LEMMA HandlerTyped ==
    ASSUME TypeOK, Begun, NEW r \in RequestIds, Handler(r)
    PROVE  TypeOK'
<1> DEFINE c == requests[r].challenge
           client == requests[r].client
<1>0. /\ c \in ChallengeIds /\ Issued(c) /\ client \in Clients
      /\ clock \in Nat
  BY DEF Handler, BurnProof, Establish, CallComplete, CheckRegistration,
         CommitRegistration, FinishRegistration, Begun, TypeOK
<1> HIDE DEF c, client
<1>1. CASE BurnProof(r)
  <2>1. requests' \in [RequestIds -> Request]
    BY <1>1, GotoWrites DEF BurnProof, Stages
  <2>2. challenges' \in [ChallengeIds -> Challenge \cup {NoChallenge}]
    <3>1. CASE challenges' = challenges
      BY <3>1 DEF TypeOK
    <3>2. CASE \E status \in {"EXPIRED", "CONSUMED"} : SetStatus(c, status)
      BY <1>0, <3>2, SetStatusWrites DEF Statuses
    <3> QED
      BY <1>1, <3>1, <3>2 DEF BurnProof, c
  <2> QED
    BY <1>1, <2>1, <2>2 DEF BurnProof, TypeOK
<1>2. CASE Establish(r)
  <2>1. requests' \in [RequestIds -> Request]
    BY <1>2, GotoWrites DEF Establish, Stages
  <2>2. challenges' \in [ChallengeIds -> Challenge \cup {NoChallenge}]
    <3>1. CASE challenges' = challenges
      BY <3>1 DEF TypeOK
    <3>2. CASE SetStatus(c, "CONSUMED")
      BY <1>0, <3>2, SetStatusWrites DEF Statuses
    <3> QED
      BY <1>2, <3>1, <3>2 DEF Establish, c
  <2>3. results' \in [ChallengeIds -> Result \cup {NoResult}]
    <3>1. CASE results' = results
      BY <3>1 DEF TypeOK
    <3>2. CASE \E s \in SubjectIds : results' = [results EXCEPT ![c] = NewResult(s, client)]
      <4>1. PICK s \in SubjectIds : results' = [results EXCEPT ![c] = NewResult(s, client)]
        BY <3>2
      <4>2. NewResult(s, client) \in Result
        BY <1>0, TimesAssumption DEF NewResult, Result
      <4> QED
        BY <4>1, <4>2 DEF TypeOK
    <3> QED
      BY <1>2, <3>1, <3>2 DEF Establish, c, client
  <2> QED
    BY <1>2, <2>1, <2>2, <2>3 DEF Establish, TypeOK
<1>3. CASE CallComplete(r)
  BY <1>3, GotoWrites DEF CallComplete, Stages, TypeOK
<1>4. CASE CheckRegistration(r)
  <2>1. PICK stage \in {"CHECKED", "DONE", "DENIED"} : Goto(r, stage)
    BY <1>4 DEF CheckRegistration, RefusedStage
  <2> QED
    BY <1>4, <2>1, GotoWrites DEF CheckRegistration, Stages, TypeOK
<1>5. CASE CommitRegistration(r)
  <2>1. PICK stage \in {"REGISTERED", "DONE"} : Goto(r, stage)
    BY <1>5 DEF CommitRegistration
  <2>2. requests' \in [RequestIds -> Request]
    BY <2>1, GotoWrites DEF Stages
  <2>3. challenges' \in [ChallengeIds -> Challenge \cup {NoChallenge}]
    BY <1>0, <1>5, SetStatusWrites DEF CommitRegistration, Statuses, c
  <2>4. PICK s \in SubjectIds :
          /\ subjects' = [subjects EXCEPT ![s] =
               IF Known(s) THEN @ ELSE NewSubject(client, challenges[c].email)]
          /\ evidence' = [evidence EXCEPT ![c] = IF @ = NoSubject THEN s ELSE @]
    BY <1>5 DEF CommitRegistration, c, client
  <2>5. NewSubject(client, challenges[c].email) \in Subject
    BY <1>0, ClientsAssumption DEF NewSubject, Subject, TypeOK, Challenge, Issued
  <2>6. subjects' \in [SubjectIds -> Subject \cup {NoSubject}]
    BY <2>4, <2>5 DEF TypeOK
  <2>7. evidence' \in [ChallengeIds -> SubjectIds \cup {NoSubject}]
    BY <2>4 DEF TypeOK
  <2> QED
    BY <1>5, <2>2, <2>3, <2>6, <2>7 DEF CommitRegistration, TypeOK
<1>6. CASE FinishRegistration(r)
  <2>1. requests' \in [RequestIds -> Request]
    BY <1>6, GotoWrites DEF FinishRegistration, Stages
  <2>2. principals' \in [ChallengeIds -> Seq(Principal)]
    <3>1. CASE principals' = principals
      BY <3>1 DEF TypeOK
    <3>2. CASE Eligible(evidence[c], challenges[c].email) /\ SignIn(c, client, evidence[c])
      <4>1. evidence[c] \in SubjectIds
        BY <1>0, <1>6, <3>2 DEF TypeOK, Begun, FinishRegistration, c
      <4> QED
        BY <1>0, <3>2, <4>1, SignInWrites
    <3> QED
      BY <1>6, <3>1, <3>2 DEF FinishRegistration, c, client
  <2> QED
    BY <1>6, <2>1, <2>2 DEF FinishRegistration, TypeOK
<1> QED
  BY <1>1, <1>2, <1>3, <1>4, <1>5, <1>6 DEF Handler

\* A step that begins something.
LEMMA ArrivalTyped ==
    ASSUME TypeOK, Arrival
    PROVE  TypeOK'
<1>0. clock \in Nat /\ clock + Expiration \in Nat
  BY TimesAssumption DEF TypeOK
<1>1. ASSUME NEW c \in ChallengeIds, Resend(c)
      PROVE  TypeOK'
  <2>1. challenges[c] \in Challenge
    BY <1>1 DEF Resend, Issued, TypeOK
  <2>2. [challenges[c] EXCEPT !.expiresAt = clock + Expiration] \in Challenge
    BY <1>0, <2>1 DEF Challenge
  <2>3. challenges' = [challenges EXCEPT ![c].expiresAt = clock + Expiration]
    BY <1>1 DEF Resend
  <2>4. challenges' \in [ChallengeIds -> Challenge \cup {NoChallenge}]
    BY <2>2, <2>3 DEF TypeOK
  <2> QED
    BY <1>1, <2>4 DEF Resend, TypeOK
<1>2. ASSUME NEW c \in ChallengeIds, Abandon(c)
      PROVE  TypeOK'
  <2>1. challenges' \in [ChallengeIds -> Challenge \cup {NoChallenge}]
    BY <1>2, SetStatusWrites DEF Abandon, Statuses
  <2> QED
    BY <1>2, <2>1 DEF Abandon, TypeOK
<1>3. ASSUME NEW c \in ChallengeIds, NEW client \in Clients, NEW email \in Emails,
             NEW mode \in Modes, Start(client, email, mode, c)
      PROVE  TypeOK'
  <2> DEFINE new == [application |-> ApplicationOf[client], email |-> email, mode |-> mode,
                     status |-> "PENDING", expiresAt |-> clock + Expiration]
  <2>1. new \in Challenge
    BY <1>0, ClientsAssumption DEF Challenge
  <2>2. challenges' = [challenges EXCEPT ![c] = new]
    BY <1>3 DEF Start
  <2> HIDE DEF new
  <2>3. challenges' \in [ChallengeIds -> Challenge \cup {NoChallenge}]
    BY <2>1, <2>2 DEF TypeOK
  <2> QED
    BY <1>3, <2>3 DEF Start, TypeOK
<1>4. ASSUME NEW c \in ChallengeIds, NEW client \in Clients, NEW r \in RequestIds,
             NEW interactive \in BOOLEAN, Prove(r, client, c, interactive)
      PROVE  TypeOK'
  <2>1. challenges' \in [ChallengeIds -> Challenge \cup {NoChallenge}]
    BY <1>4, SetStatusWrites DEF Prove, Statuses, InContext
  <2>2. requests' \in [RequestIds -> Request]
    BY <1>4 DEF Prove, TypeOK, Request, Stages
  <2> QED
    BY <1>4, <2>1, <2>2 DEF Prove, TypeOK
<1>5. ASSUME NEW c \in ChallengeIds, NEW client \in Clients, NEW r \in RequestIds,
             PostComplete(r, client, c)
      PROVE  TypeOK'
  <2>1. requests' \in [RequestIds -> Request]
    BY <1>5 DEF PostComplete, TypeOK, Request, Stages
  <2> QED
    BY <1>5, <2>1 DEF PostComplete, TypeOK
<1>6. ASSUME NEW c \in ChallengeIds, NEW client \in Clients, ConsumeResult(client, c)
      PROVE  TypeOK'
  <2>1. results[c] \in Result
    BY <1>6 DEF ConsumeResult, TypeOK
  <2>2. [results[c] EXCEPT !.consumed = TRUE] \in Result
    BY <2>1 DEF Result
  <2>3. results' \in [ChallengeIds -> Result \cup {NoResult}]
    BY <1>6, <2>2 DEF ConsumeResult, TypeOK
  <2>4. principals' \in [ChallengeIds -> Seq(Principal)]
    <3>1. results[c].subject \in SubjectIds
      BY <2>1 DEF Result
    <3>2. CASE principals' = principals
      BY <3>2 DEF TypeOK
    <3>3. CASE SignIn(c, client, results[c].subject)
      BY <3>1, <3>3, SignInWrites
    <3> QED
      BY <1>6, <3>2, <3>3 DEF ConsumeResult
  <2> QED
    BY <1>6, <2>3, <2>4 DEF ConsumeResult, TypeOK
<1> QED
  BY <1>1, <1>2, <1>3, <1>4, <1>5, <1>6 DEF Arrival

\* A change of the identity table.
LEMMA TableChangeTyped ==
    ASSUME TypeOK, TableChange
    PROVE  TypeOK'
<1>0. changes' \in Nat
  <2>1. Change
    BY DEF TableChange, Relink, CreateOther, Update
  <2> QED
    BY <2>1 DEF Change, TypeOK
<1>1. ASSUME NEW s \in SubjectIds, Relink(s)
      PROVE  subjects' \in [SubjectIds -> Subject \cup {NoSubject}]
  <2>1. subjects[s] \in Subject
    BY <1>1 DEF Relink, Known, TypeOK
  <2>2. [subjects[s] EXCEPT !.handle = NoEmail] \in Subject
    BY <2>1 DEF Subject
  <2> QED
    BY <1>1, <2>2 DEF Relink, TypeOK
<1>2. ASSUME NEW s \in SubjectIds, CreateOther(s)
      PROVE  subjects' \in [SubjectIds -> Subject \cup {NoSubject}]
  <2> DEFINE new == [application |-> NoApplication, provider |-> "PrivateID",
                     handle |-> NoEmail, email |-> NoEmail, emailVerified |-> FALSE,
                     status |-> "ACTIVE"]
  <2>1. new \in Subject
    BY DEF Subject
  <2>2. subjects' = [subjects EXCEPT ![s] = new]
    BY <1>2 DEF CreateOther
  <2> HIDE DEF new
  <2> QED
    BY <2>1, <2>2 DEF TypeOK
<1>3. ASSUME NEW s \in SubjectIds, NEW email \in Emails \cup {NoEmail},
             NEW verified \in BOOLEAN, NEW status \in {"ACTIVE", "DISABLED"},
             Update(s, email, verified, status)
      PROVE  subjects' \in [SubjectIds -> Subject \cup {NoSubject}]
  <2> DEFINE new == [subjects[s] EXCEPT !.email = email, !.emailVerified = verified,
                                        !.status = status]
  <2>1. subjects[s] \in Subject
    BY <1>3 DEF Update, Known, TypeOK
  <2>2. new \in Subject
    BY <2>1 DEF Subject
  <2>3. subjects' = [subjects EXCEPT ![s] = new]
    BY <1>3 DEF Update
  <2> HIDE DEF new
  <2> QED
    BY <2>2, <2>3 DEF TypeOK
<1>4. subjects' \in [SubjectIds -> Subject \cup {NoSubject}]
  BY <1>1, <1>2, <1>3 DEF TableChange
<1>5. UNCHANGED <<clock, challenges, evidence, results, requests, principals>>
  BY DEF TableChange, Relink, CreateOther, Update
<1> QED
  BY <1>0, <1>4, <1>5 DEF TypeOK

\* Every step keeps the types.
LEMMA StepTyped ==
    ASSUME TypeOK, Begun, [Next]_vars
    PROVE  TypeOK'
<1>1. CASE \E r \in RequestIds : Handler(r)
  BY <1>1, HandlerTyped
<1>2. CASE \E r \in RequestIds : Crash(r)
  BY <1>2, GotoWrites DEF Crash, Stages, TypeOK
<1>3. CASE Arrival
  BY <1>3, ArrivalTyped
<1>4. CASE TableChange
  BY <1>4, TableChangeTyped
<1>5. CASE Tick \/ UNCHANGED vars
  BY <1>5 DEF Tick, vars, TypeOK
<1> QED
  BY <1>1, <1>2, <1>3, <1>4, <1>5 DEF Next

-----------------------------------------------------------------------------
(* What one step does to each variable.                                    *)

\* A challenge is issued as PENDING; a proven one of a registration is only
\* ever consumed, with evidence, by the request that holds its row lock.
ChallengesMove ==
    \A c \in ChallengeIds :
      \/ challenges'[c] = challenges[c]
      \/ ~Issued(c) /\ Issued(c)' /\ challenges'[c].status = "PENDING"
      \/ /\ Issued(c) /\ Issued(c)'
         /\ challenges'[c].mode = challenges[c].mode
         /\ challenges'[c].email = challenges[c].email
         /\ \/ challenges[c].status = "PENDING" /\ challenges'[c].status # "CONSUMED"
            \/ /\ challenges[c].status = "VERIFIED" /\ challenges'[c].status # "PENDING"
               /\ challenges'[c].expiresAt = challenges[c].expiresAt
               /\ challenges[c].mode = "REGISTRATION" =>
                    /\ challenges'[c].status = "CONSUMED" /\ evidence'[c] # NoSubject
                    /\ \E r \in RequestIds :
                         /\ requests[r].stage = "CHECKED" /\ requests[r].challenge = c
                         /\ requests'[r].stage # "CHECKED"

\* Evidence is left by a consumption.
EvidenceMoves ==
    \A c \in ChallengeIds :
      \/ evidence'[c] = evidence[c]
      \/ /\ Issued(c) /\ challenges[c].mode = "REGISTRATION"
         /\ Issued(c)' /\ challenges'[c].status = "CONSUMED"
         /\ evidence'[c] # NoSubject

\* A result is established by consuming a proof that is still good, and is
\* consumed without any other change.
ResultsMove ==
    \A c \in ChallengeIds :
      \/ results'[c] = results[c]
      \/ /\ Issued(c) /\ challenges[c].mode = "AUTHENTICATION"
         /\ challenges[c].status = "VERIFIED" /\ ~Expired(c)
         /\ Issued(c)' /\ challenges'[c].status = "CONSUMED"
         /\ results'[c] # NoResult /\ results'[c].expiresAt = clock + ResultTTL
      \/ /\ results[c] # NoResult /\ results'[c] # NoResult
         /\ results'[c].consumed /\ results'[c].expiresAt = results[c].expiresAt

\* A principal comes from the consumption of a result or the end of a
\* registration.
PrincipalsMove ==
    \A c \in ChallengeIds :
      \/ principals'[c] = principals[c]
      \/ /\ \E p \in Principal :
              /\ principals'[c] = Append(principals[c], p)
              /\ p.at = clock /\ Eligible(p.subject, challenges[c].email)
         /\ \/ /\ results[c] # NoResult /\ ~results[c].consumed
               /\ clock < results[c].expiresAt
               /\ results'[c] # NoResult /\ results'[c].consumed
            \/ \E r \in RequestIds :
                 /\ requests[r].stage = "REGISTERED" /\ requests[r].challenge = c
                 /\ requests'[r].stage = "DONE"
         /\ challenges'[c] = challenges[c]

\* A request begins.
Begins(r) ==
    /\ requests[r].stage = "IDLE"
    /\ requests'[r].client \in Clients
    /\ \E c \in ChallengeIds :
         /\ requests'[r].challenge = c /\ Issued(c) /\ Issued(c)'
         /\ \/ /\ requests'[r].interactive /\ requests'[r].stage = "PROVED"
               /\ challenges[c].status = "PENDING" /\ challenges'[c].status = "VERIFIED"
            \/ ~requests'[r].interactive /\ requests'[r].stage \in {"DONE", "COMPLETING"}

\* A request goes on.
GoesOn(r) ==
    LET c == requests[r].challenge IN
    /\ requests[r].stage \notin Ended \cup {"IDLE"}
    /\ requests'[r].challenge = c
    /\ requests'[r].client = requests[r].client
    /\ requests'[r].interactive = requests[r].interactive
    /\ requests'[r].stage \in Stages \ {"IDLE", "PROVED"}
    /\ requests'[r].stage = "CHECKED" =>
         /\ challenges[c].mode = "REGISTRATION" /\ challenges[c].status = "VERIFIED"
         /\ challenges'[c] = challenges[c] /\ ~RowLocked(c)
    /\ requests'[r].stage = "REGISTERED" =>
         /\ requests[r].stage = "CHECKED" /\ requests[r].interactive
         /\ challenges'[c].status = "CONSUMED" /\ evidence'[c] # NoSubject

\* One request at a time.
RequestsMove ==
    /\ \A r, q \in RequestIds :
         requests'[r] # requests[r] /\ requests'[q] # requests[q] => r = q
    /\ \A r \in RequestIds : requests'[r] = requests[r] \/ Begins(r) \/ GoesOn(r)

\* A step that takes one request to another stage.
LEMMA GotoMoves ==
    ASSUME TypeOK, NEW r \in RequestIds, NEW stage \in Stages \ {"IDLE", "PROVED"},
           Goto(r, stage), requests[r].stage \notin Ended \cup {"IDLE"},
           LET c == requests[r].challenge IN
           /\ stage = "CHECKED" =>
                /\ challenges[c].mode = "REGISTRATION" /\ challenges[c].status = "VERIFIED"
                /\ challenges'[c] = challenges[c] /\ ~RowLocked(c)
           /\ stage = "REGISTERED" =>
                /\ requests[r].stage = "CHECKED" /\ requests[r].interactive
                /\ challenges'[c].status = "CONSUMED" /\ evidence'[c] # NoSubject
    PROVE  RequestsMove
<1>1. /\ requests'[r].stage = stage
      /\ requests'[r].challenge = requests[r].challenge
      /\ requests'[r].client = requests[r].client
      /\ requests'[r].interactive = requests[r].interactive
      /\ \A q \in RequestIds \ {r} : requests'[q] = requests[q]
  BY GotoWrites
<1>2. GoesOn(r)
  BY <1>1 DEF GoesOn
<1> QED
  BY <1>1, <1>2 DEF RequestsMove

\* What a challenge of a request that holds a row lock is, or one that has
\* registered.
Registering ==
    \A r \in RequestIds :
      LET c == requests[r].challenge IN
      /\ requests[r].stage = "CHECKED" =>
           challenges[c].mode = "REGISTRATION" /\ challenges[c].status = "VERIFIED"
      /\ requests[r].stage = "REGISTERED" =>
           /\ challenges[c].mode = "REGISTRATION" /\ challenges[c].status = "CONSUMED"
           /\ requests[r].interactive

Moves == ChallengesMove /\ EvidenceMoves /\ ResultsMove /\ PrincipalsMove /\ RequestsMove

\* The mode that goes with the purpose of registration.
LEMMA PurposeOfMode ==
    \A mode \in Modes : Purpose[mode] = "REGISTRATION" <=> mode = "REGISTRATION"
BY DEF Modes, Purpose

\* A handler of a request.
LEMMA HandlerMoves ==
    ASSUME TypeOK, Begun, Registering, NEW r \in RequestIds, Handler(r)
    PROVE  Moves
<1>a. requests[r].stage \notin Ended \cup {"IDLE"}
  BY DEF Handler, BurnProof, Establish, CallComplete, CheckRegistration,
         CommitRegistration, FinishRegistration, Ended
<1>b. PICK c \in ChallengeIds, client \in Clients :
        /\ c = requests[r].challenge /\ client = requests[r].client
        /\ Issued(c)
  BY <1>a DEF Begun
<1>0. /\ c = requests[r].challenge /\ client = requests[r].client
      /\ Issued(c) /\ requests[r].stage \notin Ended \cup {"IDLE"}
  BY <1>a, <1>b
<1>1. CASE BurnProof(r)
  <2>1. RequestsMove
    BY <1>0, <1>1, GotoMoves DEF BurnProof, Stages
  <2>2. ChallengesMove
    <3>1. CASE challenges' = challenges
      BY <3>1 DEF ChallengesMove
    <3>2. CASE challenges[c].status = "VERIFIED"
               /\ \E status \in {"EXPIRED", "CONSUMED"} : SetStatus(c, status)
      BY <1>0, <1>1, <3>2, SetStatusWrites DEF Statuses, ChallengesMove, BurnProof, Issued
    <3> QED
      BY <1>0, <1>1, <3>1, <3>2 DEF BurnProof
  <2> QED
    BY <1>1, <2>1, <2>2
       DEF BurnProof, Moves, EvidenceMoves, ResultsMove, PrincipalsMove
<1>2. CASE Establish(r)
  <2>1. RequestsMove
    <3>1. PICK stage \in {"DENIED", "DONE"} : Goto(r, stage)
      BY <1>2 DEF Establish
    <3> QED
      BY <1>0, <3>1, GotoMoves DEF Stages
  <2>2. CASE challenges' = challenges /\ results' = results
    BY <1>2, <2>1, <2>2
       DEF Establish, Moves, ChallengesMove, EvidenceMoves, ResultsMove, PrincipalsMove
  <2>3. CASE Proven(c) /\ SetStatus(c, "CONSUMED")
    <3>0. /\ Issued(c)' /\ challenges'[c].status = "CONSUMED"
          /\ challenges'[c].mode = challenges[c].mode
          /\ challenges'[c].email = challenges[c].email
          /\ challenges'[c].expiresAt = challenges[c].expiresAt
          /\ \A d \in ChallengeIds \ {c} : challenges'[d] = challenges[d]
      BY <1>0, <2>3, SetStatusWrites DEF Statuses, Issued
    <3>1. challenges[c].mode = "AUTHENTICATION"
      BY <1>0, <1>2 DEF Establish
    <3>2. ChallengesMove
      BY <1>0, <2>3, <3>0, <3>1 DEF ChallengesMove, Proven
    <3>3. ResultsMove
      <4>1. CASE results' = results
        BY <4>1 DEF ResultsMove
      <4>2. CASE \E s \in SubjectIds : results' = [results EXCEPT ![c] = NewResult(s, client)]
        <5>1. PICK s \in SubjectIds : results' = [results EXCEPT ![c] = NewResult(s, client)]
          BY <4>2
        <5>2. /\ results'[c] = NewResult(s, client)
              /\ \A d \in ChallengeIds \ {c} : results'[d] = results[d]
          BY <1>0, <5>1 DEF TypeOK
        <5>3. NewResult(s, client) \in Result
          BY <1>0, TimesAssumption DEF NewResult, Result, TypeOK
        <5>4. results'[c] # NoResult
          BY <5>2, <5>3, AbsenceAssumption
        <5>5. results'[c].expiresAt = clock + ResultTTL
          BY <5>2 DEF NewResult
        <5> QED
          BY <1>0, <2>3, <3>0, <3>1, <5>2, <5>4, <5>5 DEF ResultsMove, Proven
      <4> QED
        BY <1>0, <1>2, <4>1, <4>2 DEF Establish
    <3> QED
      BY <1>2, <2>1, <3>2, <3>3 DEF Establish, Moves, EvidenceMoves, PrincipalsMove
  <2> QED
    BY <1>0, <1>2, <2>2, <2>3 DEF Establish
<1>3. CASE CallComplete(r)
  <2>1. RequestsMove
    BY <1>0, <1>3, GotoMoves DEF CallComplete, Stages
  <2> QED
    BY <1>3, <2>1
       DEF CallComplete, Moves, ChallengesMove, EvidenceMoves, ResultsMove, PrincipalsMove
<1>4. CASE CheckRegistration(r)
  <2>1. PICK stage \in {"CHECKED", "DONE", "DENIED"} :
          /\ Goto(r, stage)
          /\ stage = "CHECKED" => Registrable(client, c) /\ challenges[c].status = "VERIFIED"
    BY <1>0, <1>4 DEF CheckRegistration, RefusedStage
  <2>2. stage = "CHECKED" => challenges[c].mode = "REGISTRATION"
    BY <1>0, <2>1, PurposeOfMode DEF Registrable, TypeOK, Challenge, Issued
  <2>3. RequestsMove
    BY <1>0, <1>4, <2>1, <2>2, GotoMoves DEF CheckRegistration, Stages
  <2> QED
    BY <1>4, <2>3
       DEF CheckRegistration, Moves, ChallengesMove, EvidenceMoves, ResultsMove, PrincipalsMove
<1>5. CASE CommitRegistration(r)
  <2>0. /\ requests[r].stage = "CHECKED"
        /\ challenges[c].mode = "REGISTRATION" /\ challenges[c].status = "VERIFIED"
    BY <1>0, <1>5 DEF CommitRegistration, Registering
  <2>1. /\ Issued(c)' /\ challenges'[c].status = "CONSUMED"
        /\ challenges'[c].mode = challenges[c].mode
        /\ challenges'[c].email = challenges[c].email
        /\ challenges'[c].expiresAt = challenges[c].expiresAt
        /\ \A d \in ChallengeIds \ {c} : challenges'[d] = challenges[d]
    BY <1>0, <1>5, SetStatusWrites DEF CommitRegistration, Statuses, Issued
  <2>2. evidence'[c] # NoSubject /\ \A d \in ChallengeIds \ {c} : evidence'[d] = evidence[d]
    <3>1. PICK s \in SubjectIds :
            evidence' = [evidence EXCEPT ![c] = IF @ = NoSubject THEN s ELSE @]
      BY <1>0, <1>5 DEF CommitRegistration
    <3> QED
      BY <1>0, <3>1, AbsenceAssumption DEF TypeOK
  <2>3. PICK stage \in {"REGISTERED", "DONE"} :
          Goto(r, stage) /\ (stage = "REGISTERED" => requests[r].interactive)
    BY <1>5 DEF CommitRegistration
  <2>4. RequestsMove
    BY <1>0, <2>0, <2>1, <2>2, <2>3, GotoMoves DEF Stages
  <2>5. requests'[r].stage # "CHECKED"
    BY <2>3, GotoWrites DEF Stages
  <2>6. ChallengesMove
    BY <1>0, <2>0, <2>1, <2>2, <2>5 DEF ChallengesMove
  <2>7. EvidenceMoves
    BY <1>0, <2>0, <2>1, <2>2 DEF EvidenceMoves
  <2> QED
    BY <1>5, <2>4, <2>6, <2>7 DEF CommitRegistration, Moves, ResultsMove, PrincipalsMove
<1>6. CASE FinishRegistration(r)
  <2>1. RequestsMove
    BY <1>0, <1>6, GotoMoves DEF FinishRegistration, Stages
  <2>2. PrincipalsMove
    <3>1. CASE principals' = principals
      BY <3>1 DEF PrincipalsMove
    <3>2. CASE /\ Eligible(evidence[c], challenges[c].email)
               /\ SignIn(c, client, evidence[c]) /\ Goto(r, "DONE")
      <4>1. evidence[c] \in SubjectIds
        BY <1>0, <1>6 DEF TypeOK, Begun, FinishRegistration
      <4> DEFINE p == [subject |-> evidence[c], client |-> client, at |-> clock]
      <4>2. /\ principals'[c] = Append(principals[c], p)
            /\ \A d \in ChallengeIds \ {c} : principals'[d] = principals[d]
        BY <1>0, <3>2, <4>1, SignInWrites
      <4>3. /\ p \in Principal /\ p.at = clock
            /\ Eligible(p.subject, challenges[c].email)
        BY <1>0, <3>2, <4>1 DEF Principal, TypeOK
      <4>4. requests[r].stage = "REGISTERED" /\ requests'[r].stage = "DONE"
        BY <1>6, <3>2, GotoWrites DEF FinishRegistration, Stages
      <4>5. challenges' = challenges
        BY <1>6 DEF FinishRegistration
      <4> HIDE DEF p
      <4> QED
        BY <1>0, <4>2, <4>3, <4>4, <4>5 DEF PrincipalsMove
    <3> QED
      BY <1>0, <1>6, <3>1, <3>2 DEF FinishRegistration
  <2> QED
    BY <1>6, <2>1, <2>2
       DEF FinishRegistration, Moves, ChallengesMove, EvidenceMoves, ResultsMove
<1> QED
  BY <1>1, <1>2, <1>3, <1>4, <1>5, <1>6 DEF Handler

\* What begins, or is done to a challenge or a result from outside.
LEMMA ArrivalMoves ==
    ASSUME TypeOK, Arrival
    PROVE  Moves
<1>1. ASSUME NEW c \in ChallengeIds, Resend(c)
      PROVE  Moves
  <2>0. challenges[c] \in Challenge
    BY <1>1 DEF Resend, Issued, TypeOK
  <2>1. /\ challenges'[c] = [challenges[c] EXCEPT !.expiresAt = clock + Expiration]
        /\ \A d \in ChallengeIds \ {c} : challenges'[d] = challenges[d]
    BY <1>1 DEF Resend, TypeOK
  <2>2. [challenges[c] EXCEPT !.expiresAt = clock + Expiration] \in Challenge
    <3>1. clock + Expiration \in Nat
      BY TimesAssumption DEF TypeOK
    <3> QED
      BY <2>0, <3>1 DEF Challenge
  <2>3. Issued(c)'
    BY <2>1, <2>2, AbsenceAssumption DEF Issued
  <2>4. /\ challenges'[c].mode = challenges[c].mode
        /\ challenges'[c].email = challenges[c].email
        /\ challenges'[c].status = challenges[c].status
    BY <2>0, <2>1 DEF Challenge
  <2>5. ChallengesMove
    BY <1>1, <2>1, <2>3, <2>4 DEF ChallengesMove, Resend
  <2> QED
    BY <1>1, <2>5
       DEF Resend, Moves, EvidenceMoves, ResultsMove, PrincipalsMove, RequestsMove
<1>2. ASSUME NEW c \in ChallengeIds, Abandon(c)
      PROVE  Moves
  <2>1. PICK status \in {"EXPIRED", "LOCKED"} : SetStatus(c, status)
    BY <1>2 DEF Abandon
  <2>2. ChallengesMove
    BY <1>2, <2>1, SetStatusWrites DEF Abandon, Statuses, Issued, ChallengesMove
  <2> QED
    BY <1>2, <2>2
       DEF Abandon, Moves, EvidenceMoves, ResultsMove, PrincipalsMove, RequestsMove
<1>3. ASSUME NEW c \in ChallengeIds, NEW client \in Clients, NEW email \in Emails,
             NEW mode \in Modes, Start(client, email, mode, c)
      PROVE  Moves
  <2> DEFINE new == [application |-> ApplicationOf[client], email |-> email, mode |-> mode,
                     status |-> "PENDING", expiresAt |-> clock + Expiration]
  <2>1. new \in Challenge
    BY ClientsAssumption, TimesAssumption DEF Challenge, TypeOK
  <2>2. challenges' = [challenges EXCEPT ![c] = new]
    BY <1>3 DEF Start
  <2>3. new.status = "PENDING"
    OBVIOUS
  <2> HIDE DEF new
  <2>4. new # NoChallenge
    BY <2>1, AbsenceAssumption
  <2>5. challenges'[c] = new /\ \A d \in ChallengeIds \ {c} : challenges'[d] = challenges[d]
    BY <2>2 DEF TypeOK
  <2>6. ChallengesMove
    BY <1>3, <2>3, <2>4, <2>5 DEF Start, Issued, ChallengesMove
  <2> QED
    BY <1>3, <2>6
       DEF Start, Moves, EvidenceMoves, ResultsMove, PrincipalsMove, RequestsMove
<1>4. ASSUME NEW c \in ChallengeIds, NEW client \in Clients, NEW r \in RequestIds,
             NEW interactive \in BOOLEAN, Prove(r, client, c, interactive)
      PROVE  Moves
  <2>1. /\ Issued(c) /\ challenges[c].status = "PENDING"
        /\ Issued(c)' /\ challenges'[c].status = "VERIFIED"
    BY <1>4, SetStatusWrites DEF Prove, Statuses, InContext, Issued
  <2>2. ChallengesMove
    BY <1>4, <2>1, SetStatusWrites DEF Prove, Statuses, ChallengesMove
  <2>3. /\ requests'[r] = [stage |-> IF interactive THEN "PROVED" ELSE "DONE",
                           client |-> client, challenge |-> c, interactive |-> interactive]
        /\ \A q \in RequestIds \ {r} : requests'[q] = requests[q]
    BY <1>4 DEF Prove, TypeOK
  <2>4. Begins(r)
    BY <1>4, <2>1, <2>3 DEF Prove, Begins
  <2>5. RequestsMove
    BY <2>3, <2>4 DEF RequestsMove
  <2> QED
    BY <1>4, <2>2, <2>5 DEF Prove, Moves, EvidenceMoves, ResultsMove, PrincipalsMove
<1>5. ASSUME NEW c \in ChallengeIds, NEW client \in Clients, NEW r \in RequestIds,
             PostComplete(r, client, c)
      PROVE  Moves
  <2>1. /\ requests'[r] = [stage |-> "COMPLETING", client |-> client, challenge |-> c,
                           interactive |-> FALSE]
        /\ \A q \in RequestIds \ {r} : requests'[q] = requests[q]
    BY <1>5 DEF PostComplete, TypeOK
  <2>2. Begins(r)
    BY <1>5, <2>1 DEF PostComplete, Begins, Issued
  <2>3. RequestsMove
    BY <2>1, <2>2 DEF RequestsMove
  <2> QED
    BY <1>5, <2>3
       DEF PostComplete, Moves, ChallengesMove, EvidenceMoves, ResultsMove, PrincipalsMove
<1>6. ASSUME NEW c \in ChallengeIds, NEW client \in Clients, ConsumeResult(client, c)
      PROVE  Moves
  <2>0. /\ results[c] \in Result /\ results[c] # NoResult
        /\ ~results[c].consumed /\ clock < results[c].expiresAt
    BY <1>6 DEF ConsumeResult, Usable, TypeOK
  <2>1. /\ results'[c] = [results[c] EXCEPT !.consumed = TRUE]
        /\ \A d \in ChallengeIds \ {c} : results'[d] = results[d]
    BY <1>6 DEF ConsumeResult, TypeOK
  <2>2. [results[c] EXCEPT !.consumed = TRUE] \in Result
    BY <2>0 DEF Result
  <2>3. results'[c] # NoResult
    BY <2>1, <2>2, AbsenceAssumption
  <2>4. results'[c].consumed /\ results'[c].expiresAt = results[c].expiresAt
    BY <2>0, <2>1 DEF Result
  <2>5. ResultsMove
    BY <2>0, <2>1, <2>3, <2>4 DEF ResultsMove
  <2>6. PrincipalsMove
    <3>1. CASE principals' = principals
      BY <3>1 DEF PrincipalsMove
    <3>2. CASE /\ Eligible(results[c].subject, challenges[c].email)
               /\ SignIn(c, client, results[c].subject)
      <4>1. results[c].subject \in SubjectIds
        BY <2>0 DEF Result
      <4> DEFINE p == [subject |-> results[c].subject, client |-> client, at |-> clock]
      <4>2. /\ principals'[c] = Append(principals[c], p)
            /\ \A d \in ChallengeIds \ {c} : principals'[d] = principals[d]
        BY <3>2, <4>1, SignInWrites
      <4>3. /\ p \in Principal /\ p.at = clock
            /\ Eligible(p.subject, challenges[c].email)
        BY <3>2, <4>1 DEF Principal, TypeOK
      <4>4. challenges' = challenges
        BY <1>6 DEF ConsumeResult
      <4> HIDE DEF p
      <4> QED
        BY <2>0, <2>3, <2>4, <4>2, <4>3, <4>4 DEF PrincipalsMove
    <3> QED
      BY <1>6, <3>1, <3>2 DEF ConsumeResult
  <2> QED
    BY <1>6, <2>5, <2>6
       DEF ConsumeResult, Moves, ChallengesMove, EvidenceMoves, RequestsMove
<1> QED
  BY <1>1, <1>2, <1>3, <1>4, <1>5, <1>6 DEF Arrival

\* Every step.
LEMMA StepMoves ==
    ASSUME TypeOK, Begun, Registering, [Next]_vars
    PROVE  Moves
<1>1. CASE \E r \in RequestIds : Handler(r)
  BY <1>1, HandlerMoves
<1>2. ASSUME NEW r \in RequestIds, Crash(r)
      PROVE  Moves
  <2>1. RequestsMove
    BY <1>2, GotoMoves DEF Crash, Stages, Ended
  <2> QED
    BY <1>2, <2>1
       DEF Crash, Moves, ChallengesMove, EvidenceMoves, ResultsMove, PrincipalsMove
<1>3. CASE Arrival
  BY <1>3, ArrivalMoves
<1>4. CASE TableChange \/ Tick \/ UNCHANGED vars
  <2>1. UNCHANGED <<challenges, evidence, results, requests, principals>>
    BY <1>4 DEF TableChange, Relink, CreateOther, Update, Tick, vars
  <2> QED
    BY <2>1 DEF Moves, ChallengesMove, EvidenceMoves, ResultsMove, PrincipalsMove, RequestsMove
<1> QED
  BY <1>1, <1>2, <1>3, <1>4 DEF Next

-----------------------------------------------------------------------------
(* What the moves keep.                                                    *)

\* A request of the login page has proved its challenge, and is the only one
\* that ever did.
Interactive ==
    \A r \in RequestIds : requests[r].interactive =>
      requests[r].stage # "IDLE" /\ challenges[requests[r].challenge].status # "PENDING"

Alone ==
    \A r, q \in RequestIds :
      /\ requests[r].interactive /\ requests[q].interactive
      /\ requests[r].challenge = requests[q].challenge
      => r = q

\* A row lock has one holder.
OneHolder ==
    \A r, q \in RequestIds :
      /\ requests[r].stage = "CHECKED" /\ requests[q].stage = "CHECKED"
      /\ requests[r].challenge = requests[q].challenge
      => r = q

\* Evidence and consumption of a registration go together.
Evidenced ==
    \A c \in ChallengeIds :
      /\ evidence[c] # NoSubject =>
           /\ Issued(c) /\ challenges[c].mode = "REGISTRATION"
           /\ challenges[c].status = "CONSUMED"
      /\ Issued(c) /\ challenges[c].mode = "REGISTRATION"
           /\ challenges[c].status = "CONSUMED" => evidence[c] # NoSubject

\* A result stands for a consumed proof that was good when it was made.
Resulting ==
    \A c \in ChallengeIds : results[c] # NoResult =>
      /\ Issued(c) /\ challenges[c].mode = "AUTHENTICATION"
      /\ challenges[c].status = "CONSUMED"
      /\ results[c].expiresAt <= challenges[c].expiresAt - 1 + ResultTTL

\* What was signed in by has nothing left that could sign in again.
SignedIn ==
    \A c \in ChallengeIds : Len(principals[c]) # 0 =>
      /\ Issued(c) /\ challenges[c].status = "CONSUMED"
      /\ challenges[c].mode = "AUTHENTICATION" => results[c] # NoResult /\ results[c].consumed
      /\ challenges[c].mode # "AUTHENTICATION" =>
           \A r \in RequestIds :
             requests[r].interactive /\ requests[r].challenge = c => requests[r].stage \in Ended

Safe == /\ Begun /\ Registering /\ Interactive /\ Alone /\ OneHolder
        /\ Evidenced /\ Resulting /\ SignedIn

\* The inductive invariant.
SignInInv ==
    TypeOK /\ Safe /\ OnePrincipalPerProof /\ SignInBounded /\ OneSubjectPerAddress

\* A challenge keeps its mode, and once consumed it stays as it is.
LEMMA ChallengesKept ==
    ASSUME ChallengesMove, NEW c \in ChallengeIds, Issued(c)
    PROVE  /\ Issued(c)'
           /\ challenges'[c].mode = challenges[c].mode
           /\ challenges[c].status = "CONSUMED" => challenges'[c] = challenges[c]
           /\ challenges[c].status # "PENDING" =>
                /\ challenges'[c].status # "PENDING"
                /\ challenges'[c].expiresAt = challenges[c].expiresAt
BY DEF ChallengesMove, Issued

\* Requests.
LEMMA RequestsStep ==
    ASSUME TypeOK, Safe, Moves
    PROVE  Begun' /\ Registering' /\ Interactive' /\ Alone' /\ OneHolder'
<1>0. /\ Begun /\ Registering /\ Interactive /\ Alone /\ OneHolder /\ Evidenced
      /\ ChallengesMove /\ EvidenceMoves /\ RequestsMove
  BY DEF Safe, Moves
<1>1. ASSUME NEW r \in RequestIds
      PROVE  requests'[r] = requests[r] \/ Begins(r) \/ GoesOn(r)
  BY <1>0 DEF RequestsMove
<1>2. ASSUME NEW r \in RequestIds, requests[r].stage # "IDLE"
      PROVE  /\ requests[r].challenge \in ChallengeIds /\ requests[r].client \in Clients
             /\ Issued(requests[r].challenge)
  BY <1>0, <1>2 DEF Begun
<1>3. ASSUME NEW r \in RequestIds, requests'[r].stage # "IDLE"
      PROVE  /\ requests'[r].client \in Clients
             /\ requests'[r].challenge \in ChallengeIds
             /\ challenges'[requests'[r].challenge] # NoChallenge
             /\ requests'[r].stage = "REGISTERED" =>
                  evidence'[requests'[r].challenge] # NoSubject
  <2>1. CASE requests'[r] = requests[r]
    <3>1. PICK c \in ChallengeIds : c = requests[r].challenge
      BY <1>2, <1>3, <2>1
    <3>2. requests[r].stage = "REGISTERED" => evidence[c] # NoSubject
      BY <1>0, <3>1 DEF Begun
    <3>3. evidence[c] # NoSubject => evidence'[c] # NoSubject
      BY <1>0 DEF EvidenceMoves
    <3>4. Issued(c)'
      BY <1>0, <1>2, <1>3, <2>1, <3>1, ChallengesKept
    <3> QED
      BY <1>2, <1>3, <2>1, <3>1, <3>2, <3>3, <3>4 DEF Issued
  <2>2. CASE Begins(r)
    BY <2>2 DEF Begins, Issued
  <2>3. CASE GoesOn(r)
    <3>1. PICK c \in ChallengeIds : c = requests[r].challenge
      BY <1>2, <2>3 DEF GoesOn
    <3>2. Issued(c)'
      BY <1>0, <1>2, <2>3, <3>1, ChallengesKept DEF GoesOn
    <3> QED
      BY <1>2, <2>3, <3>1, <3>2 DEF GoesOn, Issued
  <2> QED
    BY <1>1, <2>1, <2>2, <2>3
<1>4. Begun'
  BY <1>3 DEF Begun, Issued
<1>5. ASSUME NEW r \in RequestIds, requests'[r].stage \in {"CHECKED", "REGISTERED"}
      PROVE  /\ challenges'[requests'[r].challenge].mode = "REGISTRATION"
             /\ requests'[r].stage = "CHECKED" =>
                  challenges'[requests'[r].challenge].status = "VERIFIED"
             /\ requests'[r].stage = "REGISTERED" =>
                  /\ challenges'[requests'[r].challenge].status = "CONSUMED"
                  /\ requests'[r].interactive
  <2>0. ~Begins(r)
    BY <1>5 DEF Begins
  <2>1. PICK c \in ChallengeIds : c = requests[r].challenge /\ Issued(c)
    BY <1>1, <1>2, <1>5, <2>0 DEF GoesOn
  <2>2. /\ requests'[r].challenge = c
        /\ challenges'[c].mode = challenges[c].mode
    BY <1>0, <1>1, <2>0, <2>1, ChallengesKept DEF GoesOn
  <2>3. CASE requests'[r] = requests[r] /\ requests[r].stage = "CHECKED"
    <3>1. challenges[c].mode = "REGISTRATION" /\ challenges[c].status = "VERIFIED"
      BY <1>0, <2>1, <2>3 DEF Registering
    <3>2. ~\E q \in RequestIds : /\ requests[q].stage = "CHECKED" /\ requests[q].challenge = c
                                 /\ requests'[q].stage # "CHECKED"
      BY <1>0, <2>1, <2>3 DEF OneHolder
    <3>3. challenges'[c] = challenges[c]
      BY <1>0, <2>1, <3>1, <3>2 DEF ChallengesMove
    <3> QED
      BY <2>2, <2>3, <3>1, <3>3
  <2>4. CASE requests'[r] = requests[r] /\ requests[r].stage = "REGISTERED"
    <3>1. /\ challenges[c].mode = "REGISTRATION" /\ challenges[c].status = "CONSUMED"
          /\ requests[r].interactive
      BY <1>0, <2>1, <2>4 DEF Registering
    <3> QED
      BY <1>0, <2>1, <2>2, <2>4, <3>1, ChallengesKept
  <2>5. CASE GoesOn(r)
    <3>1. requests[r].stage = "CHECKED" => challenges[c].mode = "REGISTRATION"
      BY <1>0, <2>1 DEF Registering
    <3> QED
      BY <1>5, <2>1, <2>2, <2>5, <3>1 DEF GoesOn
  <2> QED
    BY <1>1, <1>5, <2>0, <2>3, <2>4, <2>5
<1>6. Registering'
  BY <1>5 DEF Registering
<1>7. ASSUME NEW r \in RequestIds, requests'[r].interactive
      PROVE  /\ requests'[r].stage # "IDLE"
             /\ challenges'[requests'[r].challenge].status # "PENDING"
  <2>1. CASE Begins(r)
    BY <1>7, <2>1 DEF Begins
  <2>2. CASE requests'[r] = requests[r] \/ GoesOn(r)
    <3>1. /\ requests[r].interactive /\ requests'[r].challenge = requests[r].challenge
          /\ requests'[r].stage = "IDLE" => requests[r].stage = "IDLE"
      BY <1>7, <2>2 DEF GoesOn
    <3>2. requests[r].stage # "IDLE" /\ challenges[requests[r].challenge].status # "PENDING"
      BY <1>0, <3>1 DEF Interactive
    <3>3. PICK c \in ChallengeIds : c = requests[r].challenge /\ Issued(c)
      BY <1>2, <3>2
    <3> QED
      BY <1>0, <3>1, <3>2, <3>3, ChallengesKept
  <2> QED
    BY <1>1, <2>1, <2>2
<1>8. Interactive'
  BY <1>7 DEF Interactive
<1>9. ASSUME NEW r \in RequestIds, NEW q \in RequestIds,
             requests'[r].interactive, requests'[q].interactive,
             requests'[r].challenge = requests'[q].challenge, Begins(r)
      PROVE  r = q
  <2> SUFFICES ASSUME r # q PROVE FALSE
    OBVIOUS
  <2>1. requests'[r] # requests[r]
    BY <1>9 DEF Begins
  <2>2. requests'[q] = requests[q]
    BY <1>0, <2>1 DEF RequestsMove
  <2>3. challenges[requests[q].challenge].status # "PENDING"
    BY <1>0, <1>9, <2>2 DEF Interactive
  <2> QED
    BY <1>9, <2>2, <2>3 DEF Begins
<1>10. ASSUME NEW r \in RequestIds, NEW q \in RequestIds,
              requests'[r].interactive, requests'[q].interactive,
              requests'[r].challenge = requests'[q].challenge
       PROVE  r = q
  <2>1. CASE Begins(r) \/ Begins(q)
    BY <1>9, <1>10, <2>1
  <2>2. CASE ~Begins(r) /\ ~Begins(q)
    BY <1>0, <1>1, <1>10, <2>2 DEF GoesOn, Alone
  <2> QED
    BY <2>1, <2>2
<1>11. Alone'
  BY <1>10 DEF Alone
<1>12. ASSUME NEW r \in RequestIds, NEW q \in RequestIds,
              requests'[r].stage = "CHECKED", requests'[q].stage = "CHECKED",
              requests'[r].challenge = requests'[q].challenge, GoesOn(r)
       PROVE  r = q
  <2> SUFFICES ASSUME r # q PROVE FALSE
    OBVIOUS
  <2>1. ~RowLocked(requests[r].challenge) /\ requests'[r].challenge = requests[r].challenge
    BY <1>12 DEF GoesOn
  <2>2. CASE requests'[q] = requests[q]
    BY <1>12, <2>1, <2>2 DEF RowLocked
  <2>3. CASE requests'[q] # requests[q]
    <3>1. requests'[r] = requests[r]
      BY <1>0, <2>3 DEF RequestsMove
    <3> QED
      BY <1>12, <2>1, <3>1 DEF RowLocked
  <2> QED
    BY <2>2, <2>3
<1>13. ASSUME NEW r \in RequestIds, NEW q \in RequestIds,
              requests'[r].stage = "CHECKED", requests'[q].stage = "CHECKED",
              requests'[r].challenge = requests'[q].challenge
       PROVE  r = q
  <2>1. ~Begins(r) /\ ~Begins(q)
    BY <1>13 DEF Begins
  <2>2. CASE GoesOn(r) \/ GoesOn(q)
    BY <1>12, <1>13, <2>2
  <2>3. CASE requests'[r] = requests[r] /\ requests'[q] = requests[q]
    BY <1>0, <1>13, <2>3 DEF OneHolder
  <2> QED
    BY <1>1, <2>1, <2>2, <2>3
<1>14. OneHolder'
  BY <1>13 DEF OneHolder
<1> QED
  BY <1>4, <1>6, <1>8, <1>11, <1>14

\* Evidence and results.
LEMMA RowsStep ==
    ASSUME TypeOK, TypeOK', Safe, Moves
    PROVE  Evidenced' /\ Resulting'
<1>0. Evidenced /\ Resulting /\ ChallengesMove /\ EvidenceMoves /\ ResultsMove
  BY DEF Safe, Moves
<1>1. ASSUME NEW c \in ChallengeIds, evidence'[c] # NoSubject
      PROVE  /\ Issued(c)' /\ challenges'[c].mode = "REGISTRATION"
             /\ challenges'[c].status = "CONSUMED"
  <2>1. CASE evidence'[c] = evidence[c]
    BY <1>0, <1>1, <2>1, ChallengesKept DEF Evidenced
  <2>2. CASE evidence'[c] # evidence[c]
    BY <1>0, <2>2, ChallengesKept DEF EvidenceMoves
  <2> QED
    BY <2>1, <2>2
<1>2. ASSUME NEW c \in ChallengeIds, Issued(c)', challenges'[c].mode = "REGISTRATION",
             challenges'[c].status = "CONSUMED"
      PROVE  evidence'[c] # NoSubject
  <2>1. CASE challenges'[c] = challenges[c]
    BY <1>0, <1>2, <2>1 DEF Evidenced, EvidenceMoves, Issued
  <2>2. CASE challenges'[c] # challenges[c]
    BY <1>0, <1>2, <2>2 DEF ChallengesMove
  <2> QED
    BY <2>1, <2>2
<1>3. Evidenced'
  BY <1>1, <1>2 DEF Evidenced
<1>4. ASSUME NEW c \in ChallengeIds, results'[c] # NoResult
      PROVE  /\ Issued(c)' /\ challenges'[c].mode = "AUTHENTICATION"
             /\ challenges'[c].status = "CONSUMED"
             /\ results'[c].expiresAt <= challenges'[c].expiresAt - 1 + ResultTTL
  <2>1. CASE /\ Issued(c) /\ challenges[c].mode = "AUTHENTICATION"
             /\ challenges[c].status = "VERIFIED" /\ ~Expired(c)
             /\ challenges'[c].status = "CONSUMED"
             /\ results'[c].expiresAt = clock + ResultTTL
    <3>1. challenges[c] \in Challenge
      BY <2>1 DEF Issued, TypeOK
    <3>2. /\ clock \in Nat /\ ResultTTL \in Nat /\ challenges[c].expiresAt \in Nat
          /\ clock < challenges[c].expiresAt
      BY <2>1, <3>1, TimesAssumption DEF TypeOK, Challenge, Expired
    <3>3. /\ Issued(c)' /\ challenges'[c].mode = "AUTHENTICATION"
          /\ challenges'[c].expiresAt = challenges[c].expiresAt
      BY <1>0, <2>1, ChallengesKept
    <3> QED
      BY <2>1, <3>2, <3>3
  <2>2. CASE results[c] # NoResult /\ results'[c].expiresAt = results[c].expiresAt
    BY <1>0, <2>2, ChallengesKept DEF Resulting
  <2> QED
    BY <1>0, <1>4, <2>1, <2>2 DEF ResultsMove
<1>5. Resulting'
  BY <1>4 DEF Resulting
<1> QED
  BY <1>3, <1>5

\* A principal that is added is the first of its challenge.
LEMMA FirstPrincipal ==
    ASSUME TypeOK, Safe, Moves, NEW c \in ChallengeIds, principals'[c] # principals[c]
    PROVE  /\ Issued(c) /\ challenges[c].status = "CONSUMED" /\ challenges'[c] = challenges[c]
           /\ \E p \in Principal : principals'[c] = <<p>> /\ p.at = clock
           /\ \/ /\ challenges[c].mode = "AUTHENTICATION"
                 /\ clock < challenges[c].expiresAt - 1 + ResultTTL
                 /\ results'[c] # NoResult /\ results'[c].consumed
              \/ /\ challenges[c].mode = "REGISTRATION"
                 /\ \E r \in RequestIds :
                      /\ requests[r].interactive /\ requests[r].challenge = c
                      /\ requests'[r].challenge = c /\ requests'[r].interactive
                      /\ requests'[r].stage \in Ended
<1>0. Begun /\ Registering /\ Resulting /\ SignedIn /\ PrincipalsMove /\ RequestsMove
  BY DEF Safe, Moves
<1>1. PICK p \in Principal :
        principals'[c] = Append(principals[c], p) /\ p.at = clock
  BY <1>0 DEF PrincipalsMove
<1>2. challenges'[c] = challenges[c]
  BY <1>0 DEF PrincipalsMove
<1>3. principals[c] \in Seq(Principal)
  BY DEF TypeOK
<1>4. Len(principals[c]) = 0 => principals'[c] = <<p>>
  <2>1. Len(principals[c]) = 0 => principals[c] = <<>>
    BY <1>3, EmptySeq
  <2>2. Append(<<>>, p) = <<p>>
    OBVIOUS
  <2> QED
    BY <1>1, <2>1, <2>2
<1>5. CASE /\ results[c] # NoResult /\ ~results[c].consumed
           /\ clock < results[c].expiresAt
           /\ results'[c] # NoResult /\ results'[c].consumed
  <2>1. /\ Issued(c) /\ challenges[c].mode = "AUTHENTICATION"
        /\ challenges[c].status = "CONSUMED"
        /\ results[c].expiresAt <= challenges[c].expiresAt - 1 + ResultTTL
    BY <1>0, <1>5 DEF Resulting
  <2>2. Len(principals[c]) = 0
    BY <1>0, <1>5, <2>1 DEF SignedIn
  <2>3. challenges[c] \in Challenge /\ results[c] \in Result
    BY <1>5, <2>1 DEF TypeOK, Issued
  <2>4. /\ clock \in Nat /\ ResultTTL \in Nat
        /\ challenges[c].expiresAt \in Nat /\ results[c].expiresAt \in Nat
    BY <2>3, TimesAssumption DEF TypeOK, Challenge, Result
  <2>5. clock < challenges[c].expiresAt - 1 + ResultTTL
    BY <1>5, <2>1, <2>4
  <2> QED
    BY <1>1, <1>2, <1>4, <1>5, <2>1, <2>2, <2>5
<1>6. ASSUME NEW r \in RequestIds, requests[r].stage = "REGISTERED",
             requests[r].challenge = c, requests'[r].stage = "DONE"
      PROVE  /\ Issued(c) /\ challenges[c].status = "CONSUMED"
             /\ challenges[c].mode = "REGISTRATION" /\ Len(principals[c]) = 0
             /\ requests[r].interactive
             /\ requests'[r].challenge = c /\ requests'[r].interactive
             /\ requests'[r].stage \in Ended
  <2>1. /\ Issued(c) /\ challenges[c].mode = "REGISTRATION"
        /\ challenges[c].status = "CONSUMED" /\ requests[r].interactive
    BY <1>0, <1>6 DEF Registering, Begun
  <2>2. Len(principals[c]) = 0
    BY <1>0, <1>6, <2>1 DEF SignedIn, Ended
  <2>3. GoesOn(r)
    BY <1>0, <1>6 DEF RequestsMove, Begins
  <2> QED
    BY <1>6, <2>1, <2>2, <2>3 DEF GoesOn, Ended
<1> QED
  <2>1. CASE \E r \in RequestIds :
               /\ requests[r].stage = "REGISTERED" /\ requests[r].challenge = c
               /\ requests'[r].stage = "DONE"
    BY <1>1, <1>2, <1>4, <1>6, <2>1
  <2> QED
    BY <1>0, <1>5, <2>1 DEF PrincipalsMove

\* Principals.
LEMMA PrincipalsStep ==
    ASSUME TypeOK, TypeOK', Safe, Alone', Moves, OnePrincipalPerProof, SignInBounded
    PROVE  SignedIn' /\ OnePrincipalPerProof' /\ SignInBounded'
<1>0. /\ SignedIn /\ Interactive /\ ChallengesMove /\ ResultsMove /\ RequestsMove
  BY DEF Safe, Moves
<1>1. ASSUME NEW c \in ChallengeIds, principals'[c] = principals[c], Len(principals[c]) # 0
      PROVE  /\ Issued(c) /\ challenges[c].status = "CONSUMED"
             /\ challenges'[c] = challenges[c]
  BY <1>0, <1>1, ChallengesKept DEF SignedIn
<1>2. ASSUME NEW c \in ChallengeIds, Len(principals'[c]) # 0
      PROVE  Issued(c)' /\ challenges'[c].status = "CONSUMED"
  BY <1>1, <1>2, FirstPrincipal DEF Issued
<1>3. ASSUME NEW c \in ChallengeIds, Len(principals'[c]) # 0,
             challenges'[c].mode = "AUTHENTICATION"
      PROVE  results'[c] # NoResult /\ results'[c].consumed
  <2>1. CASE principals'[c] = principals[c]
    <3>1. results[c] # NoResult /\ results[c].consumed
      BY <1>0, <1>1, <1>3, <2>1 DEF SignedIn
    <3> QED
      BY <1>0, <1>1, <1>3, <2>1, <3>1 DEF ResultsMove
  <2>2. CASE principals'[c] # principals[c]
    BY <1>3, <2>2, FirstPrincipal
  <2> QED
    BY <2>1, <2>2
<1>4. ASSUME NEW c \in ChallengeIds, Len(principals'[c]) # 0,
             challenges'[c].mode # "AUTHENTICATION",
             NEW q \in RequestIds, requests'[q].interactive, requests'[q].challenge = c
      PROVE  requests'[q].stage \in Ended
  <2>1. CASE principals'[c] = principals[c]
    <3>1. requests[q].interactive /\ requests[q].challenge = c => requests[q].stage \in Ended
      BY <1>0, <1>1, <1>4, <2>1 DEF SignedIn
    <3>2. ~Begins(q)
      BY <1>1, <1>4, <2>1 DEF Begins
    <3> QED
      BY <1>0, <1>4, <3>1, <3>2 DEF RequestsMove, GoesOn
  <2>2. CASE principals'[c] # principals[c]
    <3>1. PICK r \in RequestIds :
            /\ requests'[r].challenge = c /\ requests'[r].interactive
            /\ requests'[r].stage \in Ended
      BY <1>4, <2>2, FirstPrincipal
    <3> QED
      BY <1>4, <3>1 DEF Alone
  <2> QED
    BY <2>1, <2>2
<1>5. SignedIn'
  BY <1>2, <1>3, <1>4 DEF SignedIn
<1>6. ASSUME NEW c \in ChallengeIds
      PROVE  Len(principals'[c]) <= 1
  <2>1. CASE principals'[c] = principals[c]
    BY <2>1 DEF OnePrincipalPerProof
  <2>2. CASE principals'[c] # principals[c]
    <3>1. PICK p \in Principal : principals'[c] = <<p>>
      BY <2>2, FirstPrincipal
    <3> QED
      BY <3>1
  <2> QED
    BY <2>1, <2>2
<1>7. OnePrincipalPerProof'
  BY <1>6 DEF OnePrincipalPerProof
<1>8. ASSUME NEW c \in ChallengeIds, Issued(c)', challenges'[c].mode = "AUTHENTICATION",
             NEW i \in 1 .. Len(principals'[c])
      PROVE  principals'[c][i].at < challenges'[c].expiresAt - 1 + ResultTTL
  <2>1. CASE principals'[c] = principals[c]
    <3>1. Len(principals[c]) # 0
      <4>1. principals[c] \in Seq(Principal)
        BY DEF TypeOK
      <4> QED
        BY <1>8, <2>1, <4>1
    <3> QED
      BY <1>1, <1>8, <2>1, <3>1 DEF SignInBounded
  <2>2. CASE principals'[c] # principals[c]
    <3>1. PICK p \in Principal : principals'[c] = <<p>> /\ p.at = clock
      BY <2>2, FirstPrincipal
    <3>2. i = 1
      BY <1>8, <3>1
    <3>3. /\ challenges'[c] = challenges[c]
          /\ clock < challenges[c].expiresAt - 1 + ResultTTL
      BY <1>8, <2>2, FirstPrincipal
    <3> QED
      BY <3>1, <3>2, <3>3
  <2> QED
    BY <2>1, <2>2
<1>9. SignInBounded'
  BY <1>8 DEF SignInBounded
<1> QED
  BY <1>5, <1>7, <1>9

\* Addresses change hands by registration alone, which looks for an owner first.
LEMMA OwnersStep ==
    ASSUME TypeOK, OneSubjectPerAddress, [Next]_vars
    PROVE  OneSubjectPerAddress'
<1>1. ASSUME \A s \in SubjectIds, email \in Emails : Owns(s, email)' => Owns(s, email)
      PROVE  OneSubjectPerAddress'
  BY <1>1 DEF OneSubjectPerAddress
<1>2. ASSUME NEW r \in RequestIds, CommitRegistration(r)
      PROVE  OneSubjectPerAddress'
  <2> DEFINE email == challenges[requests[r].challenge].email
  <2>1. PICK s \in SubjectIds :
          /\ Resolved(s, email)
          /\ subjects' = [subjects EXCEPT ![s] =
               IF Known(s) THEN @ ELSE NewSubject(requests[r].client, email)]
    BY <1>2 DEF CommitRegistration
  <2>2. CASE Known(s)
    <3>1. subjects' = subjects
      BY <2>1, <2>2 DEF TypeOK
    <3> QED
      BY <1>1, <3>1 DEF Owns, Known
  <2>3. CASE ~Known(s)
    <3>1. ~\E t \in SubjectIds : Owns(t, email)
      BY <2>1, <2>3 DEF Resolved, Owns
    <3>2. /\ subjects'[s] = NewSubject(requests[r].client, email)
          /\ \A t \in SubjectIds \ {s} : subjects'[t] = subjects[t]
      BY <2>1, <2>3 DEF TypeOK
    <3>3. subjects'[s].handle = email
      BY <3>2 DEF NewSubject
    <3>4. ASSUME NEW t \in SubjectIds, NEW u \in SubjectIds, NEW address \in Emails,
                 Owns(t, address)', Owns(u, address)'
          PROVE  t = u
      <4>1. CASE t # s /\ u # s
        BY <3>2, <3>4, <4>1 DEF OneSubjectPerAddress, Owns, Known
      <4>2. CASE t = s /\ u # s
        <5>1. address = subjects'[s].handle
          BY <3>4, <4>2 DEF Owns
        <5>2. Owns(u, address)
          BY <3>2, <3>4, <4>2 DEF Owns, Known
        <5> QED
          BY <3>1, <3>3, <5>1, <5>2
      <4>3. CASE t # s /\ u = s
        <5>1. address = subjects'[s].handle
          BY <3>4, <4>3 DEF Owns
        <5>2. Owns(t, address)
          BY <3>2, <3>4, <4>3 DEF Owns, Known
        <5> QED
          BY <3>1, <3>3, <5>1, <5>2
      <4> QED
        BY <4>1, <4>2, <4>3
    <3> QED
      BY <3>4 DEF OneSubjectPerAddress
  <2> QED
    BY <2>2, <2>3
<1>3. ASSUME NEW s \in SubjectIds, NEW record \in Subject,
             subjects' = [subjects EXCEPT ![s] = record],
             record.handle = NoEmail \/ record.provider # "HAPI_EMAIL"
               \/ (Known(s) /\ record.provider = subjects[s].provider
                             /\ record.handle = subjects[s].handle)
      PROVE  OneSubjectPerAddress'
  <2>1. /\ subjects'[s] = record
        /\ \A t \in SubjectIds \ {s} : subjects'[t] = subjects[t]
    BY <1>3 DEF TypeOK
  <2>2. \A email \in Emails : Owns(s, email)' => Owns(s, email)
    BY <1>3, <2>1, AbsenceAssumption DEF Owns
  <2>3. \A t \in SubjectIds \ {s}, email \in Emails : Owns(t, email)' => Owns(t, email)
    BY <2>1 DEF Owns, Known
  <2> QED
    BY <1>1, <2>2, <2>3
<1>4. ASSUME NEW s \in SubjectIds, Relink(s)
      PROVE  OneSubjectPerAddress'
  <2>1. subjects[s] \in Subject
    BY <1>4 DEF Relink, Known, TypeOK
  <2> DEFINE record == [subjects[s] EXCEPT !.handle = NoEmail]
  <2>2. record \in Subject /\ record.handle = NoEmail
    BY <2>1 DEF Subject
  <2>3. subjects' = [subjects EXCEPT ![s] = record]
    BY <1>4 DEF Relink
  <2> HIDE DEF record
  <2> QED
    BY <1>3, <2>2, <2>3
<1>5. ASSUME NEW s \in SubjectIds, CreateOther(s)
      PROVE  OneSubjectPerAddress'
  <2> DEFINE record == [application |-> NoApplication, provider |-> "PrivateID",
                        handle |-> NoEmail, email |-> NoEmail, emailVerified |-> FALSE,
                        status |-> "ACTIVE"]
  <2>1. record \in Subject /\ record.handle = NoEmail
    BY DEF Subject
  <2>2. subjects' = [subjects EXCEPT ![s] = record]
    BY <1>5 DEF CreateOther
  <2> HIDE DEF record
  <2> QED
    BY <1>3, <2>1, <2>2
<1>6. ASSUME NEW s \in SubjectIds, NEW email \in Emails \cup {NoEmail},
             NEW verified \in BOOLEAN, NEW status \in {"ACTIVE", "DISABLED"},
             Update(s, email, verified, status)
      PROVE  OneSubjectPerAddress'
  <2> DEFINE record == [subjects[s] EXCEPT !.email = email, !.emailVerified = verified,
                                           !.status = status]
  <2>1. subjects[s] \in Subject /\ Known(s)
    BY <1>6 DEF Update, Known, TypeOK
  <2>2. /\ record \in Subject
        /\ record.provider = subjects[s].provider /\ record.handle = subjects[s].handle
    BY <2>1 DEF Subject
  <2>3. subjects' = [subjects EXCEPT ![s] = record]
    BY <1>6 DEF Update
  <2> HIDE DEF record
  <2> QED
    BY <1>3, <2>1, <2>2, <2>3
<1>7. CASE UNCHANGED subjects
  BY <1>1, <1>7 DEF Owns, Known
<1>8. ASSUME NEW r \in RequestIds, Handler(r), ~CommitRegistration(r)
      PROVE  UNCHANGED subjects
  BY <1>8 DEF Handler, BurnProof, Establish, CallComplete, CheckRegistration,
              FinishRegistration
<1>9. Arrival => UNCHANGED subjects
  BY DEF Arrival, Resend, Abandon, Start, Prove, PostComplete, ConsumeResult
<1> QED
  BY <1>2, <1>4, <1>5, <1>6, <1>7, <1>8, <1>9 DEF Next, TableChange, Crash, Tick, vars

-----------------------------------------------------------------------------
(* The invariant, and what follows from it.                                *)

\* In the initial states nothing has begun.
LEMMA InitInv == Init => SignInInv
<1> SUFFICES ASSUME Init PROVE SignInInv
  OBVIOUS
<1>1. TypeOK
  <2>1. requests \in [RequestIds -> Request]
    BY DEF Init, Request, Stages
  <2>2. principals \in [ChallengeIds -> Seq(Principal)]
    BY DEF Init
  <2> QED
    BY <2>1, <2>2, TimesAssumption DEF Init, TypeOK
<1>2. \A r \in RequestIds : requests[r].stage = "IDLE" /\ ~requests[r].interactive
  BY DEF Init
<1>3. \A c \in ChallengeIds : /\ ~Issued(c) /\ evidence[c] = NoSubject
                             /\ results[c] = NoResult /\ Len(principals[c]) = 0
  BY DEF Init, Issued
<1>4. \A s \in SubjectIds : ~Known(s)
  BY DEF Init, Known
<1>5. Begun /\ Registering /\ Interactive /\ Alone /\ OneHolder
  BY <1>2 DEF Begun, Registering, Interactive, Alone, OneHolder
<1>6. Evidenced /\ Resulting /\ SignedIn
  BY <1>3 DEF Evidenced, Resulting, SignedIn
<1>7. OnePrincipalPerProof /\ SignInBounded
  BY <1>3 DEF OnePrincipalPerProof, SignInBounded
<1>8. OneSubjectPerAddress
  BY <1>4 DEF OneSubjectPerAddress, Owns
<1> QED
  BY <1>1, <1>5, <1>6, <1>7, <1>8 DEF SignInInv, Safe

\* Every step keeps it.
LEMMA StepInv == SignInInv /\ [Next]_vars => SignInInv'
<1> SUFFICES ASSUME SignInInv, [Next]_vars PROVE SignInInv'
  OBVIOUS
<1>1. TypeOK /\ Safe /\ Begun /\ Registering
  BY DEF SignInInv, Safe
<1>2. TypeOK' /\ Moves
  BY <1>1, StepTyped, StepMoves
<1>3. Begun' /\ Registering' /\ Interactive' /\ Alone' /\ OneHolder'
  BY <1>1, <1>2, RequestsStep
<1>4. Evidenced' /\ Resulting'
  BY <1>1, <1>2, RowsStep
<1>5. SignedIn' /\ OnePrincipalPerProof' /\ SignInBounded'
  BY <1>1, <1>2, <1>3, PrincipalsStep DEF SignInInv
<1>6. OneSubjectPerAddress'
  BY <1>1, OwnersStep DEF SignInInv
<1> QED
  BY <1>2, <1>3, <1>4, <1>5, <1>6 DEF SignInInv, Safe

\* It holds at all times.
LEMMA SignInInvHolds == Spec => []SignInInv
BY InitInv, StepInv, PTL DEF Spec

\* The variables of H3 and H4 keep their types.
THEOREM TypeCorrect == Spec => []TypeOK
<1>1. SignInInv => TypeOK
  BY DEF SignInInv
<1> QED
  BY <1>1, SignInInvHolds, PTL

\* One proof of an address signs in at most once.
THEOREM OnePrincipalPerProofHolds == Spec => []OnePrincipalPerProof
<1>1. SignInInv => OnePrincipalPerProof
  BY DEF SignInInv
<1> QED
  BY <1>1, SignInInvHolds, PTL

\* A registration's proof is consumed exactly when it left evidence.
THEOREM EvidenceMatchesConsumptionHolds == Spec => []EvidenceMatchesConsumption
<1>1. ASSUME SignInInv, NEW c \in ChallengeIds, Issued(c)
      PROVE  challenges[c].mode \in Modes
  BY <1>1 DEF SignInInv, TypeOK, Challenge, Issued
<1>2. SignInInv => EvidenceMatchesConsumption
  BY <1>1, PurposeOfMode DEF SignInInv, Safe, Evidenced, EvidenceMatchesConsumption
<1> QED
  BY <1>2, SignInInvHolds, PTL

\* No address is owned by two subjects.
THEOREM OneSubjectPerAddressHolds == Spec => []OneSubjectPerAddress
<1>1. SignInInv => OneSubjectPerAddress
  BY DEF SignInInv
<1> QED
  BY <1>1, SignInInvHolds, PTL

\* A sign-in comes within the lifetime of a result from a good challenge.
THEOREM SignInBoundedHolds == Spec => []SignInBounded
<1>1. SignInInv => SignInBounded
  BY DEF SignInInv
<1> QED
  BY <1>1, SignInInvHolds, PTL

\* Whoever proves an address signs in only as its owner at that moment.
THEOREM PrincipalsEligibleHolds == Spec => PrincipalsEligible
<1>1. ASSUME SignInInv, [Next]_vars, NEW c \in ChallengeIds, SignedInNow(c)
      PROVE  Eligible(Newest(c).subject, challenges[c].email)
  <2>1. PrincipalsMove
    BY <1>1, StepMoves DEF SignInInv, Safe, Moves
  <2>2. PICK p \in Principal :
          /\ principals'[c] = Append(principals[c], p)
          /\ Eligible(p.subject, challenges[c].email)
    BY <1>1, <2>1 DEF PrincipalsMove, SignedInNow
  <2>3. principals[c] \in Seq(Principal)
    BY <1>1 DEF SignInInv, TypeOK
  <2>4. Newest(c) = p
    BY <2>2, <2>3, AppendProperties DEF Newest
  <2> QED
    BY <2>2, <2>4
<1>2. SignInInv /\ [Next]_vars
      => [\A c \in ChallengeIds : SignedInNow(c) =>
            Eligible(Newest(c).subject, challenges[c].email)]_vars
  BY <1>1
<1> QED
  BY <1>2, SignInInvHolds, PTL DEF Spec, PrincipalsEligible

=============================================================================
