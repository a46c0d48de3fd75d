---------------------------- MODULE FaceSetupProofs ----------------------------
(***************************************************************************)
(* Theorems about FaceSetup, for any interactions and any requests.         *)
(*                                                                         *)
(* A claim is exclusive because it is a compare-and-set: who claims has just *)
(* seen the interaction unclaimed, and nobody else saves over a claim.      *)
(***************************************************************************)
EXTENDS FaceSetup, TLAPS

Over == {"CONSUMED", "EXPIRED"}
Claiming == {"CALLING", "CONSENTING", "LAUNCHING", "SAVING"}
Consenting == {"CONSENTING", "LAUNCHING"}

\* What a request saves for an interaction, and what it has loaded.
SavesEmail(r) ==
    /\ r.snapshot.phase = "EMAIL" /\ r.snapshot.operation \in Operations
    /\ r.snapshot.email <=> r.snapshot.operation # "START"
    /\ \/ /\ r.next.phase = "EMAIL" /\ r.next.operation = "NONE"
          /\ r.snapshot.email => r.next.email
       \/ r.snapshot.operation = "VERIFY" /\ r.next.phase = "CONSENT"

Shape(r) ==
    /\ r.stage = "LOADED" => Takes(r.snapshot, r.kind)
    /\ r.stage = "CALLING" =>
          /\ r.snapshot.phase = "EMAIL" /\ r.snapshot.operation \in Operations
          /\ r.snapshot.email <=> r.snapshot.operation # "START"
    /\ r.stage = "SAVING" =>
          \/ SavesEmail(r)
          \/ r.snapshot.phase = "STARTING" /\ r.next.phase = "ENROLLING"
    /\ r.stage = "DECIDED" => r.snapshot.phase = "CONSENT"
    /\ r.stage \in Consenting => r.snapshot.phase = "STARTING"

\* The interaction of a request, and what has happened for it, fit the request's stage.
Fits(r) ==
    /\ store[r.handle].phase # "NEW"
    /\ r.stage \in Claiming => store[r.handle] = r.snapshot \/ store[r.handle].phase \in Over
    /\ r.stage = "CALLING" /\ r.snapshot.operation = "START" => challenges[r.handle] = 0
    /\ r.stage = "SAVING" /\ r.next.phase = "EMAIL" /\ ~r.next.email =>
          challenges[r.handle] = 0
    /\ r.stage \in Consenting => enrollments[r.handle] = "NONE"
    /\ r.stage = "SAVING" /\ r.next.phase = "ENROLLING" => enrollments[r.handle] # "NONE"
    /\ (r.stage = "LOADED" /\ r.kind = "callback") \/ r.stage = "RETURNED" =>
          enrollments[r.handle] # "NONE" /\ store[r.handle].phase \in {"ENROLLING"} \cup Over
    /\ r.stage = "FINISHING" /\ r.outcome = "success" =>
          /\ face /\ StatusOf(r.handle) \notin {"PENDING", "FAILED"}
          /\ store[r.handle].phase \notin {"EMAIL", "CONSENT"}

RequestGood(q) ==
    requests[q] \in RequestStates /\ (requests[q] # Idle =>
        Shape(requests[q]) /\ Fits(requests[q]))

\* Each effect of an interaction is still to come, or has happened once.
HandleGood(h) ==
    /\ store[h] \in Interactions \cup Ended
    /\ challenges[h] \in {0, 1}
    /\ enrollments[h] \in {"NONE", "PENDING", "COMPLETED", "FAILED", "EXPIRED"}
    /\ starts[h] = IF enrollments[h] = "NONE" THEN 0 ELSE 1
    /\ outcomes[h] \in Outcomes \cup {"NONE"}
    /\ store[h].phase = "NEW" => challenges[h] = 0
    /\ store[h].phase = "EMAIL" /\ ~store[h].email /\ store[h].operation = "NONE" =>
          challenges[h] = 0
    /\ store[h].phase \in {"NEW", "EMAIL", "CONSENT"} => enrollments[h] = "NONE"
    /\ store[h].phase = "ENROLLING" => enrollments[h] # "NONE"
    /\ outcomes[h] # "NONE" <=> store[h].phase = "CONSUMED"
    /\ outcomes[h] = "success" => face /\ StatusOf(h) \notin {"PENDING", "FAILED"}

\* Two requests never hold a claim to the same interaction.
Exclusive ==
    \A q, r \in Requests :
        /\ requests[q].stage \in Claiming /\ requests[r].stage \in Claiming
        /\ requests[q].handle = requests[r].handle
        => q = r

\* No enrollment is about to start for an interaction that has succeeded.
NoneAfterSuccess ==
    \A r \in Requests : requests[r].stage \in Consenting =>
        /\ outcomes[requests[r].handle] # "success"
        /\ \A q \in Requests : requests[q].stage = "FINISHING" /\ requests[q].outcome = "success"
              => requests[q].handle # requests[r].handle

\* The request that a waiting browser is kept for has the interaction's own snapshot.
Serves(q, h) == Works(q, h) /\ requests[q].snapshot = store[h]
Served == \A h \in Handles : Processing(h) => h \in abandoned \/ \E q \in Requests : Serves(q, h)

Domains ==
    /\ store = [h \in Handles |-> store[h]]
    /\ requests = [q \in Requests |-> requests[q]]
    /\ challenges = [h \in Handles |-> challenges[h]] /\ starts = [h \in Handles |-> starts[h]]
    /\ enrollments = [h \in Handles |-> enrollments[h]]
    /\ outcomes = [h \in Handles |-> outcomes[h]]
    /\ fresh \subseteq Handles /\ lapsed \subseteq Handles /\ abandoned \subseteq Handles
    /\ trusted \in BOOLEAN /\ consented \in BOOLEAN /\ face \in BOOLEAN
    /\ MaxChanges \in Nat /\ changes \in 0..MaxChanges

SetupInv ==
    /\ Domains /\ Exclusive /\ NoneAfterSuccess /\ Served
    /\ \A q \in Requests : RequestGood(q)
    /\ \A h \in Handles : HandleGood(h)

-----------------------------------------------------------------------------
(* Shapes of the records.                                                  *)

\* An interaction has a phase, the operation that is claimed, and whether its e-mail
\* challenge was started.
LEMMA InteractionShape ==
    ASSUME NEW i \in Interactions
    PROVE  /\ i = [phase |-> i.phase, operation |-> i.operation, email |-> i.email]
           /\ i.phase \in {"EMAIL", "CONSENT", "STARTING", "ENROLLING", "CANCELLED"}
           /\ i.operation \in Operations \cup {"NONE"} /\ i.email \in BOOLEAN
           /\ i.phase # "EMAIL" => i.operation = "NONE" /\ i.email = TRUE
           /\ i \notin Ended
<1>1. /\ i = [phase |-> i.phase, operation |-> i.operation, email |-> i.email]
      /\ i.phase \in {"EMAIL", "CONSENT", "STARTING", "ENROLLING", "CANCELLED"}
      /\ i.operation \in Operations \cup {"NONE"} /\ i.email \in BOOLEAN
      /\ i.phase # "EMAIL" => i.operation = "NONE" /\ i.email = TRUE
  BY DEF Interactions, Operations
<1>2. i \notin Ended
  BY <1>1 DEF Ended
<1> QED
  BY <1>1, <1>2

\* The interaction of a verified code.
LEMMA VerifiedShape ==
    ASSUME NEW i, NEW p, NEW o, NEW e, i = [phase |-> p, operation |-> o, email |-> e]
    PROVE  Verified(i) = [phase |-> "CONSENT", operation |-> "NONE", email |-> e]
<1>1. PICK j : j = [i EXCEPT !.operation = "NONE"]
  OBVIOUS
<1>2. j = [phase |-> p, operation |-> "NONE", email |-> e]
  BY <1>1
<1>3. [j EXCEPT !.phase = "CONSENT"] =
          [phase |-> "CONSENT", operation |-> "NONE", email |-> e]
  BY <1>2
<1>4. Verified(i) = [j EXCEPT !.phase = "CONSENT"]
  BY <1>1 DEF Verified
<1> QED
  BY <1>3, <1>4

\* The interaction once its challenge was started, or refused.
Started(i, f) == [i EXCEPT !.operation = "NONE", !.email = f]

\* Its parts: the phase it had, no operation, and the challenge it now has or has not.
LEMMA StartedShape ==
    ASSUME NEW i, NEW p, NEW o, NEW e, NEW f, i = [phase |-> p, operation |-> o, email |-> e]
    PROVE  Started(i, f) = [phase |-> p, operation |-> "NONE", email |-> f]
<1>1. PICK j : j = [i EXCEPT !.operation = "NONE"]
  OBVIOUS
<1>2. j = [phase |-> p, operation |-> "NONE", email |-> e]
  BY <1>1
<1>3. [j EXCEPT !.email = f] = [phase |-> p, operation |-> "NONE", email |-> f]
  BY <1>2
<1>4. Started(i, f) = [j EXCEPT !.email = f]
  BY <1>1 DEF Started
<1> QED
  BY <1>3, <1>4

\* Whatever has these parts is an interaction.
LEMMA InteractionMade ==
    /\ \A operation \in Operations \cup {"NONE"}, email \in BOOLEAN :
          [phase |-> "EMAIL", operation |-> operation, email |-> email] \in Interactions
    /\ \A phase \in {"CONSENT", "STARTING", "ENROLLING", "CANCELLED"} :
          [phase |-> phase, operation |-> "NONE", email |-> TRUE] \in Interactions
BY DEF Interactions, Operations

\* What has ended, or not begun, has its phase alone.
LEMMA EndedShape ==
    /\ \A i \in Ended : i.phase \in {"NEW"} \cup Over /\ i = [phase |-> i.phase]
    /\ \A phase \in {"NEW"} \cup Over : [phase |-> phase] \in Ended
BY DEF Ended, Over

\* A request that is being served works on a handle over a snapshot.
LEMMA RequestTyped ==
    ASSUME NEW r \in RequestStates, r # Idle
    PROVE  /\ r.handle \in Handles /\ r.snapshot \in Interactions
           /\ r.stage \in {"LOADED", "DECIDED", "RETURNED", "FINISHING"} \cup Claiming
           /\ r.stage = "LOADED" =>
                r.kind \in Operations \cup {"agree", "not_now", "callback"}
           /\ r.stage = "SAVING" => r.next \in Interactions
           /\ r.stage = "FINISHING" => r.outcome \in Outcomes
BY DEF RequestStates, Claiming

\* The states that a request can be given.
LEMMA RequestMade ==
    ASSUME NEW h \in Handles, NEW i \in Interactions
    PROVE  /\ Idle \in RequestStates
           /\ \A kind \in Operations \cup {"agree", "not_now", "callback"} :
                [stage |-> "LOADED", kind |-> kind, handle |-> h, snapshot |-> i]
                    \in RequestStates
           /\ \A stage \in {"CALLING", "DECIDED", "CONSENTING", "LAUNCHING", "RETURNED"} :
                [stage |-> stage, handle |-> h, snapshot |-> i] \in RequestStates
           /\ \A next \in Interactions :
                [stage |-> "SAVING", handle |-> h, snapshot |-> i, next |-> next]
                    \in RequestStates
           /\ \A outcome \in Outcomes :
                [stage |-> "FINISHING", handle |-> h, snapshot |-> i, outcome |-> outcome]
                    \in RequestStates
BY DEF RequestStates

-----------------------------------------------------------------------------
(* What a step leaves as it was.                                           *)

\* The ways in which the interaction of a handle goes on.
HandleMoves(h) ==
    /\ store[h].phase # "NEW" => store'[h].phase # "NEW"
    /\ store[h].phase \in {"ENROLLING"} \cup Over => store'[h].phase \in {"ENROLLING"} \cup Over
    /\ store[h].phase \notin {"NEW", "EMAIL", "CONSENT"} =>
          store'[h].phase \notin {"NEW", "EMAIL", "CONSENT"}
    /\ enrollments[h] # "NONE" => enrollments'[h] # "NONE"
    /\ StatusOf(h) \in {"COMPLETED", "EXPIRED"} => StatusOf(h)' \in {"COMPLETED", "EXPIRED"}
    /\ face => face'

\* What a request with a claim to the handle relies on.
Undisturbed(h) ==
    /\ store'[h] = store[h] \/ store'[h].phase \in Over
    /\ challenges'[h] = challenges[h]
    /\ enrollments'[h] = "NONE" <=> enrollments[h] = "NONE"

\* A request that does not move stays good.
LEMMA OthersGood ==
    ASSUME NEW r \in Requests, RequestGood(r), requests'[r] = requests[r],
           requests[r] # Idle => HandleMoves(requests[r].handle),
           requests[r].stage \in Claiming => Undisturbed(requests[r].handle),
           requests[r].stage = "FINISHING" /\ enrollments[requests[r].handle] = "NONE" =>
              enrollments'[requests[r].handle] = "NONE" \/ requests[r].outcome # "success",
           requests[r].stage = "FINISHING" =>
              enrollments[requests[r].handle] \in
                  {"NONE", "PENDING", "COMPLETED", "FAILED", "EXPIRED"}
    PROVE  RequestGood(r)'
<1> SUFFICES ASSUME requests[r] # Idle PROVE Shape(requests[r])' /\ Fits(requests[r])'
  BY DEF RequestGood, RequestStates, Interactions, Idle
<1> DEFINE h == requests[r].handle
<1>1. Shape(requests[r]) /\ Fits(requests[r]) /\ HandleMoves(h)
  BY DEF RequestGood
<1>2. Shape(requests[r])'
  BY <1>1 DEF Shape, SavesEmail, Takes
<1>3. store'[h].phase # "NEW"
  BY <1>1 DEF Fits, HandleMoves
<1>4. requests[r].stage \in Claiming =>
          (store'[h] = requests[r].snapshot \/ store'[h].phase \in Over)
  BY <1>1 DEF Fits, HandleMoves, Undisturbed, Over
<1>5. /\ requests[r].stage = "CALLING" /\ requests[r].snapshot.operation = "START" =>
            challenges'[h] = 0
      /\ requests[r].stage = "SAVING" /\ requests[r].next.phase = "EMAIL"
            /\ ~requests[r].next.email => challenges'[h] = 0
  BY <1>1 DEF Fits, Undisturbed, Claiming
<1>6. /\ requests[r].stage \in Consenting => enrollments'[h] = "NONE"
      /\ requests[r].stage = "SAVING" /\ requests[r].next.phase = "ENROLLING" =>
            enrollments'[h] # "NONE"
  BY <1>1 DEF Fits, Undisturbed, Claiming, Consenting
<1>7. (requests[r].stage = "LOADED" /\ requests[r].kind = "callback")
        \/ requests[r].stage = "RETURNED" =>
          enrollments'[h] # "NONE" /\ store'[h].phase \in {"ENROLLING"} \cup Over
  BY <1>1 DEF Fits, HandleMoves
<1>8. requests[r].stage = "FINISHING" /\ requests[r].outcome = "success" =>
          /\ face' /\ StatusOf(h)' \notin {"PENDING", "FAILED"}
          /\ store'[h].phase \notin {"EMAIL", "CONSENT"}
  <2>1. ASSUME requests[r].stage = "FINISHING", requests[r].outcome = "success"
        PROVE  face' /\ store'[h].phase \notin {"EMAIL", "CONSENT"}
    BY <1>1, <2>1 DEF Fits, HandleMoves
  <2>2. ASSUME requests[r].stage = "FINISHING", requests[r].outcome = "success"
        PROVE  StatusOf(h)' \notin {"PENDING", "FAILED"}
    BY <1>1, <2>2 DEF Fits, HandleMoves, StatusOf
  <2> QED
    BY <2>1, <2>2
<1> QED
  BY <1>2, <1>3, <1>4, <1>5, <1>6, <1>7, <1>8 DEF Fits, StatusOf

\* A request that is being served has a handle; what ended it, or did not begin, has none
\* of the stages that claim.
LEMMA RequestFacts ==
    ASSUME NEW q \in Requests, RequestGood(q), requests[q] # Idle
    PROVE  /\ requests[q].handle \in Handles /\ requests[q].snapshot \in Interactions
           /\ requests[q].stage \in {"LOADED", "DECIDED", "RETURNED", "FINISHING"} \cup Claiming
           /\ requests[q].stage = "LOADED" =>
                requests[q].kind \in Operations \cup {"agree", "not_now", "callback"}
           /\ requests[q].stage = "SAVING" => requests[q].next \in Interactions
           /\ requests[q].stage = "FINISHING" => requests[q].outcome \in Outcomes
           /\ Shape(requests[q]) /\ Fits(requests[q])
BY RequestTyped DEF RequestGood

\* Steps that move one request and leave all interactions alone.
LEMMA RequestOnly ==
    ASSUME SetupInv, NEW q \in Requests,
           requests' = [requests EXCEPT ![q] = requests'[q]],
           UNCHANGED <<store, face, challenges, starts, enrollments, lapsed, outcomes>>,
           fresh' \subseteq Handles, abandoned' \subseteq Handles, abandoned \subseteq abandoned',
           trusted' = trusted, consented' \in BOOLEAN, changes' = changes,
           RequestGood(q)',
           requests'[q].stage \in Claiming =>
              requests[q].stage \in Claiming /\ requests'[q].handle = requests[q].handle,
           requests'[q].stage \in Consenting => requests[q].stage \in Consenting,
           requests'[q].stage = "FINISHING" /\ requests'[q].outcome = "success" =>
              \A r \in Requests \ {q} : requests[r].stage \in Consenting =>
                 requests[r].handle # requests'[q].handle,
           \A h \in Handles : Processing(h) /\ Serves(q, h) =>
              \/ h \in abandoned'
              \/ /\ requests'[q].stage \in {"FINISHING"} \cup Claiming
                 /\ requests'[q].handle = h /\ requests'[q].snapshot = requests[q].snapshot
    PROVE  SetupInv'
<1>1. /\ requests' = [r \in Requests |-> requests'[r]]
      /\ \A r \in Requests \ {q} : requests'[r] = requests[r]
  BY DEF SetupInv, Domains
<1>2. Domains'
  BY <1>1 DEF SetupInv, Domains
<1>3. \A r \in Requests : RequestGood(r)'
  <2> SUFFICES ASSUME NEW r \in Requests \ {q} PROVE RequestGood(r)'
    OBVIOUS
  <2>1. RequestGood(r) /\ requests'[r] = requests[r]
    BY <1>1 DEF SetupInv
  <2>2. Shape(requests[r])' <=> Shape(requests[r])
    BY <2>1 DEF Shape, SavesEmail, Takes
  <2>3. Fits(requests[r])' <=> Fits(requests[r])
    BY <2>1 DEF Fits, StatusOf
  <2> QED
    BY <2>1, <2>2, <2>3 DEF RequestGood, RequestStates, Interactions, Idle
<1>4. \A h \in Handles : HandleGood(h)'
  BY DEF SetupInv, HandleGood, Interactions, Ended, StatusOf
<1>5. Exclusive'
  BY <1>1 DEF SetupInv, Exclusive
<1>6. NoneAfterSuccess'
  <2> SUFFICES ASSUME NEW r \in Requests, requests'[r].stage \in Consenting
               PROVE  /\ outcomes'[requests'[r].handle] # "success"
                      /\ \A p \in Requests :
                            requests'[p].stage = "FINISHING" /\ requests'[p].outcome = "success"
                              => requests'[p].handle # requests'[r].handle
    BY DEF NoneAfterSuccess
  <2>1. requests[r].stage \in Consenting /\ requests'[r].handle = requests[r].handle
    BY <1>1 DEF Consenting, Claiming
  <2>2. ASSUME NEW p \in Requests, requests'[p].stage = "FINISHING",
               requests'[p].outcome = "success"
        PROVE  requests'[p].handle # requests'[r].handle
    <3>1. CASE p = q
      <4>1. r # q
        BY <2>2, <3>1 DEF Consenting
      <4> QED
        BY <2>1, <2>2, <3>1, <4>1
    <3>2. CASE p # q
      BY <1>1, <2>1, <2>2, <3>2 DEF SetupInv, NoneAfterSuccess
    <3> QED
      BY <3>1, <3>2
  <2> QED
    BY <2>1, <2>2 DEF SetupInv, NoneAfterSuccess
<1>7. Served'
  <2> SUFFICES ASSUME NEW h \in Handles, Processing(h)', h \notin abandoned'
               PROVE  \E r \in Requests : Serves(r, h)'
    BY DEF Served
  <2>1. Processing(h) /\ h \notin abandoned
    BY DEF Processing, Live, Ended
  <2>2. PICK r \in Requests : Serves(r, h)
    BY <2>1 DEF SetupInv, Served
  <2>3. CASE r = q
    <3>1. /\ requests'[q].stage \in {"FINISHING"} \cup Claiming
          /\ requests'[q].handle = h /\ requests'[q].snapshot = requests[q].snapshot
      BY <2>1, <2>2, <2>3
    <3>2. Serves(q, h)'
      BY <2>2, <2>3, <3>1 DEF Serves, Works, Claiming, Idle
    <3> QED
      BY <3>2
  <2>4. CASE r # q
    <3>1. Serves(r, h)'
      BY <1>1, <2>2, <2>4 DEF Serves, Works, Idle
    <3> QED
      BY <3>1
  <2> QED
    BY <2>3, <2>4
<1> QED
  BY <1>2, <1>3, <1>4, <1>5, <1>6, <1>7 DEF SetupInv

\* Steps of one request on its own interaction, with the outcome if it ends there.
LEMMA StoreMoved ==
    ASSUME SetupInv, NEW q \in Requests, NEW h \in Handles,
           requests' = [requests EXCEPT ![q] = requests'[q]],
           store' = [store EXCEPT ![h] = store'[h]],
           outcomes' = [outcomes EXCEPT ![h] = outcomes'[h]],
           UNCHANGED <<face, challenges, starts, enrollments, lapsed, consented, abandoned,
                       world>>,
           HandleMoves(h), HandleGood(h)', RequestGood(q)',
           \A r \in Requests \ {q} :
              requests[r].stage \in Claiming /\ requests[r].handle = h =>
                 store'[h].phase \in Over /\ requests'[q].stage \notin Claiming,
           requests'[q].stage \in Claiming => requests'[q].handle = h,
           requests'[q].stage = "FINISHING" => requests'[q].outcome # "success",
           requests'[q].stage \in Consenting =>
              store[h].phase = "CONSENT" /\ outcomes'[h] = "NONE",
           outcomes'[h] = "success" => outcomes[h] = "success" \/
              (requests[q].stage = "FINISHING" /\ requests[q].outcome = "success"
                 /\ requests[q].handle = h),
           Processing(h)' => Serves(q, h)',
           requests[q] # Idle => requests[q].handle = h
    PROVE  SetupInv'
<1>1. /\ requests' = [r \in Requests |-> requests'[r]]
      /\ \A r \in Requests \ {q} : requests'[r] = requests[r]
      /\ \A g \in Handles \ {h} : store'[g] = store[g] /\ outcomes'[g] = outcomes[g]
  BY DEF SetupInv, Domains
<1>2. Domains'
  BY <1>1 DEF SetupInv, Domains, world
<1>3. \A g \in Handles : HandleMoves(g)
  BY <1>1 DEF HandleMoves, StatusOf
<1>4. \A r \in Requests : RequestGood(r)'
  <2> SUFFICES ASSUME NEW r \in Requests \ {q} PROVE RequestGood(r)'
    OBVIOUS
  <2>1. RequestGood(r) /\ requests'[r] = requests[r]
    BY <1>1 DEF SetupInv
  <2>2. requests[r] # Idle =>
          /\ requests[r].handle \in Handles /\ HandleMoves(requests[r].handle)
          /\ enrollments[requests[r].handle] \in
                  {"NONE", "PENDING", "COMPLETED", "FAILED", "EXPIRED"}
    BY <1>3, <2>1, RequestFacts DEF SetupInv, HandleGood
  <2>3. requests[r].stage \in Claiming => requests[r] # Idle
    BY DEF Claiming, Idle
  <2>4. requests[r].stage \in Claiming => Undisturbed(requests[r].handle)
    BY <1>1, <2>2, <2>3 DEF Undisturbed
  <2>5. requests[r].stage = "FINISHING" => requests[r] # Idle
    BY DEF Idle
  <2> QED
    BY <2>1, <2>2, <2>4, <2>5, OthersGood
<1>5. \A g \in Handles : HandleGood(g)'
  <2> SUFFICES ASSUME NEW g \in Handles \ {h} PROVE HandleGood(g)'
    OBVIOUS
  <2>1. /\ store'[g] = store[g] /\ outcomes'[g] = outcomes[g] /\ challenges' = challenges
        /\ starts' = starts /\ enrollments' = enrollments /\ face' = face
    BY <1>1
  <2>2. HandleGood(g)
    BY DEF SetupInv
  <2> QED
    BY <2>1, <2>2 DEF HandleGood, StatusOf
<1>6. Exclusive'
  <2> SUFFICES ASSUME NEW p \in Requests, NEW r \in Requests,
                      requests'[p].stage \in Claiming, requests'[r].stage \in Claiming,
                      requests'[p].handle = requests'[r].handle
               PROVE  p = r
    BY DEF Exclusive
  <2>1. CASE p # q /\ r # q
    BY <1>1, <2>1 DEF SetupInv, Exclusive
  <2>2. CASE p = q /\ r # q
    BY <1>1, <2>2
  <2>3. CASE p # q /\ r = q
    BY <1>1, <2>3
  <2> QED
    BY <2>1, <2>2, <2>3
<1>7. NoneAfterSuccess'
  <2> SUFFICES ASSUME NEW r \in Requests, requests'[r].stage \in Consenting
               PROVE  /\ outcomes'[requests'[r].handle] # "success"
                      /\ \A p \in Requests :
                            requests'[p].stage = "FINISHING" /\ requests'[p].outcome = "success"
                              => requests'[p].handle # requests'[r].handle
    BY DEF NoneAfterSuccess
  <2>1. CASE r = q
    <3>1. requests'[q].handle = h /\ store[h].phase = "CONSENT" /\ outcomes'[h] = "NONE"
      BY <2>1 DEF Consenting, Claiming
    <3>2. ASSUME NEW p \in Requests, requests'[p].stage = "FINISHING",
                 requests'[p].outcome = "success"
          PROVE  requests'[p].handle # requests'[r].handle
      <4>1. p # q /\ requests'[p] = requests[p] /\ requests[p] # Idle
        BY <1>1, <3>2 DEF Idle
      <4>2. Fits(requests[p])
        BY <4>1, RequestFacts DEF SetupInv
      <4> QED
        BY <2>1, <3>1, <3>2, <4>1, <4>2 DEF Fits
    <3> QED
      BY <2>1, <3>1, <3>2
  <2>2. CASE r # q
    <3>1. requests'[r] = requests[r] /\ requests[r].stage \in Consenting
      BY <1>1, <2>2
    <3>2. requests[r] # Idle
      BY <3>1 DEF Consenting, Idle
    <3>3. requests[r].handle \in Handles
      BY <3>2, RequestFacts DEF SetupInv
    <3>4. outcomes[requests[r].handle] # "success"
      BY <3>1 DEF SetupInv, NoneAfterSuccess
    <3>5. ~(requests[q].stage = "FINISHING" /\ requests[q].outcome = "success"
                 /\ requests[q].handle = requests[r].handle)
      BY <3>1 DEF SetupInv, NoneAfterSuccess
    <3>6. outcomes'[requests[r].handle] # "success"
      BY <1>1, <3>3, <3>4, <3>5
    <3>7. ASSUME NEW p \in Requests, requests'[p].stage = "FINISHING",
                 requests'[p].outcome = "success"
          PROVE  requests'[p].handle # requests[r].handle
      <4>1. p # q /\ requests'[p] = requests[p]
        BY <1>1, <3>7
      <4> QED
        BY <3>1, <3>7, <4>1 DEF SetupInv, NoneAfterSuccess
    <3> QED
      BY <3>1, <3>6, <3>7
  <2> QED
    BY <2>1, <2>2
<1>8. Served'
  <2> SUFFICES ASSUME NEW g \in Handles, Processing(g)', g \notin abandoned'
               PROVE  \E r \in Requests : Serves(r, g)'
    BY DEF Served
  <2>1. CASE g = h
    BY <2>1
  <2>2. CASE g # h
    <3>1. Processing(g) /\ g \notin abandoned /\ store'[g] = store[g]
      BY <1>1, <2>2 DEF Processing, Live, Ended
    <3>2. PICK r \in Requests : Serves(r, g)
      BY <3>1 DEF SetupInv, Served
    <3>3. r # q
      BY <2>2, <3>2 DEF Serves, Works
    <3>4. Serves(r, g)'
      BY <1>1, <3>1, <3>2, <3>3 DEF Serves, Works, Idle
    <3> QED
      BY <3>4
  <2> QED
    BY <2>1, <2>2
<1> QED
  BY <1>2, <1>4, <1>5, <1>6, <1>7, <1>8 DEF SetupInv

\* Steps of the world, which move no request.
LEMMA WorldMoved ==
    ASSUME SetupInv, Domains', UNCHANGED <<requests, outcomes, abandoned>>,
           \A h \in Handles :
              /\ HandleMoves(h) /\ HandleGood(h)'
              /\ store[h].phase = "NEW" \/ Undisturbed(h)
              /\ Processing(h)' => store'[h] = store[h]
    PROVE  SetupInv'
<1>1. \A r \in Requests : RequestGood(r)'
  <2> SUFFICES ASSUME NEW r \in Requests PROVE RequestGood(r)'
    OBVIOUS
  <2>1. RequestGood(r) /\ requests'[r] = requests[r]
    BY DEF SetupInv
  <2>2. requests[r] # Idle =>
          /\ requests[r].handle \in Handles /\ HandleMoves(requests[r].handle)
          /\ Undisturbed(requests[r].handle)
          /\ enrollments[requests[r].handle] \in
                  {"NONE", "PENDING", "COMPLETED", "FAILED", "EXPIRED"}
    BY <2>1, RequestFacts DEF SetupInv, HandleGood, Fits
  <2>3. /\ requests[r].stage \in Claiming => requests[r] # Idle
        /\ requests[r].stage = "FINISHING" => requests[r] # Idle
    BY DEF Claiming, Idle
  <2>4. requests[r].stage = "FINISHING" /\ enrollments[requests[r].handle] = "NONE" =>
              enrollments'[requests[r].handle] = "NONE"
    BY <2>2, <2>3 DEF Undisturbed
  <2> QED
    BY <2>1, <2>2, <2>3, <2>4, OthersGood
<1>2. Exclusive' /\ NoneAfterSuccess'
  BY DEF SetupInv, Exclusive, NoneAfterSuccess
<1>3. Served'
  <2> SUFFICES ASSUME NEW h \in Handles, Processing(h)', h \notin abandoned'
               PROVE  \E r \in Requests : Serves(r, h)'
    BY DEF Served
  <2>1. store'[h] = store[h]
    OBVIOUS
  <2>2. Processing(h) /\ h \notin abandoned
    BY <2>1 DEF Processing, Live, Ended
  <2>3. PICK r \in Requests : Serves(r, h)
    BY <2>2 DEF SetupInv, Served
  <2>4. Serves(r, h)'
    BY <2>1, <2>3 DEF Serves, Works
  <2> QED
    BY <2>4
<1> QED
  BY <1>1, <1>2, <1>3 DEF SetupInv

\* Somebody records that the deadline of an enrollment has passed.
Expires(h) == enrollments[h] = "PENDING" /\ enrollments'[h] = "EXPIRED"

\* A request with a claim starts a challenge or an enrollment, and goes on to save that.
LEMMA EffectMoved ==
    ASSUME SetupInv, NEW q \in Requests, NEW h \in Handles,
           requests[q].stage \in Claiming, requests[q].handle = h,
           requests' = [requests EXCEPT ![q] = requests'[q]],
           requests'[q].stage = "SAVING", requests'[q].handle = h,
           requests'[q].snapshot = requests[q].snapshot,
           UNCHANGED <<store, face, outcomes, lapsed, fresh, trusted, consented, abandoned,
                       changes>>,
           challenges' = [challenges EXCEPT ![h] = challenges'[h]],
           starts' = [starts EXCEPT ![h] = starts'[h]],
           enrollments' = [g \in Handles |-> enrollments'[g]],
           \A g \in Handles \ {h} : enrollments'[g] = enrollments[g] \/ Expires(g),
           RequestGood(q)', HandleGood(h)', HandleMoves(h),
           enrollments'[h] # enrollments[h] => requests[q].stage \in Consenting
    PROVE  SetupInv'
<1>1. /\ requests' = [r \in Requests |-> requests'[r]]
      /\ \A r \in Requests \ {q} : requests'[r] = requests[r]
      /\ \A g \in Handles \ {h} : challenges'[g] = challenges[g] /\ starts'[g] = starts[g]
            /\ (enrollments'[g] = enrollments[g] \/ Expires(g))
  BY DEF SetupInv, Domains
<1>2. Domains'
  BY <1>1 DEF SetupInv, Domains
<1>3. \A g \in Handles : HandleMoves(g)
  BY <1>1 DEF HandleMoves, StatusOf, Expires
<1>4. \A r \in Requests : RequestGood(r)'
  <2> SUFFICES ASSUME NEW r \in Requests \ {q} PROVE RequestGood(r)'
    OBVIOUS
  <2>1. RequestGood(r) /\ requests'[r] = requests[r]
    BY <1>1 DEF SetupInv
  <2>2. requests[r] # Idle =>
          /\ requests[r].handle \in Handles /\ HandleMoves(requests[r].handle)
          /\ enrollments[requests[r].handle] \in
                  {"NONE", "PENDING", "COMPLETED", "FAILED", "EXPIRED"}
    BY <1>3, <2>1, RequestFacts DEF SetupInv, HandleGood
  <2>3. /\ requests[r].stage \in Claiming => requests[r] # Idle
        /\ requests[r].stage = "FINISHING" => requests[r] # Idle
    BY DEF Claiming, Idle
  <2>4. requests[r].stage \in Claiming => Undisturbed(requests[r].handle)
    <3> SUFFICES ASSUME requests[r].stage \in Claiming
                 PROVE  Undisturbed(requests[r].handle)
      OBVIOUS
    <3>1. requests[r].handle # h
      BY DEF SetupInv, Exclusive
    <3> QED
      BY <1>1, <2>2, <2>3, <3>1 DEF Undisturbed, Expires
  <2>5. requests[r].stage = "FINISHING" /\ enrollments[requests[r].handle] = "NONE" =>
            enrollments'[requests[r].handle] = "NONE" \/ requests[r].outcome # "success"
    <3> SUFFICES ASSUME requests[r].stage = "FINISHING", requests[r].outcome = "success",
                        enrollments[requests[r].handle] = "NONE"
                 PROVE  enrollments'[requests[r].handle] = "NONE"
      OBVIOUS
    <3>1. requests[q].stage \in Consenting => requests[r].handle # h
      BY DEF SetupInv, NoneAfterSuccess
    <3> QED
      BY <1>1, <2>2, <2>3, <3>1 DEF Expires
  <2> QED
    BY <2>1, <2>2, <2>3, <2>4, <2>5, OthersGood
<1>5. \A g \in Handles : HandleGood(g)'
  <2> SUFFICES ASSUME NEW g \in Handles \ {h} PROVE HandleGood(g)'
    OBVIOUS
  <2>1. /\ store' = store /\ outcomes' = outcomes /\ face' = face
        /\ challenges'[g] = challenges[g] /\ starts'[g] = starts[g] /\ lapsed' = lapsed
        /\ (enrollments'[g] = enrollments[g] \/ Expires(g))
    BY <1>1
  <2>2. HandleGood(g)
    BY DEF SetupInv
  <2> QED
    BY <2>1, <2>2 DEF HandleGood, StatusOf, Expires
<1>6. requests'[q].stage \in Claiming /\ requests'[q].stage \notin Consenting
      /\ requests'[q].stage # "FINISHING"
  BY DEF Claiming, Consenting
<1>7. Exclusive'
  BY <1>1, <1>6 DEF SetupInv, Exclusive
<1>8. NoneAfterSuccess'
  <2> SUFFICES ASSUME NEW r \in Requests, requests'[r].stage \in Consenting
               PROVE  /\ outcomes'[requests'[r].handle] # "success"
                      /\ \A p \in Requests :
                            requests'[p].stage = "FINISHING" /\ requests'[p].outcome = "success"
                              => requests'[p].handle # requests'[r].handle
    BY DEF NoneAfterSuccess
  <2>1. r # q /\ requests'[r] = requests[r]
    BY <1>1, <1>6
  <2>2. ASSUME NEW p \in Requests, requests'[p].stage = "FINISHING"
        PROVE  requests'[p] = requests[p]
    BY <1>1, <1>6, <2>2
  <2> QED
    BY <2>1, <2>2 DEF SetupInv, NoneAfterSuccess
<1>9. Served'
  <2> SUFFICES ASSUME NEW g \in Handles, Processing(g)', g \notin abandoned'
               PROVE  \E r \in Requests : Serves(r, g)'
    BY DEF Served
  <2>1. Processing(g) /\ g \notin abandoned
    BY DEF Processing, Live, Ended
  <2>2. PICK r \in Requests : Serves(r, g)
    BY <2>1 DEF SetupInv, Served
  <2>3. CASE r = q
    <3>1. Serves(q, g)'
      BY <2>2, <2>3 DEF Serves, Works, Idle
    <3> QED
      BY <3>1
  <2>4. CASE r # q
    <3>1. Serves(r, g)'
      BY <1>1, <2>2, <2>4 DEF Serves, Works, Idle
    <3> QED
      BY <3>1
  <2> QED
    BY <2>3, <2>4
<1> QED
  BY <1>2, <1>4, <1>5, <1>7, <1>8, <1>9 DEF SetupInv

-----------------------------------------------------------------------------
(* One lemma for each operation.                                           *)

\* A request answers and leaves no claim of its own, unless it is abandoned.
LEMMA GivesUp ==
    ASSUME SetupInv, NEW q \in Requests, Answered(q),
           UNCHANGED <<store, H5, challenges, outcomes, world>>,
           abandoned' \subseteq Handles, abandoned \subseteq abandoned',
           \A h \in Handles : Processing(h) /\ Serves(q, h) => h \in abandoned'
    PROVE  SetupInv'
<1>1. requests' = [requests EXCEPT ![q] = Idle] /\ requests'[q] = Idle
  BY DEF Answered, SetupInv, Domains
<1>2. requests' = [requests EXCEPT ![q] = requests'[q]]
  BY <1>1
<1>3. RequestGood(q)'
  BY <1>1 DEF RequestGood, RequestStates, Idle
<1>4. /\ requests'[q].stage \notin Claiming /\ requests'[q].stage \notin Consenting
      /\ requests'[q].stage # "FINISHING"
  BY <1>1 DEF Idle, Claiming, Consenting
<1>5. fresh' \subseteq Handles /\ consented' \in BOOLEAN
  BY DEF H5, world, SetupInv, Domains
<1> QED
  BY <1>2, <1>3, <1>4, <1>5, RequestOnly DEF H5, world

\* The state Init is good.
LEMMA InitGood == ASSUME MaxChanges \in Nat, Init PROVE SetupInv
<1> USE DEF Init
<1>1. Domains
  <2>1. /\ fresh \subseteq Handles /\ abandoned \subseteq Handles
        /\ trusted \in BOOLEAN /\ consented \in BOOLEAN /\ face \in BOOLEAN
    OBVIOUS
  <2>2. changes \in 0..MaxChanges
    OBVIOUS
  <2>3. /\ store = [h \in Handles |-> store[h]]
        /\ requests = [q \in Requests |-> requests[q]]
    OBVIOUS
  <2>4. /\ challenges = [h \in Handles |-> challenges[h]]
        /\ starts = [h \in Handles |-> starts[h]]
        /\ enrollments = [h \in Handles |-> enrollments[h]]
        /\ outcomes = [h \in Handles |-> outcomes[h]]
    OBVIOUS
  <2> QED
    BY <2>1, <2>2, <2>3, <2>4 DEF Domains
<1>2. \A q \in Requests : requests[q] = Idle
  OBVIOUS
<1>3. Exclusive /\ NoneAfterSuccess
  BY <1>2 DEF Exclusive, NoneAfterSuccess, Claiming, Consenting, Idle
<1>4. Served
  BY DEF Served, Processing, Live, Ended
<1>5. \A q \in Requests : RequestGood(q)
  BY <1>2 DEF RequestGood, RequestStates
<1>6. \A h \in Handles : HandleGood(h)
  <2> SUFFICES ASSUME NEW h \in Handles PROVE HandleGood(h)
    OBVIOUS
  <2>1. store[h] = [phase |-> "NEW"] /\ store[h] \in Ended
    BY DEF Ended
  <2> QED
    BY <2>1 DEF HandleGood
<1> QED
  BY <1>1, <1>3, <1>4, <1>5, <1>6 DEF SetupInv

\* Creation and the deadline of an interaction, and the world around it.
LEMMA CreateGood ==
    ASSUME SetupInv, NEW h \in Handles, Create(h)
    PROVE  SetupInv'
<1>1. /\ store[h].phase = "NEW" /\ store' = [store EXCEPT ![h] = Created]
      /\ UNCHANGED <<requests, consented, face, starts, enrollments, lapsed, challenges, outcomes,
                     abandoned, fresh, trusted, changes>>
  BY DEF Create, H5, world
<1>2. Domains'
  BY <1>1 DEF SetupInv, Domains
<1>3. /\ store'[h] = Created /\ Created \in Interactions
      /\ \A g \in Handles \ {h} : store'[g] = store[g]
  BY <1>1, InteractionMade DEF SetupInv, Domains, Created
<1>4. /\ Created.phase = "EMAIL" /\ Created.operation = "NONE" /\ Created.email = FALSE
  BY DEF Created
<1>5. ASSUME NEW g \in Handles
      PROVE  /\ HandleMoves(g) /\ HandleGood(g)'
             /\ store[g].phase = "NEW" \/ Undisturbed(g)
             /\ Processing(g)' => store'[g] = store[g]
  <2>1. HandleGood(g)
    BY DEF SetupInv
  <2>2. CASE g = h
    <3>1. HandleMoves(h)
      BY <1>1, <1>3, <1>4 DEF HandleMoves, Over, StatusOf
    <3>2. HandleGood(h)'
      BY <1>1, <1>3, <1>4, <2>1, <2>2 DEF HandleGood
    <3>3. ~Processing(h)'
      BY <1>3, <1>4 DEF Processing
    <3> QED
      BY <1>1, <2>2, <3>1, <3>2, <3>3
  <2>3. CASE g # h
    <3>1. store'[g] = store[g]
      BY <1>3, <2>3
    <3>2. HandleGood(g)' /\ HandleMoves(g) /\ Undisturbed(g)
      BY <1>1, <2>1, <3>1 DEF HandleGood, HandleMoves, Undisturbed, StatusOf
    <3> QED
      BY <3>1, <3>2
  <2> QED
    BY <2>2, <2>3
<1> QED
  BY <1>1, <1>2, <1>5, WorldMoved

\* Past its deadline an interaction is over, and no claim to it matters.
LEMMA ExpireGood ==
    ASSUME SetupInv, NEW h \in Handles, Expire(h)
    PROVE  SetupInv'
<1>1. /\ Live(h) /\ store' = [store EXCEPT ![h] = [phase |-> "EXPIRED"]]
      /\ UNCHANGED <<requests, consented, face, starts, enrollments, lapsed, challenges, outcomes,
                     abandoned, fresh, trusted, changes>>
  BY DEF Expire, H5, world
<1>2. Domains'
  BY <1>1 DEF SetupInv, Domains
<1>3. /\ store'[h] = [phase |-> "EXPIRED"] /\ store'[h] \in Ended
      /\ store'[h].phase = "EXPIRED"
      /\ \A g \in Handles \ {h} : store'[g] = store[g]
  BY <1>1 DEF SetupInv, Domains, Ended
<1>4. store[h].phase \notin {"NEW"} \cup Over
  BY <1>1, InteractionShape DEF SetupInv, HandleGood, Live, Over
<1>5. ASSUME NEW g \in Handles
      PROVE  /\ HandleMoves(g) /\ HandleGood(g)'
             /\ store[g].phase = "NEW" \/ Undisturbed(g)
             /\ Processing(g)' => store'[g] = store[g]
  <2>1. HandleGood(g)
    BY DEF SetupInv
  <2>2. CASE g = h
    <3>1. HandleMoves(h) /\ Undisturbed(h)
      BY <1>1, <1>3 DEF HandleMoves, Undisturbed, Over, StatusOf
    <3>2. HandleGood(h)'
      BY <1>1, <1>3, <1>4, <2>1, <2>2 DEF HandleGood, Over
    <3>3. ~Processing(h)'
      BY <1>3 DEF Processing, Live
    <3> QED
      BY <2>2, <3>1, <3>2, <3>3
  <2>3. CASE g # h
    <3>1. store'[g] = store[g]
      BY <1>3, <2>3
    <3>2. HandleGood(g)' /\ HandleMoves(g) /\ Undisturbed(g)
      BY <1>1, <2>1, <3>1 DEF HandleGood, HandleMoves, Undisturbed, StatusOf
    <3> QED
      BY <3>1, <3>2
  <2> QED
    BY <2>2, <2>3
<1> QED
  BY <1>1, <1>2, <1>5, WorldMoved

\* An enrollment ends, or something changes outside the ceremony.
LEMMA WorldGood ==
    ASSUME SetupInv,
           \/ \E h \in Handles : EnrollmentEnds(h) \/ EnrollmentLapses(h) \/ Stale(h)
           \/ Distrust \/ FaceElsewhere
    PROVE  SetupInv'
<1>1. UNCHANGED <<store, requests, starts, challenges, outcomes, abandoned>>
  BY DEF EnrollmentEnds, EnrollmentLapses, Stale, Distrust, FaceElsewhere, H5, world
<1>2. Domains'
  <2>1. ASSUME NEW h \in Handles, EnrollmentEnds(h) PROVE Domains'
    BY <2>1 DEF EnrollmentEnds, SetupInv, Domains, world
  <2>2. ASSUME NEW h \in Handles, Stale(h) PROVE Domains'
    BY <2>2 DEF Stale, SetupInv, Domains, H5
  <2>3. CASE Distrust
    <3>1. MaxChanges \in Nat /\ changes' \in 0..MaxChanges
      BY <2>3 DEF Distrust, Change, SetupInv, Domains
    <3>2. trusted' \in BOOLEAN
      BY <2>3 DEF Distrust
    <3>3. UNCHANGED <<store, requests, consented, face, starts, enrollments, lapsed, challenges,
                      outcomes, abandoned, fresh>>
      BY <2>3 DEF Distrust, H5
    <3> QED
      BY <3>1, <3>2, <3>3 DEF SetupInv, Domains
  <2>4. CASE FaceElsewhere
    BY <2>4 DEF FaceElsewhere, Change, SetupInv, Domains
  <2>5. ASSUME NEW h \in Handles, EnrollmentLapses(h) PROVE Domains'
    BY <2>5 DEF EnrollmentLapses, SetupInv, Domains, world
  <2> QED
    BY <2>1, <2>2, <2>3, <2>4, <2>5
<1>3. (face => face') /\ lapsed \subseteq lapsed'
  <2>1. ASSUME NEW h \in Handles, EnrollmentEnds(h)
        PROVE  (face => face') /\ lapsed \subseteq lapsed'
    BY <2>1 DEF EnrollmentEnds, SetupInv, Domains
  <2>2. ASSUME NEW h \in Handles, EnrollmentLapses(h) \/ Stale(h)
        PROVE  (face => face') /\ lapsed \subseteq lapsed'
    BY <2>2 DEF EnrollmentLapses, Stale, H5
  <2>3. CASE Distrust \/ FaceElsewhere
    BY <2>3 DEF Distrust, FaceElsewhere, H5
  <2> QED
    BY <2>1, <2>2, <2>3
<1>4. ASSUME NEW g \in Handles
      PROVE  \/ enrollments'[g] = enrollments[g]
             \/ /\ enrollments[g] = "PENDING"
                /\ enrollments'[g] \in {"COMPLETED", "FAILED", "EXPIRED"}
                /\ g \in lapsed => enrollments'[g] = "EXPIRED"
  <2>1. ASSUME NEW h \in Handles, EnrollmentEnds(h)
        PROVE  \/ enrollments'[g] = enrollments[g]
               \/ /\ enrollments[g] = "PENDING"
                  /\ enrollments'[g] \in {"COMPLETED", "FAILED", "EXPIRED"}
                  /\ g \in lapsed => enrollments'[g] = "EXPIRED"
    <3>1. enrollments[h] = "PENDING" /\ \E end \in {"COMPLETED", "FAILED", "EXPIRED"} :
              /\ h \in lapsed => end = "EXPIRED"
              /\ enrollments' = [enrollments EXCEPT ![h] = end]
      BY <2>1 DEF EnrollmentEnds
    <3> QED
      BY <3>1 DEF SetupInv, Domains
  <2> QED
    BY <2>1 DEF EnrollmentLapses, Stale, Distrust, FaceElsewhere, H5
<1>5. ASSUME NEW g \in Handles
      PROVE  /\ HandleMoves(g) /\ HandleGood(g)'
             /\ store[g].phase = "NEW" \/ Undisturbed(g)
             /\ Processing(g)' => store'[g] = store[g]
  <2>1. HandleGood(g) /\ store'[g] = store[g]
    BY <1>1 DEF SetupInv
  <2>2. HandleMoves(g) /\ Undisturbed(g)
    BY <1>1, <1>3, <1>4, <2>1 DEF HandleMoves, Undisturbed, StatusOf
  <2>3. HandleGood(g)'
    <3>1. CASE enrollments'[g] = enrollments[g]
      BY <1>1, <1>3, <2>1, <3>1 DEF HandleGood, StatusOf
    <3>2. CASE enrollments'[g] # enrollments[g]
      BY <1>1, <1>3, <1>4, <2>1, <3>2 DEF HandleGood, StatusOf
    <3> QED
      BY <3>1, <3>2
  <2> QED
    BY <2>1, <2>2, <2>3
<1> QED
  BY <1>1, <1>2, <1>5, WorldMoved

\* What holds of a request and its interaction, and how it moves.
LEMMA Serving ==
    ASSUME SetupInv, NEW q \in Requests, requests[q] # Idle
    PROVE  /\ requests[q].handle \in Handles /\ requests[q].snapshot \in Interactions
           /\ requests[q].stage \in {"LOADED", "DECIDED", "RETURNED", "FINISHING"} \cup Claiming
           /\ requests[q].stage = "LOADED" =>
                requests[q].kind \in Operations \cup {"agree", "not_now", "callback"}
           /\ requests[q].stage = "SAVING" => requests[q].next \in Interactions
           /\ requests[q].stage = "FINISHING" => requests[q].outcome \in Outcomes
           /\ Shape(requests[q]) /\ Fits(requests[q]) /\ HandleGood(requests[q].handle)
BY RequestFacts DEF SetupInv

\* The snapshot that a request compares is never that of an interaction that ended.
LEMMA MatchedLive ==
    ASSUME SetupInv, NEW q \in Requests, requests[q] # Idle, Matches(q)
    PROVE  /\ store[requests[q].handle] = requests[q].snapshot
           /\ store[requests[q].handle].phase \notin {"NEW"} \cup Over
           /\ outcomes[requests[q].handle] = "NONE"
BY Serving, InteractionShape DEF Matches, HandleGood, Over, Outcomes

\* A request with a matching snapshot and no claim finds no claim of another.
LEMMA NobodyClaims ==
    ASSUME SetupInv, NEW q \in Requests, requests[q] # Idle, Matches(q),
           requests[q].snapshot.operation = "NONE",
           requests[q].snapshot.phase \in {"EMAIL", "CONSENT"}
    PROVE  \A r \in Requests : requests[r].stage \in Claiming =>
              requests[r].handle # requests[q].handle
<1> SUFFICES ASSUME NEW r \in Requests, requests[r].stage \in Claiming,
                    requests[r].handle = requests[q].handle
             PROVE  FALSE
  OBVIOUS
<1>1. requests[r] # Idle
  BY DEF Claiming, Idle
<1>2. Shape(requests[r]) /\ Fits(requests[r])
  BY <1>1, Serving
<1>3. requests[r].snapshot = requests[q].snapshot
  BY <1>2, MatchedLive DEF Fits
<1> QED
  BY <1>2, <1>3 DEF Shape, SavesEmail, Claiming, Consenting, Operations

\* A request is good in its new state if that state is good over what is stored.
LEMMA GoodNow ==
    ASSUME NEW q \in Requests, NEW r \in RequestStates, requests'[q] = r,
           UNCHANGED <<store, challenges, enrollments, lapsed, face>>,
           r # Idle => Shape(r) /\ Fits(r)
    PROVE  RequestGood(q)'
<1>1. Shape(requests[q])' <=> Shape(r)
  BY DEF Shape, SavesEmail, Takes
<1>2. Fits(requests[q])' <=> Fits(r)
  BY DEF Fits, StatusOf
<1> QED
  BY <1>1, <1>2 DEF RequestGood

\* A submission is taken over the interaction as it is.
LEMMA LoadGood ==
    ASSUME SetupInv, NEW q \in Requests, NEW h \in Handles,
           NEW kind \in Operations \cup {"agree", "not_now", "callback"}, Load(q, h, kind)
    PROVE  SetupInv'
<1> DEFINE new == [stage |-> "LOADED", kind |-> kind, handle |-> h, snapshot |-> store[h]]
<1>1. /\ requests[q] = Idle /\ Live(h) /\ Takes(store[h], kind)
      /\ requests' = [requests EXCEPT ![q] = new] /\ requests'[q] = new
      /\ UNCHANGED <<store, consented, face, starts, enrollments, lapsed, challenges, outcomes,
                     abandoned, fresh, trusted, changes>>
  BY DEF Load, H5, world, SetupInv, Domains
<1>2. HandleGood(h) /\ store[h] \in Interactions
  BY <1>1 DEF SetupInv, HandleGood, Live
<1>3. new \in RequestStates
  BY <1>2, RequestMade
<1>4. Shape(new)
  BY <1>1, <1>2 DEF Shape, Consenting
<1>5. Fits(new)
  BY <1>1, <1>2, InteractionShape DEF Fits, Claiming, Consenting, Takes, HandleGood
<1>6. RequestGood(q)'
  <2>1. PICK r \in RequestStates : r = new
    BY <1>3
  <2>2. Shape(r) /\ Fits(r) /\ requests'[q] = r
    BY <1>1, <1>4, <1>5, <2>1
  <2> QED
    BY <1>1, <2>2, GoodNow
<1>7. /\ requests'[q].stage \notin Claiming /\ requests'[q].stage \notin Consenting
      /\ requests'[q].stage # "FINISHING"
  BY <1>1 DEF Claiming, Consenting
<1>8. \A g \in Handles : ~Serves(q, g)
  BY <1>1 DEF Serves, Works
<1>9. /\ requests' = [requests EXCEPT ![q] = requests'[q]]
      /\ fresh' \subseteq Handles /\ abandoned' \subseteq Handles /\ consented' \in BOOLEAN
  BY <1>1 DEF SetupInv, Domains
<1> QED
  BY <1>1, <1>6, <1>7, <1>8, <1>9, RequestOnly

\* Cancellation is taken in any phase.
LEMMA LoadCancelGood ==
    ASSUME SetupInv, NEW q \in Requests, NEW h \in Handles, LoadCancel(q, h)
    PROVE  SetupInv'
<1> DEFINE new == [stage |-> "FINISHING", handle |-> h, snapshot |-> store[h],
                   outcome |-> "cancelled"]
<1>1. /\ requests[q] = Idle /\ Live(h)
      /\ requests' = [requests EXCEPT ![q] = new] /\ requests'[q] = new
      /\ UNCHANGED <<store, consented, face, starts, enrollments, lapsed, challenges, outcomes,
                     abandoned, fresh, trusted, changes>>
  BY DEF LoadCancel, H5, world, SetupInv, Domains
<1>2. HandleGood(h) /\ store[h] \in Interactions
  BY <1>1 DEF SetupInv, HandleGood, Live
<1>3. new \in RequestStates
  BY <1>2, RequestMade DEF Outcomes
<1>4. Shape(new)
  BY DEF Shape, Consenting
<1>5. Fits(new)
  BY <1>2, InteractionShape DEF Fits, Claiming, Consenting
<1>6. RequestGood(q)'
  <2>1. PICK r \in RequestStates : r = new
    BY <1>3
  <2>2. Shape(r) /\ Fits(r) /\ requests'[q] = r
    BY <1>1, <1>4, <1>5, <2>1
  <2> QED
    BY <1>1, <2>2, GoodNow
<1>7. /\ requests'[q].stage \notin Claiming /\ requests'[q].stage \notin Consenting
      /\ requests'[q].outcome # "success"
  BY <1>1 DEF Claiming, Consenting
<1>8. \A g \in Handles : ~Serves(q, g)
  BY <1>1 DEF Serves, Works
<1>9. /\ requests' = [requests EXCEPT ![q] = requests'[q]]
      /\ fresh' \subseteq Handles /\ abandoned' \subseteq Handles /\ consented' \in BOOLEAN
  BY <1>1 DEF SetupInv, Domains
<1> QED
  BY <1>1, <1>6, <1>7, <1>8, <1>9, RequestOnly

\* A request dies, with the claim it may have.
LEMMA CrashGood ==
    ASSUME SetupInv, NEW q \in Requests, Crash(q)
    PROVE  SetupInv'
<1>1. /\ requests[q] # Idle /\ Answered(q)
      /\ abandoned' = IF Works(q, requests[q].handle)
                      THEN abandoned \cup {requests[q].handle} ELSE abandoned
      /\ UNCHANGED <<store, H5, challenges, outcomes, world>>
  BY DEF Crash
<1>2. requests[q].handle \in Handles
  BY <1>1, Serving
<1>3. \A h \in Handles : Serves(q, h) => h \in abandoned'
  BY <1>1 DEF Serves, Works
<1>4. abandoned' \subseteq Handles /\ abandoned \subseteq abandoned'
  BY <1>1, <1>2 DEF SetupInv, Domains
<1> QED
  BY <1>1, <1>3, <1>4, GivesUp

\* A request goes on to its next stage with the handle and the snapshot it has.
LEMMA Onward ==
    ASSUME SetupInv, NEW q \in Requests, requests[q] # Idle, NEW r \in RequestStates,
           requests' = [requests EXCEPT ![q] = r], r # Idle,
           r.handle = requests[q].handle, r.snapshot = requests[q].snapshot,
           UNCHANGED <<store, face, challenges, starts, enrollments, lapsed, outcomes, abandoned,
                       trusted, changes>>,
           fresh' \subseteq Handles, consented' \in BOOLEAN, Shape(r), Fits(r),
           requests[q].stage \in {"LOADED", "DECIDED", "RETURNED"} \cup Claiming,
           requests[q].stage \in Claiming => r.stage \in {"FINISHING"} \cup Claiming,
           r.stage \in Claiming => requests[q].stage \in Claiming,
           r.stage \in Consenting => requests[q].stage \in Consenting,
           r.stage = "FINISHING" /\ r.outcome = "success" =>
              \A p \in Requests \ {q} : requests[p].stage \in Consenting =>
                 requests[p].handle # requests[q].handle
    PROVE  SetupInv'
<1>1. requests'[q] = r /\ requests' = [requests EXCEPT ![q] = requests'[q]]
  BY DEF SetupInv, Domains
<1>2. RequestGood(q)'
  BY <1>1, GoodNow
<1>3. \A h \in Handles : Processing(h) /\ Serves(q, h) =>
          /\ requests'[q].stage \in {"FINISHING"} \cup Claiming
          /\ requests'[q].handle = h /\ requests'[q].snapshot = requests[q].snapshot
  BY <1>1 DEF Serves, Works, Claiming
<1>4. abandoned' \subseteq Handles /\ abandoned \subseteq abandoned'
  BY DEF SetupInv, Domains
<1>5. requests'[q].stage = "FINISHING" /\ requests'[q].outcome = "success" =>
          \A p \in Requests \ {q} : requests[p].stage \in Consenting =>
             requests[p].handle # requests'[q].handle
  BY <1>1
<1>6. /\ requests'[q].stage \in Claiming =>
            requests[q].stage \in Claiming /\ requests'[q].handle = requests[q].handle
      /\ requests'[q].stage \in Consenting => requests[q].stage \in Consenting
  BY <1>1
<1> QED
  BY <1>1, <1>2, <1>3, <1>4, <1>5, <1>6, RequestOnly

\* No other request is about to start an enrollment where this one has a claim.
LEMMA ClaimAlone ==
    ASSUME SetupInv, NEW q \in Requests, requests[q].stage \in Claiming
    PROVE  \A p \in Requests \ {q} : requests[p].stage \in Claiming =>
              requests[p].handle # requests[q].handle
BY DEF SetupInv, Exclusive

\* A refused address, resend or code: the claim is to be given back.
LEMMA EmailRefusedGood ==
    ASSUME SetupInv, NEW q \in Requests, EmailRefused(q)
    PROVE  SetupInv'
<1> DEFINE i == requests[q].snapshot
           h == requests[q].handle
           next == [phase |-> "EMAIL", operation |-> "NONE", email |-> i.email]
           new == [stage |-> "SAVING", handle |-> h, snapshot |-> i, next |-> next]
<1>1. requests[q].stage = "CALLING" /\ requests[q] # Idle
  BY DEF EmailRefused, Idle
<1>2. /\ h \in Handles /\ i \in Interactions /\ Shape(requests[q]) /\ Fits(requests[q])
  BY <1>1, Serving
<1>3. /\ i.phase = "EMAIL" /\ i.operation \in Operations /\ i.email \in BOOLEAN
      /\ i.email <=> i.operation # "START"
      /\ i = [phase |-> i.phase, operation |-> i.operation, email |-> i.email]
  BY <1>1, <1>2, InteractionShape DEF Shape
<1>4. [i EXCEPT !.operation = "NONE"] = next /\ next \in Interactions
  BY <1>3, InteractionMade
<1>5. PICK r \in RequestStates : r = new
  BY <1>2, <1>4, RequestMade
<1>6. /\ requests' = [requests EXCEPT ![q] = r]
      /\ UNCHANGED <<store, consented, face, starts, enrollments, lapsed, challenges, outcomes,
                     abandoned, fresh, trusted, changes>>
  BY <1>4, <1>5 DEF EmailRefused, Release, Saving, H5, world
<1>7. /\ r.stage = "SAVING" /\ r.handle = h /\ r.snapshot = i
      /\ r.next.phase = "EMAIL" /\ r.next.operation = "NONE" /\ r.next.email = i.email
  BY <1>5
<1>8. Shape(r)
  BY <1>3, <1>7 DEF Shape, SavesEmail, Consenting
<1>9. Fits(r)
  BY <1>1, <1>2, <1>3, <1>7 DEF Fits, Claiming, Consenting, Operations
<1>10. fresh' \subseteq Handles /\ consented' \in BOOLEAN /\ r # Idle
  BY <1>6, <1>7 DEF SetupInv, Domains, Idle
<1>11. r.stage \in Claiming /\ r.stage \notin Consenting /\ requests[q].stage \in Claiming
  BY <1>1, <1>7 DEF Claiming, Consenting
<1> QED
  BY <1>1, <1>6, <1>7, <1>8, <1>9, <1>10, <1>11, Onward

\* A verified code: consent is to be asked for.
LEMMA EmailVerifiedGood ==
    ASSUME SetupInv, NEW q \in Requests, EmailVerified(q)
    PROVE  SetupInv'
<1> DEFINE i == requests[q].snapshot
           h == requests[q].handle
<1>1. requests[q].stage = "CALLING" /\ requests[q] # Idle /\ i.operation = "VERIFY"
  BY DEF EmailVerified, Calling, Idle
<1>2. /\ h \in Handles /\ i \in Interactions /\ Shape(requests[q]) /\ Fits(requests[q])
  BY <1>1, Serving
<1>3. /\ i.phase = "EMAIL" /\ i.operation = "VERIFY" /\ i.email = TRUE
      /\ i = [phase |-> i.phase, operation |-> i.operation, email |-> i.email]
  BY <1>1, <1>2, InteractionShape DEF Shape
<1>4. /\ UNCHANGED <<store, consented, face, starts, enrollments, lapsed, challenges, outcomes,
                     abandoned, trusted, changes>>
      /\ fresh' \subseteq Handles /\ consented' \in BOOLEAN
  <2>1. UNCHANGED <<store, consented, face, starts, enrollments, lapsed, challenges, outcomes,
                    abandoned, trusted, changes>>
    BY DEF EmailVerified, H5
  <2>2. fresh' = fresh \cup {h} \/ fresh' = fresh
    <3>1. CASE trusted
      BY <3>1 DEF EmailVerified
    <3>2. CASE ~trusted
      BY <3>2 DEF EmailVerified
    <3> QED
      BY <3>1, <3>2
  <2>3. fresh' \subseteq Handles
    BY <1>2, <2>2 DEF SetupInv, Domains
  <2>4. consented' \in BOOLEAN
    BY <2>1 DEF SetupInv, Domains
  <2> QED
    BY <2>1, <2>3, <2>4
<1>5. requests[q].stage \in Claiming
  BY <1>1 DEF Claiming
<1>6. CASE trusted
  <2> DEFINE next == [phase |-> "CONSENT", operation |-> "NONE", email |-> TRUE]
  <2>1. Verified(i) = next /\ next \in Interactions
    <3>1. Verified(i) = [phase |-> "CONSENT", operation |-> "NONE", email |-> i.email]
      BY <1>3, VerifiedShape
    <3>2. Verified(i) = next
      BY <1>3, <3>1, Zenon
    <3>3. next \in Interactions
      BY InteractionMade
    <3> QED
      BY <3>2, <3>3
  <2>2. PICK r \in RequestStates :
            r = [stage |-> "SAVING", handle |-> h, snapshot |-> i, next |-> next]
    BY <1>2, <2>1, RequestMade
  <2>3. requests' = [requests EXCEPT ![q] = r]
    BY <1>6, <2>1, <2>2 DEF EmailVerified, Saving
  <2>4. /\ r.stage = "SAVING" /\ r.handle = h /\ r.snapshot = i /\ r.next.phase = "CONSENT"
        /\ r # Idle
    BY <2>2 DEF Idle
  <2>5. Shape(r)
    BY <1>3, <2>4 DEF Shape, SavesEmail, Consenting, Operations
  <2>7. Fits(r)
    BY <1>1, <1>2, <1>3, <2>4 DEF Fits, Claiming, Consenting
  <2>8. r.stage \in Claiming /\ r.stage \notin Consenting
    BY <2>4 DEF Claiming, Consenting
  <2> QED
    BY <1>1, <1>4, <1>5, <2>3, <2>4, <2>5, <2>7, <2>8, Onward
<1>7. CASE ~trusted
  <2>1. PICK r \in RequestStates :
            r = [stage |-> "FINISHING", handle |-> h, snapshot |-> i, outcome |-> "failed"]
    BY <1>2, RequestMade DEF Outcomes
  <2>2. requests' = [requests EXCEPT ![q] = r]
    BY <1>7, <2>1 DEF EmailVerified, Finishing
  <2>3. /\ r.stage = "FINISHING" /\ r.handle = h /\ r.snapshot = i /\ r.outcome # "success"
        /\ r # Idle
    BY <2>1 DEF Idle
  <2>4. Shape(r)
    BY <2>3 DEF Shape, Consenting
  <2>5. Fits(r)
    BY <1>2, <2>3 DEF Fits, Claiming, Consenting
  <2>6. r.stage \notin Claiming /\ r.stage \notin Consenting
    BY <2>3 DEF Claiming, Consenting
  <2> QED
    BY <1>1, <1>4, <1>5, <2>2, <2>3, <2>4, <2>5, <2>6, Onward
<1> QED
  BY <1>6, <1>7

\* Consent on record: the request goes on as if it had been given.
LEMMA DecideGood ==
    ASSUME SetupInv, NEW q \in Requests, Decide(q)
    PROVE  SetupInv'
<1> DEFINE h == requests[q].handle
<1>1. requests[q].stage = "DECIDED" /\ requests[q] # Idle
  BY DEF Decide, Idle
<1>2. /\ h \in Handles /\ requests[q].snapshot \in Interactions
      /\ requests[q].snapshot.phase = "CONSENT" /\ Fits(requests[q])
  BY <1>1, Serving DEF Shape
<1>3. UNCHANGED <<store, consented, face, starts, enrollments, lapsed, challenges, outcomes,
                  abandoned, fresh, trusted, changes>>
  BY DEF Decide, H5, world
<1>4. CASE consented
  <2>1. PICK r \in RequestStates : r = [stage |-> "LOADED", kind |-> "agree", handle |-> h,
                                        snapshot |-> requests[q].snapshot]
    BY <1>2, RequestMade
  <2>2. requests' = [requests EXCEPT ![q] = r]
    BY <1>4, <2>1 DEF Decide
  <2>3. /\ r.stage = "LOADED" /\ r.kind = "agree" /\ r.handle = h
        /\ r.snapshot = requests[q].snapshot /\ r # Idle
    BY <2>1 DEF Idle
  <2>4. Shape(r)
    BY <1>2, <2>3 DEF Shape, Takes, Consenting
  <2>5. Fits(r)
    BY <1>2, <2>3 DEF Fits, Claiming, Consenting
  <2>6. /\ r.stage \notin Claiming /\ r.stage \notin Consenting
        /\ requests[q].stage \notin Claiming
    BY <1>1, <2>3 DEF Claiming, Consenting
  <2>7. fresh' \subseteq Handles /\ consented' \in BOOLEAN
    BY <1>3 DEF SetupInv, Domains
  <2> QED
    BY <1>1, <1>3, <2>2, <2>3, <2>4, <2>5, <2>6, <2>7, Onward
<1>5. CASE ~consented
  <2>1. Answered(q)
    BY <1>5 DEF Decide
  <2>2. \A g \in Handles : ~Serves(q, g)
    BY <1>1 DEF Serves, Works
  <2>3. abandoned' \subseteq Handles /\ abandoned \subseteq abandoned'
    BY <1>3 DEF SetupInv, Domains
  <2> QED
    BY <1>3, <2>1, <2>2, <2>3, GivesUp DEF H5, world
<1> QED
  BY <1>4, <1>5

\* A request that fails goes on to tell the application so.
LEMMA FailsGood ==
    ASSUME SetupInv, NEW q \in Requests,
           requests[q].stage \in {"LOADED", "RETURNED"} \cup Claiming,
           Finishing(q, "failed"),
           UNCHANGED <<store, consented, face, starts, enrollments, lapsed, challenges, outcomes,
                       abandoned, fresh, trusted, changes>>
    PROVE  SetupInv'
<1>1. requests[q] # Idle
  BY DEF Idle, Claiming
<1>2. /\ requests[q].handle \in Handles /\ requests[q].snapshot \in Interactions
      /\ Fits(requests[q])
  BY <1>1, Serving
<1>3. PICK r \in RequestStates :
          r = [stage |-> "FINISHING", handle |-> requests[q].handle,
               snapshot |-> requests[q].snapshot, outcome |-> "failed"]
  BY <1>2, RequestMade DEF Outcomes
<1>4. requests' = [requests EXCEPT ![q] = r]
  BY <1>3 DEF Finishing
<1>5. /\ r.stage = "FINISHING" /\ r.handle = requests[q].handle
      /\ r.snapshot = requests[q].snapshot /\ r.outcome # "success" /\ r # Idle
  BY <1>3 DEF Idle
<1>6. Shape(r)
  BY <1>5 DEF Shape, Consenting
<1>7. Fits(r)
  BY <1>2, <1>5 DEF Fits, Claiming, Consenting
<1>8. r.stage \notin Claiming /\ r.stage \notin Consenting
  BY <1>5 DEF Claiming, Consenting
<1>9. fresh' \subseteq Handles /\ consented' \in BOOLEAN
  BY DEF SetupInv, Domains
<1> QED
  BY <1>1, <1>4, <1>5, <1>6, <1>7, <1>8, <1>9, Onward

\* A request that knows the face to be active goes on to tell the application so.
LEMMA SucceedsGood ==
    ASSUME SetupInv, NEW q \in Requests,
           requests[q].stage \in {"LOADED", "RETURNED"} \cup Claiming,
           Finishing(q, "success"), face,
           StatusOf(requests[q].handle) \notin {"PENDING", "FAILED"},
           store[requests[q].handle].phase \notin {"EMAIL", "CONSENT"},
           \A p \in Requests \ {q} : requests[p].stage \in Consenting =>
              requests[p].handle # requests[q].handle,
           UNCHANGED <<store, consented, face, starts, enrollments, lapsed, challenges, outcomes,
                       abandoned, fresh, trusted, changes>>
    PROVE  SetupInv'
<1>1. requests[q] # Idle
  BY DEF Idle, Claiming
<1>2. /\ requests[q].handle \in Handles /\ requests[q].snapshot \in Interactions
      /\ Fits(requests[q])
  BY <1>1, Serving
<1>3. PICK r \in RequestStates :
          r = [stage |-> "FINISHING", handle |-> requests[q].handle,
               snapshot |-> requests[q].snapshot, outcome |-> "success"]
  BY <1>2, RequestMade DEF Outcomes
<1>4. requests' = [requests EXCEPT ![q] = r]
  BY <1>3 DEF Finishing
<1>5. /\ r.stage = "FINISHING" /\ r.handle = requests[q].handle
      /\ r.snapshot = requests[q].snapshot /\ r # Idle
  BY <1>3 DEF Idle
<1>6. Shape(r)
  BY <1>5 DEF Shape, Consenting
<1>7. Fits(r)
  BY <1>2, <1>5 DEF Fits, Claiming, Consenting
<1>8. r.stage \notin Claiming /\ r.stage \notin Consenting
  BY <1>5 DEF Claiming, Consenting
<1>9. fresh' \subseteq Handles /\ consented' \in BOOLEAN
  BY DEF SetupInv, Domains
<1> QED
  BY <1>1, <1>4, <1>5, <1>6, <1>7, <1>8, <1>9, Onward

\* The consent of a claimed interaction is recorded, or refused.
LEMMA AcceptConsentGood ==
    ASSUME SetupInv, NEW q \in Requests, AcceptConsent(q)
    PROVE  SetupInv'
<1> DEFINE h == requests[q].handle
<1>1. requests[q].stage = "CONSENTING" /\ requests[q] # Idle
      /\ requests[q].stage \in Claiming /\ requests[q].stage \in Consenting
  BY DEF AcceptConsent, Idle, Claiming, Consenting
<1>2. UNCHANGED <<store, face, starts, enrollments, lapsed, challenges, outcomes, abandoned,
                  fresh, trusted, changes>>
  BY DEF AcceptConsent, world
<1>3. CASE To(q, "LAUNCHING") /\ consented' = TRUE
  <2>1. /\ h \in Handles /\ requests[q].snapshot \in Interactions
        /\ Shape(requests[q]) /\ Fits(requests[q])
    BY <1>1, Serving
  <2>2. PICK r \in RequestStates :
            r = [stage |-> "LAUNCHING", handle |-> h, snapshot |-> requests[q].snapshot]
    BY <2>1, RequestMade
  <2>3. requests' = [requests EXCEPT ![q] = r]
    BY <1>3, <2>2 DEF To
  <2>4. /\ r.stage = "LAUNCHING" /\ r.handle = h /\ r.snapshot = requests[q].snapshot
        /\ r # Idle
    BY <2>2 DEF Idle
  <2>5. Shape(r)
    BY <1>1, <2>1, <2>4 DEF Shape, Consenting
  <2>6. Fits(r)
    BY <1>1, <2>1, <2>4 DEF Fits, Claiming, Consenting
  <2>7. r.stage \in Claiming /\ r.stage # "FINISHING"
    BY <2>4 DEF Claiming
  <2>8. fresh' \subseteq Handles /\ consented' \in BOOLEAN
    <3>1. fresh' \subseteq Handles
      BY <1>2 DEF SetupInv, Domains
    <3>2. consented' \in BOOLEAN
      BY <1>3
    <3> QED
      BY <3>1, <3>2
  <2> QED
    BY <1>1, <1>2, <2>3, <2>4, <2>5, <2>6, <2>7, <2>8, Onward
<1>4. CASE Finishing(q, "failed") /\ UNCHANGED consented
  BY <1>1, <1>2, <1>4, FailsGood
<1> QED
  BY <1>3, <1>4 DEF AcceptConsent

\* GET /face-setup/callback: the browser is back.
LEMMA CallbackGood ==
    ASSUME SetupInv, NEW q \in Requests, Callback(q)
    PROVE  SetupInv'
<1> DEFINE h == requests[q].handle
<1>1. requests[q].stage = "LOADED" /\ requests[q].kind = "callback" /\ requests[q] # Idle
  BY DEF Callback, Idle
<1>2. UNCHANGED <<store, consented, face, starts, enrollments, lapsed, challenges, outcomes,
                  abandoned, fresh, trusted, changes>>
  BY DEF Callback, H5, world
<1>3. h \in Handles /\ requests[q].snapshot \in Interactions /\ Fits(requests[q])
  BY <1>1, Serving
<1>4. CASE To(q, "RETURNED")
  <2>1. PICK r \in RequestStates :
            r = [stage |-> "RETURNED", handle |-> h, snapshot |-> requests[q].snapshot]
    BY <1>3, RequestMade
  <2>2. requests' = [requests EXCEPT ![q] = r]
    BY <1>4, <2>1 DEF To
  <2>3. /\ r.stage = "RETURNED" /\ r.handle = h /\ r.snapshot = requests[q].snapshot
        /\ r # Idle
    BY <2>1 DEF Idle
  <2>4. Shape(r)
    BY <2>3 DEF Shape, Consenting
  <2>5. Fits(r)
    BY <1>1, <1>3, <2>3 DEF Fits, Claiming, Consenting
  <2>6. /\ r.stage \notin Claiming /\ r.stage \notin Consenting
        /\ requests[q].stage \notin Claiming
    BY <1>1, <2>3 DEF Claiming, Consenting
  <2>7. fresh' \subseteq Handles /\ consented' \in BOOLEAN
    BY <1>2 DEF SetupInv, Domains
  <2> QED
    BY <1>1, <1>2, <2>2, <2>3, <2>4, <2>5, <2>6, <2>7, Onward
<1>5. CASE Answered(q)
  <2>1. \A g \in Handles : ~Serves(q, g)
    BY <1>1 DEF Serves, Works
  <2>2. abandoned' \subseteq Handles /\ abandoned \subseteq abandoned'
    BY <1>2 DEF SetupInv, Domains
  <2> QED
    BY <1>2, <1>5, <2>1, <2>2, GivesUp DEF H5, world
<1> QED
  BY <1>4, <1>5 DEF Callback

\* What H5 knows of the enrollment decides.
LEMMA ResolveGood ==
    ASSUME SetupInv, NEW q \in Requests, Resolve(q)
    PROVE  SetupInv'
<1> DEFINE h == requests[q].handle
<1>1. requests[q].stage = "RETURNED" /\ requests[q] # Idle
  BY DEF Resolve, Idle
<1>2. UNCHANGED <<store, consented, face, starts, enrollments, lapsed, challenges, outcomes,
                  abandoned, fresh, trusted, changes>>
  BY DEF Resolve, H5, world
<1>3. h \in Handles /\ Fits(requests[q])
  BY <1>1, Serving
<1>4. CASE Answered(q)
  <2>1. \A g \in Handles : ~Serves(q, g)
    BY <1>1 DEF Serves, Works
  <2>2. abandoned' \subseteq Handles /\ abandoned \subseteq abandoned'
    BY <1>2 DEF SetupInv, Domains
  <2> QED
    BY <1>2, <1>4, <2>1, <2>2, GivesUp DEF H5, world
<1>5. CASE /\ ~(trusted /\ StatusOf(h) = "PENDING") /\ Succeeded(h)
           /\ Finishing(q, "success")
  <2>1. /\ enrollments[h] # "NONE" /\ store[h].phase \in {"ENROLLING"} \cup Over
    BY <1>1, <1>3 DEF Fits
  <2>2. \A p \in Requests \ {q} : requests[p].stage \in Consenting =>
            requests[p].handle # h
    <3> SUFFICES ASSUME NEW p \in Requests, requests[p].stage \in Consenting,
                        requests[p].handle = h
                 PROVE  FALSE
      OBVIOUS
    <3>1. requests[p] # Idle
      BY DEF Consenting, Idle
    <3>2. Fits(requests[p])
      BY <3>1, Serving
    <3> QED
      BY <2>1, <3>2 DEF Fits
  <2>3. face /\ StatusOf(h) \notin {"PENDING", "FAILED"}
    BY <1>5 DEF Succeeded
  <2>4. store[h].phase \notin {"EMAIL", "CONSENT"}
    BY <2>1 DEF Over
  <2> QED
    BY <1>1, <1>2, <1>5, <2>2, <2>3, <2>4, SucceedsGood
<1>6. CASE Finishing(q, "failed")
  BY <1>1, <1>2, <1>6, FailsGood
<1> QED
  BY <1>4, <1>5, <1>6 DEF Resolve

\* H4 starts the one challenge of an interaction.
LEMMA EmailStartedGood ==
    ASSUME SetupInv, NEW q \in Requests, EmailStarted(q)
    PROVE  SetupInv'
<1> DEFINE i == requests[q].snapshot
           next == [phase |-> "EMAIL", operation |-> "NONE", email |-> TRUE]
<1>1. /\ requests[q].stage = "CALLING" /\ requests[q] # Idle /\ i.operation = "START"
      /\ requests[q].stage \in Claiming
  BY DEF EmailStarted, Calling, Idle, Claiming
<1>0. PICK h \in Handles : h = requests[q].handle
  BY <1>1, Serving
<1>2. /\ h \in Handles /\ i \in Interactions /\ Shape(requests[q]) /\ Fits(requests[q])
      /\ HandleGood(h)
  BY <1>0, <1>1, Serving
<1>3. /\ i.phase = "EMAIL" /\ i.email = FALSE /\ challenges[h] = 0
      /\ store[h] = i \/ store[h].phase \in Over
      /\ store[h].phase # "NEW"
  BY <1>0, <1>1, <1>2, InteractionShape DEF Shape, Fits
<1>4. Started(i, TRUE) = next
  <2>1. i = [phase |-> "EMAIL", operation |-> i.operation, email |-> i.email]
    BY <1>2, <1>3, InteractionShape
  <2>2. PICK j, o, e : j = i /\ o = i.operation /\ e = i.email
    OBVIOUS
  <2>3. j = [phase |-> "EMAIL", operation |-> o, email |-> e]
    BY <2>1, <2>2
  <2>4. Started(j, TRUE) = next
    BY <2>3, StartedShape
  <2> QED
    BY <2>2, <2>4
<1>5. PICK r \in RequestStates :
          r = [stage |-> "SAVING", handle |-> h, snapshot |-> i, next |-> next]
  BY <1>2, InteractionMade, RequestMade
<1>6. /\ requests' = [requests EXCEPT ![q] = r]
      /\ challenges' = [challenges EXCEPT ![h] = challenges[h] + 1]
      /\ UNCHANGED <<store, consented, face, starts, enrollments, lapsed, outcomes,
                     abandoned, fresh, trusted, changes>>
  <2>1. Saving(q, next)
    BY <1>4 DEF EmailStarted, Started
  <2>2. requests' = [requests EXCEPT ![q] = r]
    BY <1>0, <1>5, <2>1 DEF Saving
  <2> QED
    BY <1>0, <2>2 DEF EmailStarted, H5, world
<1>7. /\ r.stage = "SAVING" /\ r.handle = h /\ r.snapshot = i
      /\ r.next.phase = "EMAIL" /\ r.next.operation = "NONE" /\ r.next.email = TRUE
      /\ r # Idle
  BY <1>5 DEF Idle
<1>8. /\ requests'[q] = r /\ challenges'[h] = 1
      /\ requests' = [requests EXCEPT ![q] = requests'[q]]
      /\ challenges' = [challenges EXCEPT ![h] = challenges'[h]]
      /\ starts' = [starts EXCEPT ![h] = starts'[h]]
      /\ enrollments' = [g \in Handles |-> enrollments'[g]]
  <2>1. requests'[q] = r /\ requests' = [requests EXCEPT ![q] = requests'[q]]
    BY <1>6 DEF SetupInv, Domains
  <2>2. challenges'[h] = challenges[h] + 1
        /\ challenges' = [challenges EXCEPT ![h] = challenges'[h]]
    BY <1>2, <1>6 DEF SetupInv, Domains
  <2>3. /\ starts' = [starts EXCEPT ![h] = starts'[h]]
        /\ enrollments' = [g \in Handles |-> enrollments'[g]]
    BY <1>2, <1>6 DEF SetupInv, Domains
  <2>4. challenges'[h] = 1
    BY <1>3, <2>2
  <2> QED
    BY <2>1, <2>2, <2>3, <2>4
<1>9. RequestGood(q)'
  <2>1. Shape(r)
    BY <1>1, <1>3, <1>7 DEF Shape, SavesEmail, Consenting, Operations
  <2>2. Shape(requests[q])' <=> Shape(r)
    BY <1>8 DEF Shape, SavesEmail, Takes
  <2>3. Fits(requests[q])'
    BY <1>3, <1>6, <1>7, <1>8 DEF Fits, Claiming, Consenting
  <2> QED
    BY <1>8, <2>1, <2>2, <2>3 DEF RequestGood
<1>10. HandleGood(h)'
  <2>1. store[h].phase # "NEW" /\ ~(store[h].phase = "EMAIL" /\ store[h].operation = "NONE")
    BY <1>1, <1>3 DEF Over
  <2>2. /\ store' = store /\ starts' = starts /\ enrollments' = enrollments /\ lapsed' = lapsed
        /\ outcomes' = outcomes /\ face' = face /\ challenges'[h] \in {0, 1}
    BY <1>6, <1>8
  <2> QED
    BY <1>2, <2>1, <2>2 DEF HandleGood, StatusOf
<1>11. HandleMoves(h)
  BY <1>6 DEF HandleMoves, StatusOf
<1>12. /\ requests'[q].stage = "SAVING" /\ requests'[q].handle = h
       /\ requests'[q].snapshot = requests[q].snapshot /\ enrollments'[h] = enrollments[h]
  BY <1>6, <1>7, <1>8
<1> QED
  BY <1>0, <1>1, <1>2, <1>6, <1>8, <1>9, <1>10, <1>11, <1>12, EffectMoved

\* H5 starts the one enrollment of an interaction, refuses it, or finds a face.
LEMMA StartEnrollmentGood ==
    ASSUME SetupInv, NEW q \in Requests, StartEnrollment(q)
    PROVE  SetupInv'
<1> DEFINE i == requests[q].snapshot
           next == [phase |-> "ENROLLING", operation |-> "NONE", email |-> TRUE]
<1>1. /\ requests[q].stage = "LAUNCHING" /\ requests[q] # Idle
      /\ requests[q].stage \in Claiming /\ requests[q].stage \in Consenting
  BY DEF StartEnrollment, Idle, Claiming, Consenting
<1>0. PICK h \in Handles : h = requests[q].handle
  BY <1>1, Serving
<1>2. /\ h \in Handles /\ i \in Interactions /\ Shape(requests[q]) /\ Fits(requests[q])
      /\ HandleGood(h)
  BY <1>0, <1>1, Serving
<1>3. /\ i.phase = "STARTING" /\ enrollments[h] = "NONE"
      /\ store[h] = i \/ store[h].phase \in Over
      /\ store[h].phase # "NEW"
  BY <1>0, <1>1, <1>2 DEF Shape, Fits
<1>4. UNCHANGED <<store, consented, face, lapsed, challenges, outcomes, abandoned, fresh,
                  trusted, changes>>
  BY DEF StartEnrollment, world
<1>5. CASE /\ starts' = [starts EXCEPT ![h] = @ + 1]
           /\ \A other \in Handles : StatusOf(other) # "PENDING"
           /\ enrollments' = Reserved(h)
           /\ Saving(q, [i EXCEPT !.phase = "ENROLLING"])
  <2>1. [i EXCEPT !.phase = "ENROLLING"] = next
    <3>1. i = [phase |-> "STARTING", operation |-> "NONE", email |-> i.email]
      BY <1>2, <1>3, InteractionShape
    <3>2. [i EXCEPT !.phase = "ENROLLING"] =
              [phase |-> "ENROLLING", operation |-> "NONE", email |-> i.email]
      BY <3>1
    <3>3. i.email = TRUE
      BY <1>2, <1>3, InteractionShape
    <3> QED
      BY <3>2, <3>3, Zenon
  <2>2. PICK r \in RequestStates :
            r = [stage |-> "SAVING", handle |-> h, snapshot |-> i, next |-> next]
    BY <1>2, InteractionMade, RequestMade
  <2>3. requests' = [requests EXCEPT ![q] = r]
    BY <1>0, <1>5, <2>1, <2>2 DEF Saving
  <2>4. /\ r.stage = "SAVING" /\ r.handle = h /\ r.snapshot = i
        /\ r.next.phase = "ENROLLING" /\ r # Idle
    BY <2>2 DEF Idle
  <2>5. /\ requests'[q] = r /\ enrollments'[h] = "PENDING" /\ starts'[h] = starts[h] + 1
        /\ requests' = [requests EXCEPT ![q] = requests'[q]]
        /\ challenges' = [challenges EXCEPT ![h] = challenges'[h]]
        /\ starts' = [starts EXCEPT ![h] = starts'[h]]
        /\ enrollments' = [g \in Handles |-> enrollments'[g]]
        /\ \A g \in Handles \ {h} : enrollments'[g] = enrollments[g] \/ Expires(g)
    BY <1>2, <1>4, <1>5, <2>3 DEF SetupInv, Domains, Reserved, Expires
  <2>6. RequestGood(q)'
    <3>1. Shape(r)
      BY <1>3, <2>4 DEF Shape, SavesEmail, Consenting
    <3>2. Shape(requests[q])' <=> Shape(r)
      BY <2>5 DEF Shape, SavesEmail, Takes
    <3>3. Fits(requests[q])'
      BY <1>3, <1>4, <2>4, <2>5 DEF Fits, Claiming, Consenting
    <3> QED
      BY <2>5, <3>1, <3>2, <3>3 DEF RequestGood
  <2>7. HandleGood(h)'
    <3>1. outcomes[h] # "success"
      BY <1>0, <1>1 DEF SetupInv, NoneAfterSuccess
    <3>2. store[h].phase \notin {"NEW", "EMAIL", "CONSENT"}
      BY <1>3 DEF Over
    <3>3. starts'[h] = 1
      BY <1>2, <1>3, <2>5 DEF HandleGood
    <3>4. /\ store' = store /\ challenges' = challenges /\ outcomes' = outcomes
          /\ face' = face /\ enrollments'[h] = "PENDING"
      BY <1>4, <2>5
    <3> QED
      BY <1>2, <3>1, <3>2, <3>3, <3>4 DEF HandleGood
  <2>8. HandleMoves(h)
    BY <1>3, <1>4, <2>5 DEF HandleMoves, StatusOf
  <2>9. /\ requests'[q].stage = "SAVING" /\ requests'[q].handle = h
        /\ requests'[q].snapshot = requests[q].snapshot
    BY <2>4, <2>5
  <2> QED
    BY <1>0, <1>1, <1>2, <1>4, <2>5, <2>6, <2>7, <2>8, <2>9, EffectMoved
<1>6. CASE Finishing(q, "failed") /\ UNCHANGED <<starts, enrollments>>
  BY <1>1, <1>4, <1>6, FailsGood
<1>7. CASE face /\ Finishing(q, "success") /\ UNCHANGED <<starts, enrollments>>
  <2>1. \A p \in Requests \ {q} : requests[p].stage \in Consenting =>
            requests[p].handle # h
    BY <1>0, <1>1, ClaimAlone DEF Consenting, Claiming
  <2>2. /\ store[h].phase \notin {"EMAIL", "CONSENT"}
        /\ StatusOf(h) \notin {"PENDING", "FAILED"}
    BY <1>3 DEF Over, StatusOf
  <2> QED
    BY <1>0, <1>1, <1>4, <1>7, <2>1, <2>2, SucceedsGood
<1> QED
  BY <1>0, <1>5, <1>6, <1>7 DEF StartEnrollment

\* A request whose snapshot is gone keeps nobody waiting.
LEMMA TurnedAwayGood ==
    ASSUME SetupInv, NEW q \in Requests, requests[q] # Idle, Answered(q),
           ~Matches(q) \/ requests[q].stage = "LOADED",
           UNCHANGED <<store, H5, challenges, outcomes, abandoned, world>>
    PROVE  SetupInv'
<1>1. \A h \in Handles : ~Serves(q, h)
  BY DEF Serves, Works, Matches
<1>2. abandoned' \subseteq Handles /\ abandoned \subseteq abandoned'
  BY DEF SetupInv, Domains
<1> QED
  BY <1>1, <1>2, GivesUp

\* How an interaction goes on under a save.
LEMMA SavedShape ==
    ASSUME SetupInv, NEW q \in Requests, requests[q].stage = "SAVING", Matches(q),
           NEW h \in Handles, h = requests[q].handle
    PROVE  /\ requests[q].next \in Interactions
           /\ store[h].phase \in {"EMAIL", "STARTING"} /\ outcomes[h] = "NONE"
           /\ store[h].phase = "STARTING" <=> requests[q].next.phase = "ENROLLING"
           /\ requests[q].next.phase \in {"EMAIL", "CONSENT", "ENROLLING"}
           /\ requests[q].next.operation = "NONE"
           /\ requests[q].next.phase = "EMAIL" /\ ~requests[q].next.email =>
                 challenges[h] = 0 /\ ~store[h].email
           /\ requests[q].next.phase = "ENROLLING" => enrollments[h] # "NONE"
<1>1. requests[q] # Idle
  BY DEF Idle
<1>2. /\ requests[q].next \in Interactions /\ Shape(requests[q]) /\ Fits(requests[q])
      /\ store[h] = requests[q].snapshot /\ outcomes[h] = "NONE"
  BY <1>1, Serving, MatchedLive
<1>3. CASE SavesEmail(requests[q])
  BY <1>2, <1>3, InteractionShape DEF SavesEmail, Fits
<1>4. CASE requests[q].snapshot.phase = "STARTING" /\ requests[q].next.phase = "ENROLLING"
  BY <1>2, <1>4, InteractionShape DEF Fits
<1> QED
  BY <1>2, <1>3, <1>4 DEF Shape, Consenting

\* What a request saves over its own snapshot; otherwise it changes nothing.
LEMMA SaveGood ==
    ASSUME SetupInv, NEW q \in Requests, Save(q)
    PROVE  SetupInv'
<1>1. requests[q].stage = "SAVING" /\ requests[q] # Idle /\ requests[q].stage \in Claiming
  BY DEF Save, Idle, Claiming
<1>2. PICK h \in Handles : h = requests[q].handle
  BY <1>1, Serving
<1>3. UNCHANGED <<consented, face, starts, enrollments, lapsed, challenges, outcomes, abandoned,
                  fresh, trusted, changes>>
  BY DEF Save, H5, world
<1>4. CASE ~Matches(q) /\ Answered(q) /\ UNCHANGED store
  BY <1>1, <1>3, <1>4, TurnedAwayGood DEF H5, world
<1>5. ASSUME Matches(q), store' = [store EXCEPT ![h] = requests[q].next],
             NEW r \in RequestStates, requests' = [requests EXCEPT ![q] = r],
             \/ r = Idle
             \/ /\ requests[q].next.phase = "CONSENT"
                /\ r = [stage |-> "DECIDED", handle |-> h, snapshot |-> requests[q].next]
      PROVE  SetupInv'
  <2>1. /\ requests[q].next \in Interactions
        /\ store[h].phase \in {"EMAIL", "STARTING"} /\ outcomes[h] = "NONE"
        /\ store[h].phase = "STARTING" <=> requests[q].next.phase = "ENROLLING"
        /\ requests[q].next.phase \in {"EMAIL", "CONSENT", "ENROLLING"}
        /\ requests[q].next.operation = "NONE"
        /\ requests[q].next.phase = "EMAIL" /\ ~requests[q].next.email => challenges[h] = 0
        /\ requests[q].next.phase = "ENROLLING" => enrollments[h] # "NONE"
    BY <1>1, <1>2, <1>5, SavedShape
  <2>2. /\ store'[h] = requests[q].next /\ store' = [store EXCEPT ![h] = store'[h]]
        /\ requests'[q] = r /\ requests' = [requests EXCEPT ![q] = requests'[q]]
        /\ outcomes' = [outcomes EXCEPT ![h] = outcomes'[h]] /\ outcomes'[h] = "NONE"
    BY <1>3, <1>5, <2>1 DEF SetupInv, Domains
  <2>3. HandleMoves(h)
    BY <1>3, <2>1, <2>2 DEF HandleMoves, Over, StatusOf
  <2>4. HandleGood(h)'
    <3>1. HandleGood(h)
      BY DEF SetupInv
    <3>2. store'[h].phase \in {"EMAIL", "CONSENT"} => enrollments[h] = "NONE"
      BY <2>1, <2>2, <3>1 DEF HandleGood
    <3>3. /\ challenges' = challenges /\ starts' = starts
          /\ enrollments' = enrollments /\ lapsed' = lapsed
          /\ face' = face
      BY <1>3
    <3>4. /\ store'[h] \in Interactions /\ store'[h].phase \notin {"NEW", "CONSUMED"}
          /\ store'[h].phase = "EMAIL" /\ ~store'[h].email /\ store'[h].operation = "NONE" =>
                challenges[h] = 0
          /\ store'[h].phase = "ENROLLING" => enrollments[h] # "NONE"
      BY <2>1, <2>2
    <3> QED
      BY <2>2, <3>1, <3>2, <3>3, <3>4 DEF HandleGood
  <2>5. /\ requests'[q].stage \notin Claiming /\ requests'[q].stage \notin Consenting
        /\ requests'[q].stage # "FINISHING"
    BY <1>5, <2>2 DEF Idle, Claiming, Consenting
  <2>6. RequestGood(q)'
    <3>1. CASE r = Idle
      BY <2>2, <3>1 DEF RequestGood, RequestStates, Idle
    <3>2. CASE /\ requests[q].next.phase = "CONSENT"
               /\ r = [stage |-> "DECIDED", handle |-> h, snapshot |-> requests[q].next]
      <4>1. /\ r.stage = "DECIDED" /\ r.handle = h /\ r.snapshot.phase = "CONSENT"
        BY <3>2
      <4>2. Shape(requests[q])'
        BY <2>2, <4>1 DEF Shape, Consenting
      <4>3. Fits(requests[q])'
        BY <2>1, <2>2, <4>1 DEF Fits, Claiming, Consenting
      <4> QED
        BY <2>2, <4>2, <4>3 DEF RequestGood
    <3> QED
      BY <1>5, <3>1, <3>2
  <2>7. \A p \in Requests \ {q} :
           ~(requests[p].stage \in Claiming /\ requests[p].handle = h)
    BY <1>1, <1>2, ClaimAlone
  <2>8. ~Processing(h)'
    BY <2>1, <2>2 DEF Processing
  <2> QED
    BY <1>2, <1>3, <2>2, <2>3, <2>4, <2>5, <2>6, <2>7, <2>8, StoreMoved DEF world
<1>6. CASE Matches(q) /\ store' = [store EXCEPT ![requests[q].handle] = requests[q].next]
           /\ requests[q].next.phase = "CONSENT"
           /\ requests' = [requests EXCEPT ![q] = [stage |-> "DECIDED",
                  handle |-> requests[q].handle, snapshot |-> requests[q].next]]
  <2>1. PICK r \in RequestStates :
            r = [stage |-> "DECIDED", handle |-> h, snapshot |-> requests[q].next]
    BY <1>1, <1>2, Serving, RequestMade
  <2>2. requests' = [requests EXCEPT ![q] = r]
    BY <1>2, <1>6, <2>1
  <2> QED
    BY <1>2, <1>5, <1>6, <2>1, <2>2
<1>7. CASE Matches(q) /\ store' = [store EXCEPT ![requests[q].handle] = requests[q].next]
           /\ Answered(q)
  <2>1. PICK r \in RequestStates : r = Idle
    BY DEF RequestStates
  <2> QED
    BY <1>2, <1>5, <1>7, <2>1 DEF Answered
<1> QED
  BY <1>4, <1>6, <1>7 DEF Save

\* An interaction is consumed once, over the snapshot of the request that does it.
LEMMA FinishGood ==
    ASSUME SetupInv, NEW q \in Requests, Finish(q)
    PROVE  SetupInv'
<1>1. requests[q].stage = "FINISHING" /\ requests[q] # Idle /\ Answered(q)
  BY DEF Finish, Idle
<1>2. PICK h \in Handles : h = requests[q].handle
  BY <1>1, Serving
<1>3. UNCHANGED <<consented, face, starts, enrollments, lapsed, challenges, abandoned, fresh,
                  trusted, changes>>
  BY DEF Finish, H5, world
<1>4. CASE ~Matches(q) /\ UNCHANGED <<store, outcomes>>
  BY <1>1, <1>3, <1>4, TurnedAwayGood DEF H5, world
<1>5. CASE /\ Matches(q) /\ store' = [store EXCEPT ![h] = [phase |-> "CONSUMED"]]
           /\ outcomes' = [outcomes EXCEPT ![h] = requests[q].outcome]
  <2>1. /\ Fits(requests[q]) /\ requests[q].outcome \in Outcomes
        /\ store[h].phase \notin {"NEW"} \cup Over /\ outcomes[h] = "NONE"
    BY <1>1, <1>2, <1>5, Serving, MatchedLive
  <2>2. /\ store'[h] = [phase |-> "CONSUMED"] /\ store' = [store EXCEPT ![h] = store'[h]]
        /\ requests'[q] = Idle /\ requests' = [requests EXCEPT ![q] = requests'[q]]
        /\ outcomes' = [outcomes EXCEPT ![h] = outcomes'[h]]
        /\ outcomes'[h] = requests[q].outcome
    BY <1>1, <1>5 DEF SetupInv, Domains, Answered
  <2>3. store'[h].phase = "CONSUMED" /\ store'[h] \in Ended
    BY <2>2 DEF Ended
  <2>4. HandleMoves(h)
    BY <1>3, <2>3 DEF HandleMoves, Over, StatusOf
  <2>5. HandleGood(h)'
    <3>1. HandleGood(h)
      BY DEF SetupInv
    <3>2. outcomes'[h] \in Outcomes /\ outcomes'[h] # "NONE"
      BY <2>1, <2>2 DEF Outcomes
    <3>3. outcomes'[h] = "success" => face /\ StatusOf(h) \notin {"PENDING", "FAILED"}
      BY <1>1, <1>2, <2>1, <2>2 DEF Fits
    <3>4. /\ challenges' = challenges /\ starts' = starts
          /\ enrollments' = enrollments /\ lapsed' = lapsed
          /\ face' = face
      BY <1>3
    <3> QED
      BY <2>3, <3>1, <3>2, <3>3, <3>4 DEF HandleGood, StatusOf
  <2>6. /\ requests'[q].stage \notin Claiming /\ requests'[q].stage \notin Consenting
        /\ requests'[q].stage # "FINISHING"
    BY <2>2 DEF Idle, Claiming, Consenting
  <2>7. RequestGood(q)'
    BY <2>2 DEF RequestGood, RequestStates, Idle
  <2>8. ~Processing(h)'
    BY <2>3 DEF Processing, Live
  <2>9. outcomes'[h] = "success" =>
            requests[q].stage = "FINISHING" /\ requests[q].outcome = "success"
                 /\ requests[q].handle = h
    BY <1>1, <1>2, <2>2
  <2>10. store'[h].phase \in Over
    BY <2>3 DEF Over
  <2> QED
    BY <1>2, <1>3, <2>2, <2>4, <2>5, <2>6, <2>7, <2>8, <2>9, <2>10, StoreMoved DEF world
<1> QED
  BY <1>2, <1>4, <1>5 DEF Finish

\* A claim to the e-mail step, which at most one request has.
LEMMA ClaimEmailGood ==
    ASSUME SetupInv, NEW q \in Requests, ClaimEmail(q)
    PROVE  SetupInv'
<1> DEFINE i == requests[q].snapshot
           k == requests[q].kind
<1>1. requests[q].stage = "LOADED" /\ requests[q] # Idle /\ k \in Operations
  BY DEF ClaimEmail, Idle
<1>2. PICK h \in Handles : h = requests[q].handle
  BY <1>1, Serving
<1>3. UNCHANGED <<consented, face, starts, enrollments, lapsed, challenges, outcomes, abandoned,
                  fresh, trusted, changes>>
  BY DEF ClaimEmail, H5, world
<1>4. CASE Answered(q) /\ UNCHANGED store
  BY <1>1, <1>3, <1>4, TurnedAwayGood DEF H5, world
<1>5. CASE /\ Matches(q) /\ store' = [store EXCEPT ![requests[q].handle].operation = k]
           /\ requests' = [requests EXCEPT ![q] = [stage |-> "CALLING",
                 handle |-> requests[q].handle, snapshot |-> [i EXCEPT !.operation = k]]]
  <2>1. /\ i \in Interactions /\ Shape(requests[q]) /\ store[h] = i /\ outcomes[h] = "NONE"
    BY <1>1, <1>2, <1>5, Serving, MatchedLive
  <2>2. i.phase = "EMAIL" /\ i.operation = "NONE"
    BY <1>1, <2>1 DEF Shape, Takes, Operations
  <2>3. i.email <=> k # "START"
    BY <1>1, <2>1 DEF Shape, Takes, Operations
  <2>4. i = [phase |-> i.phase, operation |-> i.operation, email |-> i.email]
    BY <2>1, InteractionShape, Zenon
  <2>5. i.email \in BOOLEAN
    BY <2>1, InteractionShape, Zenon
  <2>6. i = [phase |-> "EMAIL", operation |-> "NONE", email |-> i.email]
    BY <2>2, <2>4
  <2>7. PICK n \in Interactions : n = [phase |-> "EMAIL", operation |-> k, email |-> i.email]
    BY <1>1, <2>5, InteractionMade
  <2>8. [i EXCEPT !.operation = k] = n
    BY <2>6, <2>7
  <2>9. PICK r \in RequestStates : r = [stage |-> "CALLING", handle |-> h, snapshot |-> n]
    BY RequestMade
  <2>10. /\ store' = [store EXCEPT ![h] = n] /\ requests' = [requests EXCEPT ![q] = r]
    BY <1>2, <1>5, <2>1, <2>8, <2>9
  <2>11. /\ store'[h] = n /\ store' = [store EXCEPT ![h] = store'[h]]
         /\ requests'[q] = r /\ requests' = [requests EXCEPT ![q] = requests'[q]]
         /\ outcomes' = [outcomes EXCEPT ![h] = outcomes'[h]] /\ outcomes'[h] = "NONE"
    BY <1>3, <2>1, <2>10 DEF SetupInv, Domains
  <2>12. /\ n.phase = "EMAIL" /\ n.operation = k
         /\ r.stage = "CALLING" /\ r.handle = h /\ r.snapshot = n /\ r # Idle
    BY <2>7, <2>9 DEF Idle
  <2>13. n.email = i.email
    BY <2>7, Zenon
  <2>14. n.email <=> k # "START"
    BY <2>3, <2>13, Zenon
  <2>15. HandleGood(h)
    BY DEF SetupInv
  <2>16. k # "START" \/ challenges[h] = 0
    <3> SUFFICES ASSUME k = "START" PROVE challenges[h] = 0
      OBVIOUS
    <3>1. ~store[h].email
      BY <2>1, <2>3, Zenon
    <3>2. store[h].phase = "EMAIL" /\ store[h].operation = "NONE"
      BY <2>1, <2>2
    <3>3. store[h].phase = "EMAIL" /\ ~store[h].email /\ store[h].operation = "NONE" =>
             challenges[h] = 0
      BY <2>15, Zenon DEF HandleGood
    <3> QED
      BY <3>1, <3>2, <3>3, Zenon
  <2>17. store[h].phase = "EMAIL" /\ store'[h].phase = "EMAIL"
    BY <2>1, <2>2, <2>11, <2>12
  <2>18. HandleMoves(h)
    BY <1>3, <2>17 DEF HandleMoves, Over, StatusOf
  <2>19. HandleGood(h)'
    <3>1. /\ challenges' = challenges /\ starts' = starts
          /\ enrollments' = enrollments /\ lapsed' = lapsed
          /\ face' = face
      BY <1>3
    <3>2. store'[h] \in Interactions /\ store'[h].operation # "NONE"
      BY <1>1, <2>11, <2>12 DEF Operations
    <3>3. enrollments[h] = "NONE"
      BY <2>15, <2>17 DEF HandleGood
    <3> QED
      BY <2>11, <2>15, <2>17, <3>1, <3>2, <3>3 DEF HandleGood
  <2>20. RequestGood(q)'
    <3>1. Shape(r)
      BY <1>1, <2>12, <2>14 DEF Shape, Consenting
    <3>2. Shape(requests[q])'
      BY <2>11, <3>1 DEF Shape, SavesEmail, Takes
    <3>3. Fits(requests[q])'
      BY <1>3, <2>11, <2>12, <2>16 DEF Fits, Claiming, Consenting
    <3> QED
      BY <2>11, <3>2, <3>3 DEF RequestGood
  <2>21. \A p \in Requests \ {q} :
           ~(requests[p].stage \in Claiming /\ requests[p].handle = h)
    <3>1. \A p \in Requests : requests[p].stage \in Claiming =>
             requests[p].handle # requests[q].handle
      BY <1>1, <1>5, <2>2, NobodyClaims
    <3> QED
      BY <1>2, <3>1
  <2>22. /\ requests'[q].stage \notin Consenting /\ requests'[q].stage # "FINISHING"
         /\ requests'[q].handle = h
    BY <2>11, <2>12 DEF Consenting
  <2>23. Serves(q, h)'
    BY <2>11, <2>12 DEF Serves, Works
  <2> QED
    BY <1>2, <1>3, <2>11, <2>18, <2>19, <2>20, <2>21, <2>22, <2>23, StoreMoved DEF world
<1> QED
  BY <1>4, <1>5 DEF ClaimEmail

\* A claim to the consent, for one enrollment or for none.
LEMMA ClaimConsentGood ==
    ASSUME SetupInv, NEW q \in Requests, ClaimConsent(q)
    PROVE  SetupInv'
<1> DEFINE i == requests[q].snapshot
           k == requests[q].kind
<1>1. requests[q].stage = "LOADED" /\ requests[q] # Idle /\ k \in {"agree", "not_now"}
  BY DEF ClaimConsent, Idle
<1>2. PICK h \in Handles : h = requests[q].handle
  BY <1>1, Serving
<1>3. UNCHANGED <<consented, face, starts, enrollments, lapsed, challenges, outcomes, abandoned,
                  fresh, trusted, changes>>
  BY DEF ClaimConsent, H5, world
<1>4. CASE Answered(q) /\ UNCHANGED store
  BY <1>1, <1>3, <1>4, TurnedAwayGood DEF H5, world
<1>5. ASSUME Matches(q), NEW phase \in {"STARTING", "CANCELLED"},
             store' = [store EXCEPT ![h] = [i EXCEPT !.phase = phase]],
             NEW stage \in {"CONSENTING", "FINISHING"}, NEW r \in RequestStates,
             requests' = [requests EXCEPT ![q] = r], r # Idle,
             r.stage = stage, r.handle = h, r.snapshot = [i EXCEPT !.phase = phase],
             stage = "FINISHING" => r.outcome = "cancelled" /\ phase = "CANCELLED",
             stage = "CONSENTING" => phase = "STARTING"
      PROVE  SetupInv'
  <2>1. /\ i \in Interactions /\ Shape(requests[q]) /\ store[h] = i /\ outcomes[h] = "NONE"
    BY <1>1, <1>2, <1>5, Serving, MatchedLive
  <2>2. i.phase = "CONSENT"
    BY <1>1, <2>1 DEF Shape, Takes
  <2>3. i = [phase |-> "CONSENT", operation |-> "NONE", email |-> i.email] /\ i.email = TRUE
        /\ i.operation = "NONE"
    BY <2>1, <2>2, InteractionShape
  <2>4. PICK n : n = [i EXCEPT !.phase = phase]
    OBVIOUS
  <2>5. n = [phase |-> phase, operation |-> "NONE", email |-> i.email]
    <3>1. i = [phase |-> "CONSENT", operation |-> "NONE", email |-> i.email]
      BY <2>3
    <3> QED
      BY <2>4, <3>1
  <2>6. n = [phase |-> phase, operation |-> "NONE", email |-> TRUE]
    BY <2>3, <2>5, Zenon
  <2>7. n \in Interactions /\ n.phase = phase /\ n.operation = "NONE"
    BY <2>6, InteractionMade
  <2>8. /\ store'[h] = n /\ store' = [store EXCEPT ![h] = store'[h]]
        /\ requests'[q] = r /\ requests' = [requests EXCEPT ![q] = requests'[q]]
        /\ outcomes' = [outcomes EXCEPT ![h] = outcomes'[h]] /\ outcomes'[h] = "NONE"
    BY <1>3, <1>5, <2>1, <2>4 DEF SetupInv, Domains
  <2>9. HandleGood(h) /\ enrollments[h] = "NONE"
    BY <2>1, <2>2 DEF SetupInv, HandleGood
  <2>10. HandleMoves(h)
    BY <1>3, <1>5, <2>1, <2>2, <2>7, <2>8 DEF HandleMoves, Over, StatusOf
  <2>11. HandleGood(h)'
    <3>1. /\ challenges' = challenges /\ starts' = starts
          /\ enrollments' = enrollments /\ lapsed' = lapsed
          /\ face' = face
      BY <1>3
    <3>2. store'[h] \in Interactions /\ store'[h].phase \in {"STARTING", "CANCELLED"}
      BY <1>5, <2>7, <2>8
    <3> QED
      BY <2>8, <2>9, <3>1, <3>2 DEF HandleGood
  <2>12. r.snapshot = n
    BY <1>5, <2>4
  <2>13. RequestGood(q)'
    <3>1. Shape(requests[q])'
      BY <1>5, <2>7, <2>8, <2>12 DEF Shape, Consenting
    <3>2. Fits(requests[q])'
      BY <1>3, <1>5, <2>7, <2>8, <2>9, <2>12 DEF Fits, Claiming, Consenting
    <3> QED
      BY <1>5, <2>8, <3>1, <3>2 DEF RequestGood
  <2>14. \A p \in Requests \ {q} :
           ~(requests[p].stage \in Claiming /\ requests[p].handle = h)
    BY <1>1, <1>2, <1>5, <2>2, <2>3, NobodyClaims
  <2>15. /\ requests'[q].stage = "FINISHING" => requests'[q].outcome # "success"
         /\ requests'[q].handle = h /\ store[h].phase = "CONSENT"
    BY <1>5, <2>1, <2>2, <2>8
  <2>16. Serves(q, h)'
    BY <1>5, <2>8, <2>12 DEF Serves, Works
  <2> QED
    BY <1>2, <1>3, <2>8, <2>10, <2>11, <2>13, <2>14, <2>15, <2>16, StoreMoved DEF world
<1>6. ASSUME NEW phase \in {"STARTING", "CANCELLED"}
      PROVE  [i EXCEPT !.phase = phase] \in Interactions \/ ~Matches(q)
  <2> SUFFICES ASSUME Matches(q) PROVE [i EXCEPT !.phase = phase] \in Interactions
    OBVIOUS
  <2>1. i \in Interactions /\ i.phase = "CONSENT"
    BY <1>1, Serving DEF Shape, Takes
  <2>2. i = [phase |-> "CONSENT", operation |-> "NONE", email |-> i.email]
    BY <2>1, InteractionShape
  <2>3. i.email = TRUE
    BY <2>1, InteractionShape
  <2>4. [i EXCEPT !.phase = phase] = [phase |-> phase, operation |-> "NONE", email |-> i.email]
    BY <2>2
  <2>5. [i EXCEPT !.phase = phase] = [phase |-> phase, operation |-> "NONE", email |-> TRUE]
    BY <2>3, <2>4, Zenon
  <2> QED
    BY <2>5, InteractionMade
<1>7. CASE /\ Matches(q) /\ k = "agree"
           /\ store' = [store EXCEPT ![h] = [i EXCEPT !.phase = "STARTING"]]
           /\ requests' = [requests EXCEPT ![q] = [stage |-> "CONSENTING", handle |-> h,
                  snapshot |-> [i EXCEPT !.phase = "STARTING"]]]
  <2>1. PICK n \in Interactions : n = [i EXCEPT !.phase = "STARTING"]
    BY <1>6, <1>7
  <2>2. PICK r \in RequestStates : r = [stage |-> "CONSENTING", handle |-> h, snapshot |-> n]
    BY RequestMade
  <2>3. /\ r # Idle /\ r.stage = "CONSENTING" /\ r.handle = h /\ r.snapshot = n
        /\ requests' = [requests EXCEPT ![q] = r]
    BY <1>7, <2>1, <2>2 DEF Idle
  <2> QED
    BY <1>5, <1>7, <2>1, <2>3
<1>8. CASE /\ Matches(q) /\ k # "agree"
           /\ store' = [store EXCEPT ![h] = [i EXCEPT !.phase = "CANCELLED"]]
           /\ requests' = [requests EXCEPT ![q] = [stage |-> "FINISHING", handle |-> h,
                  snapshot |-> [i EXCEPT !.phase = "CANCELLED"], outcome |-> "cancelled"]]
  <2>1. PICK n \in Interactions : n = [i EXCEPT !.phase = "CANCELLED"]
    BY <1>6, <1>8
  <2>2. PICK r \in RequestStates : r = [stage |-> "FINISHING", handle |-> h, snapshot |-> n,
                                        outcome |-> "cancelled"]
    BY RequestMade DEF Outcomes
  <2>3. /\ r # Idle /\ r.stage = "FINISHING" /\ r.handle = h /\ r.snapshot = n
        /\ r.outcome = "cancelled" /\ requests' = [requests EXCEPT ![q] = r]
    BY <1>8, <2>1, <2>2 DEF Idle
  <2> QED
    BY <1>5, <1>8, <2>1, <2>3
<1> QED
  BY <1>2, <1>4, <1>7, <1>8 DEF ClaimConsent

-----------------------------------------------------------------------------
(* The ceremony.                                                           *)

\* Every step keeps the invariant.
LEMMA StepGood == SetupInv /\ [Next]_vars => SetupInv'
<1> SUFFICES ASSUME SetupInv, [Next]_vars PROVE SetupInv'
  OBVIOUS
<1>1. ASSUME NEW q \in Requests, Serve(q) PROVE SetupInv'
  BY <1>1, SaveGood, FinishGood, ClaimEmailGood, EmailRefusedGood, EmailStartedGood,
     EmailVerifiedGood, DecideGood, ClaimConsentGood, AcceptConsentGood,
     StartEnrollmentGood, CallbackGood, ResolveGood DEF Serve
<1>2. ASSUME NEW q \in Requests, Crash(q) PROVE SetupInv'
  BY <1>2, CrashGood
<1>3. ASSUME NEW q \in Requests, NEW h \in Handles, LoadCancel(q, h) PROVE SetupInv'
  BY <1>3, LoadCancelGood
<1>4. ASSUME NEW q \in Requests, NEW h \in Handles,
             NEW kind \in Operations \cup {"agree", "not_now", "callback"}, Load(q, h, kind)
      PROVE  SetupInv'
  BY <1>4, LoadGood
<1>5. ASSUME NEW h \in Handles, Create(h) PROVE SetupInv'
  BY <1>5, CreateGood
<1>6. ASSUME NEW h \in Handles, Expire(h) PROVE SetupInv'
  BY <1>6, ExpireGood
<1>7. ASSUME \/ \E h \in Handles : EnrollmentEnds(h) \/ EnrollmentLapses(h) \/ Stale(h)
             \/ Distrust \/ FaceElsewhere
      PROVE  SetupInv'
  BY <1>7, WorldGood
<1>8. ASSUME UNCHANGED vars PROVE SetupInv'
  <2>1. /\ UNCHANGED <<store, requests, outcomes, abandoned, enrollments, lapsed, starts>>
        /\ UNCHANGED <<challenges, face, fresh, trusted, consented, changes>>
    BY <1>8 DEF vars
  <2>2. Domains'
    BY <2>1 DEF SetupInv, Domains
  <2>3. \A h \in Handles : HandleGood(h)'
    BY <2>1 DEF SetupInv, HandleGood, StatusOf
  <2>4. \A h \in Handles : HandleMoves(h) /\ Undisturbed(h)
    BY <2>1 DEF HandleMoves, Undisturbed, StatusOf
  <2> QED
    BY <2>1, <2>2, <2>3, <2>4, WorldMoved
<1> QED
  BY <1>1, <1>2, <1>3, <1>4, <1>5, <1>6, <1>7, <1>8 DEF Next

\* The ranks of the phases.
LEMMA Ranks ==
    ASSUME NEW i
    PROVE  /\ i.phase = "NEW" => Rank(i) = 0
           /\ i.phase = "EMAIL" /\ i.email => Rank(i) = 2
           /\ i.phase = "EMAIL" /\ ~i.email => Rank(i) = 1
           /\ i.phase = "CONSENT" => Rank(i) = 3
           /\ i.phase \in {"STARTING", "CANCELLED"} => Rank(i) = 4
           /\ i.phase = "ENROLLING" => Rank(i) = 5
           /\ i.phase \in Over => Rank(i) = 6
BY DEF Rank, Over

\* What a step does to one interaction.
Goes(i, j) ==
    /\ Rank(i) =< Rank(j) /\ Rank(i) < 6
    /\ i.phase \in {"ENROLLING", "CANCELLED"} => j.phase \in Over

\* An interaction may end from any phase; that of the e-mail step keeps its challenge or
\* goes on to the consent, which is given or not, and a started enrollment goes on.
LEMMA Going ==
    ASSUME NEW i, NEW j, i \in Interactions \cup Ended,
           \/ i.phase \notin Over /\ j.phase \in Over
           \/ i.phase = "NEW" /\ j = Created
           \/ i.phase = "EMAIL" /\ j.phase = "EMAIL" /\ (i.email => j.email)
           \/ i.phase = "EMAIL" /\ j.phase = "CONSENT"
           \/ i.phase = "CONSENT" /\ j.phase \in {"STARTING", "CANCELLED"}
           \/ i.phase = "STARTING" /\ j.phase = "ENROLLING"
    PROVE  Goes(i, j)
<1>1. i.phase \in {"NEW", "EMAIL", "CONSENT", "STARTING", "ENROLLING", "CANCELLED"} \cup Over
  BY InteractionShape, EndedShape
<1>2. CASE i.phase \notin Over /\ j.phase \in Over
  <2>1. Rank(j) = 6
    BY <1>2, Ranks
  <2>2. Rank(i) \in 0..5
    <3>1. i.phase = "EMAIL" => Rank(i) = 1 \/ Rank(i) = 2
      BY Ranks, Zenon
    <3>2. i.phase # "EMAIL" => Rank(i) \in {0, 3, 4, 5}
      BY <1>1, <1>2, Ranks
    <3> QED
      BY <3>1, <3>2
  <2> QED
    BY <1>2, <2>1, <2>2 DEF Goes
<1>3. CASE i.phase = "NEW" /\ j = Created
  <2>1. Rank(i) = 0
    BY <1>3, Ranks
  <2>2. Rank(j) = 1
    <3>1. j.phase = "EMAIL" /\ ~j.email
      BY <1>3 DEF Created
    <3> QED
      BY <3>1, Ranks, Zenon
  <2> QED
    BY <1>3, <2>1, <2>2 DEF Goes
<1>4. CASE i.phase = "EMAIL" /\ j.phase = "EMAIL" /\ (i.email => j.email)
  <2>1. (Rank(i) = 1 \/ Rank(i) = 2) /\ (Rank(j) = 1 \/ Rank(j) = 2)
    BY <1>4, Ranks, Zenon
  <2>2. Rank(i) = 2 => i.email
    <3> SUFFICES ASSUME ~i.email PROVE Rank(i) # 2
      OBVIOUS
    <3>1. Rank(i) = 1
      BY <1>4, Ranks, Zenon
    <3> QED
      BY <3>1
  <2>3. j.email => Rank(j) = 2
    BY <1>4, Ranks, Zenon
  <2>4. Rank(i) = 2 => Rank(j) = 2
    BY <1>4, <2>2, <2>3, Zenon
  <2> QED
    BY <1>4, <2>1, <2>4 DEF Goes
<1>5. CASE i.phase = "EMAIL" /\ j.phase = "CONSENT"
  <2>1. Rank(i) = 1 \/ Rank(i) = 2
    BY <1>5, Ranks, Zenon
  <2>2. Rank(j) = 3
    BY <1>5, Ranks
  <2> QED
    BY <1>5, <2>1, <2>2 DEF Goes
<1>6. CASE i.phase = "CONSENT" /\ j.phase \in {"STARTING", "CANCELLED"}
  BY <1>6, Ranks DEF Goes
<1>7. CASE i.phase = "STARTING" /\ j.phase = "ENROLLING"
  BY <1>7, Ranks DEF Goes
<1> QED
  BY <1>2, <1>3, <1>4, <1>5, <1>6, <1>7

\* The claim to an operation changes nothing else of its interaction.
LEMMA ClaimGoes ==
    ASSUME SetupInv, NEW q \in Requests, ClaimEmail(q), NEW h \in Handles,
           store'[h] # store[h]
    PROVE  Goes(store[h], store'[h])
<1> DEFINE i == requests[q].snapshot
           k == requests[q].kind
<1>1. /\ requests[q].stage = "LOADED" /\ requests[q] # Idle /\ k \in Operations
      /\ Matches(q) /\ store' = [store EXCEPT ![requests[q].handle].operation = k]
  BY DEF ClaimEmail, Idle
<1>2. h = requests[q].handle /\ store[h] = i /\ i \in Interactions
  BY <1>1, Serving, MatchedLive DEF SetupInv, Domains
<1>3. i.phase = "EMAIL"
  BY <1>1, <1>2, Serving DEF Shape, Takes, Operations
<1>4. i = [phase |-> i.phase, operation |-> i.operation, email |-> i.email]
  BY <1>2, InteractionShape, Zenon
<1>5. store'[h] = [i EXCEPT !.operation = k]
  BY <1>1, <1>2 DEF SetupInv, Domains
<1>6. store'[h] = [phase |-> i.phase, operation |-> k, email |-> i.email]
  BY <1>4, <1>5
<1>7. store'[h].phase = i.phase
  BY <1>6
<1>8. store'[h].email = i.email
  <2>1. PICK j : j = store'[h]
    OBVIOUS
  <2>2. j = [phase |-> i.phase, operation |-> k, email |-> i.email]
    BY <1>6, <2>1
  <2>3. j.email = i.email
    BY <2>2, Zenon
  <2> QED
    BY <2>1, <2>3, Zenon
<1>9. store[h].email => store'[h].email
  BY <1>2, <1>8, Zenon
<1>10. store[h].phase = "EMAIL" /\ store'[h].phase = "EMAIL"
  BY <1>2, <1>3, <1>7
<1>11. store[h] \in Interactions \cup Ended
  BY <1>2
<1> QED
  BY <1>9, <1>10, <1>11, Going, Zenon

\* A given or refused consent.
LEMMA ConsentGoes ==
    ASSUME SetupInv, NEW q \in Requests, ClaimConsent(q), NEW h \in Handles,
           store'[h] # store[h]
    PROVE  Goes(store[h], store'[h])
<1> DEFINE i == requests[q].snapshot
<1>1. /\ requests[q].stage = "LOADED" /\ requests[q] # Idle
      /\ requests[q].kind \in {"agree", "not_now"} /\ Matches(q)
  BY DEF ClaimConsent, Idle
<1>2. PICK phase \in {"STARTING", "CANCELLED"} :
         store' = [store EXCEPT ![requests[q].handle] = [i EXCEPT !.phase = phase]]
  <2>1. CASE requests[q].kind = "agree"
    <3>1. store' = [store EXCEPT ![requests[q].handle] = [i EXCEPT !.phase = "STARTING"]]
      BY <2>1 DEF ClaimConsent
    <3> QED
      BY <3>1
  <2>2. CASE requests[q].kind # "agree"
    <3>1. store' = [store EXCEPT ![requests[q].handle] = [i EXCEPT !.phase = "CANCELLED"]]
      BY <2>2 DEF ClaimConsent
    <3> QED
      BY <3>1
  <2> QED
    BY <2>1, <2>2
<1>3. h = requests[q].handle /\ store[h] = i /\ i \in Interactions
  BY <1>1, <1>2, Serving, MatchedLive DEF SetupInv, Domains
<1>4. i.phase = "CONSENT"
  BY <1>1, <1>3, Serving DEF Shape, Takes
<1>5. i = [phase |-> i.phase, operation |-> i.operation, email |-> i.email]
  BY <1>3, InteractionShape, Zenon
<1>6. store'[h] = [i EXCEPT !.phase = phase]
  BY <1>2, <1>3 DEF SetupInv, Domains
<1>7. store'[h] = [phase |-> phase, operation |-> i.operation, email |-> i.email]
  BY <1>5, <1>6
<1> QED
  BY <1>3, <1>4, <1>7, Going

\* What is saved comes after what was loaded.
LEMMA SaveGoes ==
    ASSUME SetupInv, NEW q \in Requests, Save(q), NEW h \in Handles, store'[h] # store[h]
    PROVE  Goes(store[h], store'[h])
<1> DEFINE i == requests[q].snapshot
           j == requests[q].next
<1>1. /\ requests[q].stage = "SAVING" /\ requests[q] # Idle /\ Matches(q)
      /\ store' = [store EXCEPT ![requests[q].handle] = j]
  BY DEF Save, Idle
<1>2. h = requests[q].handle /\ store[h] = i /\ i \in Interactions /\ store'[h] = j
  BY <1>1, Serving, MatchedLive DEF SetupInv, Domains
<1>3. SavesEmail(requests[q]) \/ (i.phase = "STARTING" /\ j.phase = "ENROLLING")
  BY <1>1, Serving DEF Shape
<1>4. \/ i.phase = "EMAIL" /\ j.phase = "EMAIL" /\ (i.email => j.email)
      \/ i.phase = "EMAIL" /\ j.phase = "CONSENT"
      \/ i.phase = "STARTING" /\ j.phase = "ENROLLING"
  BY <1>3, Zenon DEF SavesEmail
<1>5. Goes(i, j)
  BY <1>2, <1>4, Going, Zenon
<1> QED
  BY <1>2, <1>5

\* An interaction ends, whatever its phase, or begins.
LEMMA EndsGo ==
    ASSUME SetupInv, NEW h \in Handles, store'[h] # store[h],
           (\E q \in Requests : Finish(q)) \/ (\E g \in Handles : Expire(g) \/ Create(g))
    PROVE  Goes(store[h], store'[h])
<1>1. store[h] \in Interactions \cup Ended
  BY DEF SetupInv, HandleGood
<1>2. ASSUME NEW q \in Requests, Finish(q) PROVE Goes(store[h], store'[h])
  <2>1. /\ requests[q] # Idle /\ Matches(q)
        /\ store' = [store EXCEPT ![requests[q].handle] = [phase |-> "CONSUMED"]]
    BY <1>2 DEF Finish, Idle
  <2>2. h = requests[q].handle /\ store[h].phase \notin Over /\ store'[h].phase \in Over
    BY <2>1, Serving, MatchedLive DEF SetupInv, Domains, Over
  <2> QED
    BY <1>1, <2>2, Going
<1>3. ASSUME NEW g \in Handles, Expire(g) PROVE Goes(store[h], store'[h])
  <2>1. store[h] \notin Ended /\ store'[h] = [phase |-> "EXPIRED"]
    BY <1>3 DEF Expire, Live, SetupInv, Domains
  <2>2. store[h] \in Interactions
    BY <1>1, <2>1
  <2>3. store[h].phase \notin Over
    BY <2>2, InteractionShape DEF Over
  <2>4. store'[h].phase \in Over
    BY <2>1 DEF Over
  <2> QED
    BY <1>1, <2>3, <2>4, Going
<1>4. ASSUME NEW g \in Handles, Create(g) PROVE Goes(store[h], store'[h])
  <2>1. store[h].phase = "NEW" /\ store'[h] = Created
    BY <1>4 DEF Create, SetupInv, Domains
  <2> QED
    BY <1>1, <2>1, Going
<1> QED
  BY <1>2, <1>3, <1>4

\* Types, and effects that happen once.
LEMMA ConsistentOfInv == SetupInv => SetupConsistent
<1> SUFFICES ASSUME SetupInv PROVE SetupConsistent
  OBVIOUS
<1>1. \A h \in Handles :
         /\ challenges[h] \in 0..1 /\ starts[h] \in 0..1
         /\ store[h] \in Interactions \cup Ended
         /\ enrollments[h] \in {"NONE", "PENDING", "COMPLETED", "FAILED", "EXPIRED"}
         /\ outcomes[h] \in Outcomes \cup {"NONE"}
  BY DEF SetupInv, HandleGood
<1>2. \A q \in Requests : requests[q] \in RequestStates
  BY DEF SetupInv, RequestGood
<1>3. TypeOK
  <2>1. store \in [Handles -> Interactions \cup Ended]
    BY <1>1 DEF SetupInv, Domains
  <2>2. requests \in [Requests -> RequestStates]
    BY <1>2 DEF SetupInv, Domains
  <2>3. challenges \in [Handles -> Nat] /\ starts \in [Handles -> Nat]
    BY <1>1 DEF SetupInv, Domains
  <2>4. /\ enrollments \in [Handles -> {"NONE", "PENDING", "COMPLETED", "FAILED", "EXPIRED"}]
        /\ outcomes \in [Handles -> Outcomes \cup {"NONE"}]
    BY <1>1 DEF SetupInv, Domains
  <2> QED
    BY <2>1, <2>2, <2>3, <2>4 DEF TypeOK, SetupInv, Domains
<1>4. SideEffectsOnce
  BY <1>1 DEF SideEffectsOnce
<1>5. OutcomeSound
  BY DEF SetupInv, HandleGood, OutcomeSound
<1> QED
  BY <1>3, <1>4, <1>5 DEF SetupConsistent

\* A step that writes an interaction takes it further, or ends it.
LEMMA AdvancesStep == SetupInv /\ [Next]_vars => [Advances]_vars
<1> SUFFICES ASSUME SetupInv, Next, NEW h \in Handles, store'[h] # store[h]
             PROVE  Goes(store[h], store'[h])
  BY DEF Advances, Goes, Over
<1>1. \/ \E q \in Requests : Save(q) \/ Finish(q) \/ ClaimEmail(q) \/ ClaimConsent(q)
      \/ \E g \in Handles : Expire(g) \/ Create(g)
  <2> USE DEF H5, world
  <2>1. ASSUME NEW q \in Requests, Serve(q)
        PROVE  Save(q) \/ Finish(q) \/ ClaimEmail(q) \/ ClaimConsent(q)
    BY <2>1 DEF Serve, EmailRefused, EmailStarted, EmailVerified, Decide, AcceptConsent,
                StartEnrollment, Callback, Resolve
  <2>2. ASSUME NEW q \in Requests, Crash(q) PROVE FALSE
    BY <2>2 DEF Crash
  <2>3. ASSUME NEW q \in Requests, NEW g \in Handles,
               NEW kind \in Operations \cup {"agree", "not_now", "callback"},
               LoadCancel(q, g) \/ Load(q, g, kind)
        PROVE  FALSE
    BY <2>3 DEF Load, LoadCancel
  <2>4. ASSUME NEW q \in Requests, NEW g \in Handles, LoadCancel(q, g) PROVE FALSE
    BY <2>4 DEF LoadCancel
  <2>5. ASSUME NEW g \in Handles, EnrollmentEnds(g) \/ EnrollmentLapses(g) \/ Stale(g)
        PROVE  FALSE
    BY <2>5 DEF EnrollmentEnds, EnrollmentLapses, Stale
  <2>6. ASSUME Distrust \/ FaceElsewhere PROVE FALSE
    BY <2>6 DEF Distrust, FaceElsewhere
  <2> QED
    BY <2>1, <2>2, <2>3, <2>4, <2>5, <2>6 DEF Next
<1> QED
  BY <1>1, ClaimGoes, ConsentGoes, SaveGoes, EndsGo

\* Who keeps a browser waiting works for it, or died.
LEMMA ProcessingOfInv == SetupInv => ProcessingHasWorker
BY DEF SetupInv, Served, Serves, ProcessingHasWorker

-----------------------------------------------------------------------------
\* However many requests of however many interactions are served at once, each
\* interaction starts one challenge and one enrollment at most, and the application is told
\* of its outcome once: of success only with an active face, and never while its enrollment
\* is pending or H5 still reports it failed.
THEOREM SetupConsistentHolds ==
    ASSUME MaxChanges \in Nat
    PROVE  Spec => []SetupConsistent
<1>1. Init => SetupInv
  BY InitGood
<1> QED
  BY <1>1, StepGood, ConsistentOfInv, PTL DEF Spec

\* A page makes the browser wait only while a request works on the interaction, unless that
\* request died with its claim.
THEOREM ProcessingHasWorkerHolds ==
    ASSUME MaxChanges \in Nat
    PROVE  Spec => []ProcessingHasWorker
<1>1. Init => SetupInv
  BY InitGood
<1> QED
  BY <1>1, ProcessingOfInv, StepGood, PTL DEF Spec

\* No writer, however stale its snapshot, takes an interaction back to an earlier phase, out
\* of CANCELLED, or back to life.
THEOREM PhasesAdvanceHolds ==
    ASSUME MaxChanges \in Nat
    PROVE  Spec => PhasesAdvance
<1>1. Init => SetupInv
  BY InitGood
<1> QED
  BY <1>1, AdvancesStep, StepGood, PTL DEF Spec, PhasesAdvance
=============================================================================
