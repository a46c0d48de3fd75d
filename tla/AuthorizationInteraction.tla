------------------------ MODULE AuthorizationInteraction ------------------------
(***************************************************************************)
(* The login interaction of Universal Login and the routes that use it:    *)
(*   src/oidc/AuthorizationInteractionStore.ts,                            *)
(*   src/oidc/OIDCService.ts (/authorize, /login/...).                     *)
(*                                                                         *)
(* An interaction is a Redis key; that it was consumed is a second key,    *)
(* the marker, set with NX.  A request handles the two by single commands, *)
(* and the lifetime it gives to a key is worked out before the command     *)
(* reaches Redis.  Requests of several tabs, stalls and crashes come       *)
(* between any two steps.                                                  *)
(***************************************************************************)
EXTENDS Integers, FiniteSets

CONSTANTS
    Handles,       \* the browser's handles of interactions
    ChallengeIds,  \* H2 challenges
    RequestIds,
    NoInteraction, NoChallenge, NoHandle,
    TTL,           \* AUTHORIZATION_INTERACTION_TTL_MS
    MaxTime        \* bound on the clock

ASSUME TimesAssumption == TTL \in Nat \ {0} /\ MaxTime \in Nat

\* The parts of an interaction that change or decide: the challenge of the
\* address that is signing in, and the absolute deadline.
Interaction == [email : ChallengeIds \cup {NoChallenge}, expiresAt : Nat]

\* POST /login/email, /login/email/code and /login/face.
Routes == {"EMAIL", "CODE", "FACE"}

\* find of the load (GET, LOOK), what the route does (LOADED, STARTED,
\* PROVEN), find of consume (REGET, RELOOK), the lifetime of the key to be
\* written (LEASE, SAVE or CLAIM), then WON, CONSUMED and the ends.
Stages == {"IDLE", "GET", "LOOK", "DELETE", "LOADED", "STARTED", "SAVE", "REGET", "RELOOK",
           "LEASE", "CLAIM", "WON", "CONSUMED",
           "SAVED", "HANDED", "EXPIRED", "FAILED", "CRASHED"}

Never == -1

Request ==
    [stage : Stages, route : Routes, handle : Handles \cup {NoHandle},
     read : Interaction \cup {NoInteraction},  \* what find returned
     challenge : ChallengeIds \cup {NoChallenge}, \* started or proven
     px : Nat,                                 \* lifetime of the key to write
     wonAt : Nat \cup {Never}]                 \* when its SET NX was answered OK

ASSUME AbsenceAssumption ==
    /\ NoInteraction \notin Interaction
    /\ NoChallenge \notin ChallengeIds /\ NoHandle \notin Handles

VARIABLES
    clock,
    interactions,  \* interactions[h]: the value of the key
    lapses,        \* lapses[h]: when Redis drops that key
    markers,       \* markers[h]: when Redis drops the marker; 0 if never set
    requests,
    started,       \* challenges started so far
    proven         \* challenges whose code was verified

vars == <<clock, interactions, lapses, markers, requests, started, proven>>

\* A request that has read nothing yet.
Blank(stage, route, h) ==
    [stage |-> stage, route |-> route, handle |-> h, read |-> NoInteraction,
     challenge |-> NoChallenge, px |-> 0, wonAt |-> Never]

Init ==
    /\ clock = 0
    /\ interactions = [h \in Handles |-> NoInteraction]
    /\ lapses = [h \in Handles |-> 0]
    /\ markers = [h \in Handles |-> 0]
    /\ requests = [r \in RequestIds |-> Blank("IDLE", "FACE", NoHandle)]
    /\ started = {}
    /\ proven = {}

-----------------------------------------------------------------------------
Stored(h) == interactions[h] # NoInteraction /\ clock < lapses[h]

Marked(h) == clock < markers[h]

Handle(r) == requests[r].handle

At(r, stage) == requests[r].stage = stage

Goto(r, stage) == requests' = [requests EXCEPT ![r].stage = stage]

\* GET /authorize: create, under a fresh random handle.  The time is read
\* before SET reaches Redis, so the key may outlive the deadline in it.
Create(h) ==
    /\ interactions[h] = NoInteraction /\ lapses[h] = 0
    /\ \E createdAt \in 0 .. clock :
         interactions' = [interactions EXCEPT ![h] =
           [email |-> NoChallenge, expiresAt |-> createdAt + TTL]]
    /\ lapses' = [lapses EXCEPT ![h] = clock + TTL]
    /\ UNCHANGED <<clock, markers, requests, started, proven>>

\* The browser submits a login form.
Submit(r, h, route) ==
    /\ At(r, "IDLE")
    /\ requests' = [requests EXCEPT ![r] = Blank("GET", route, h)]
    /\ UNCHANGED <<clock, interactions, lapses, markers, started, proven>>

-----------------------------------------------------------------------------
(* find, as used by load and by consume.                                   *)

PastDeadline(interaction) == interaction.expiresAt <= clock

\* GET of the interaction.
Get(r) ==
    LET h == Handle(r) IN
    /\ At(r, "GET") \/ At(r, "REGET")
    /\ \/ ~Stored(h) /\ Goto(r, "EXPIRED")
       \/ Stored(h) /\ PastDeadline(interactions[h]) /\ Goto(r, "DELETE")
       \/ /\ Stored(h) /\ ~PastDeadline(interactions[h])
          /\ requests' = [requests EXCEPT
               ![r].stage = IF @ = "GET" THEN "LOOK" ELSE "RELOOK",
               ![r].read = interactions[h]]
    /\ UNCHANGED <<clock, interactions, lapses, markers, started, proven>>

\* An interaction past its deadline is deleted.  The deadline may be over by
\* the time the answer of the GET arrives.
Delete(r) ==
    /\ \/ At(r, "DELETE")
       \/ (At(r, "LOOK") \/ At(r, "RELOOK")) /\ PastDeadline(requests[r].read)
    /\ interactions' = [interactions EXCEPT ![Handle(r)] = NoInteraction]
    /\ Goto(r, "EXPIRED")
    /\ UNCHANGED <<clock, lapses, markers, started, proven>>

\* Mutant: find does not ask for the marker.
LookAway(r) ==
    /\ At(r, "LOOK") \/ At(r, "RELOOK")
    /\ Goto(r, IF At(r, "LOOK") THEN "LOADED" ELSE "LEASE")
    /\ UNCHANGED <<clock, interactions, lapses, markers, started, proven>>

\* GET of the marker.
Look(r) ==
    /\ At(r, "LOOK") \/ At(r, "RELOOK")
    /\ Goto(r, IF Marked(Handle(r)) THEN "EXPIRED"
               ELSE IF At(r, "LOOK") THEN "LOADED" ELSE "LEASE")
    /\ UNCHANGED <<clock, interactions, lapses, markers, started, proven>>

-----------------------------------------------------------------------------
(* What the routes do with a loaded interaction.                           *)

\* A form that is not the interaction's own, too many requests, a client that
\* is no longer valid, an address that is none, a wrong code.
Refuse(r) ==
    /\ At(r, "LOADED")
    /\ Goto(r, "EXPIRED") \/ Goto(r, "FAILED")
    /\ UNCHANGED <<clock, interactions, lapses, markers, started, proven>>

\* POST /login/email: a challenge is started, and saved after that.
StartEmail(r) ==
    /\ At(r, "LOADED") /\ requests[r].route = "EMAIL"
    /\ \E c \in ChallengeIds \ started :
         /\ started' = started \cup {c}
         /\ requests' = [requests EXCEPT ![r].stage = "STARTED", ![r].challenge = c]
    /\ UNCHANGED <<clock, interactions, lapses, markers, proven>>

\* POST /login/email/code: the code is verified for the challenge that was
\* read, and the interaction consumed only after that.
VerifyEmail(r) ==
    LET c == requests[r].read.email IN
    /\ At(r, "LOADED") /\ requests[r].route = "CODE"
    /\ c \in ChallengeIds \ proven
    /\ proven' = proven \cup {c}
    /\ requests' = [requests EXCEPT ![r].stage = "REGET", ![r].challenge = c]
    /\ UNCHANGED <<clock, interactions, lapses, markers, started>>

\* POST /login/face.
ChooseFace(r) ==
    /\ At(r, "LOADED") /\ requests[r].route = "FACE"
    /\ Goto(r, "REGET")
    /\ UNCHANGED <<clock, interactions, lapses, markers, started, proven>>

-----------------------------------------------------------------------------
(* save and the rest of consume.                                           *)

\* Mutant: the lifetime is rounded down.
RemainingRounded(interaction) == interaction.expiresAt - clock - 1

Remaining(interaction) == interaction.expiresAt - clock

\* The lifetime left is worked out just before the command is sent.
Lease(r) ==
    LET px == Remaining(requests[r].read) IN
    /\ At(r, "STARTED") \/ At(r, "LEASE")
    /\ \/ px <= 0 /\ Goto(r, "EXPIRED")
       \/ /\ px > 0
          /\ requests' = [requests EXCEPT
               ![r].stage = IF @ = "STARTED" THEN "SAVE" ELSE "CLAIM", ![r].px = px]
    /\ UNCHANGED <<clock, interactions, lapses, markers, started, proven>>

\* The interaction as it was read, with a challenge.
Step(interaction, c) == [interaction EXCEPT !.email = c]

\* Mutant: SET without XX.
SaveAnyway(r) ==
    LET h == Handle(r) IN
    /\ At(r, "SAVE")
    /\ interactions' = [interactions EXCEPT ![h] =
         Step(requests[r].read, requests[r].challenge)]
    /\ lapses' = [lapses EXCEPT ![h] = clock + requests[r].px]
    /\ Goto(r, "SAVED")
    /\ UNCHANGED <<clock, markers, started, proven>>

\* SET XX of the step, whatever another tab saved since the read.
Save(r) ==
    LET h == Handle(r) IN
    /\ At(r, "SAVE")
    /\ \/ ~Stored(h) /\ Goto(r, "EXPIRED") /\ UNCHANGED <<interactions, lapses>>
       \/ /\ Stored(h)
          /\ interactions' = [interactions EXCEPT ![h] =
               Step(requests[r].read, requests[r].challenge)]
          /\ lapses' = [lapses EXCEPT ![h] = clock + requests[r].px]
          /\ Goto(r, "SAVED")
    /\ UNCHANGED <<clock, markers, started, proven>>

\* SET NX of the marker: the caller wins if it is answered OK.
Claim(r) ==
    LET h == Handle(r) IN
    /\ At(r, "CLAIM")
    /\ \/ Marked(h) /\ Goto(r, "EXPIRED") /\ UNCHANGED markers
       \/ /\ ~Marked(h)
          /\ markers' = [markers EXCEPT ![h] = clock + requests[r].px]
          /\ requests' = [requests EXCEPT ![r].stage = "WON", ![r].wonAt = clock]
    /\ UNCHANGED <<clock, interactions, lapses, started, proven>>

\* DEL of the interaction.
Drop(r) ==
    /\ At(r, "WON")
    /\ interactions' = [interactions EXCEPT ![Handle(r)] = NoInteraction]
    /\ Goto(r, "CONSUMED")
    /\ UNCHANGED <<clock, lapses, markers, started, proven>>

\* The winner hands an authorization code or a face session to the browser;
\* a refused result or redirect leaves it with nothing.
HandOver(r) ==
    /\ At(r, "CONSUMED")
    /\ Goto(r, "HANDED") \/ Goto(r, "FAILED")
    /\ UNCHANGED <<clock, interactions, lapses, markers, started, proven>>

Ends == {"SAVED", "HANDED", "EXPIRED", "FAILED", "CRASHED"}

Crash(r) ==
    /\ requests[r].stage \notin Ends \cup {"IDLE"}
    /\ Goto(r, "CRASHED")
    /\ UNCHANGED <<clock, interactions, lapses, markers, started, proven>>

Tick ==
    /\ clock < MaxTime
    /\ clock' = clock + 1
    /\ UNCHANGED <<interactions, lapses, markers, requests, started, proven>>

-----------------------------------------------------------------------------
Handler(r) ==
    \/ Get(r) \/ Delete(r) \/ Look(r)
    \/ Refuse(r) \/ StartEmail(r) \/ VerifyEmail(r) \/ ChooseFace(r)
    \/ Lease(r) \/ Save(r) \/ Claim(r) \/ Drop(r) \/ HandOver(r)

Next ==
    \/ \E r \in RequestIds :
         \/ Handler(r) \/ Crash(r)
         \/ \E h \in Handles, route \in Routes : Submit(r, h, route)
    \/ \E h \in Handles : Create(h)
    \/ Tick

Spec == Init /\ [][Next]_vars

-----------------------------------------------------------------------------
(* Properties.                                                             *)

TypeOK ==
    /\ clock \in Nat
    /\ interactions \in [Handles -> Interaction \cup {NoInteraction}]
    /\ lapses \in [Handles -> Nat] /\ markers \in [Handles -> Nat]
    /\ requests \in [RequestIds -> Request]
    /\ started \subseteq ChallengeIds /\ proven \subseteq started

\* The requests whose SET NX won interaction h.
Winners(h) == {r \in RequestIds : Handle(r) = h /\ requests[r].wonAt # Never}

InTime(r) == requests[r].wonAt < requests[r].read.expiresAt

\* At most one request turns an interaction into a login before the
\* interaction's deadline, whatever tabs, retries, crashes and late saves.
OneWinnerInTime ==
    \A h \in Handles : \A q, r \in Winners(h) : InTime(q) /\ InTime(r) => q = r

\* Whoever consults the store after an interaction was won, and before its
\* deadline, is told that there is none, although the key may still be there.
WonIsNotLoaded ==
    [][\A r \in RequestIds :
         At(r, "LOOK") /\ requests'[r].stage = "LOADED" /\ clock < requests[r].read.expiresAt
         => Winners(Handle(r)) = {}]_vars

\* An interaction that was deleted stays deleted: a request that read it
\* before and saves its step afterwards does not bring it back.
DeletedStaysDeleted ==
    [][\A h \in Handles :
         lapses[h] # 0 /\ interactions[h] = NoInteraction => interactions'[h] = NoInteraction]_vars

\* A verified code is turned down at the interaction only if another request
\* won it, or if it ran out.
ProofsNotWasted ==
    \A r \in RequestIds :
      At(r, "EXPIRED") /\ requests[r].challenge \in proven =>
        \/ Winners(Handle(r)) \ {r} # {}
        \/ PastDeadline(requests[r].read)

\* The comment on consume: exactly one caller can win the marker.
OneWinner == \A h \in Handles : \A q, r \in Winners(h) : q = r

\* What is gone stays gone: an interaction that was won is found by nobody before
\* its deadline, and one that was deleted is not brought back by a late save.
GoneStaysGone == WonIsNotLoaded /\ DeletedStaysDeleted
=============================================================================
