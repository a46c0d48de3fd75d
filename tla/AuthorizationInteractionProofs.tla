-------------------- MODULE AuthorizationInteractionProofs --------------------
(***************************************************************************)
(* Theorems about AuthorizationInteraction, for any handles, challenges    *)
(* and requests and any lifetime of an interaction.                        *)
(*                                                                         *)
(* The marker of a won interaction has to outlast the deadline that every  *)
(* reader of that interaction holds.  It does because all copies of an     *)
(* interaction agree on the deadline (save keeps it), and because the      *)
(* lifetime left was worked out no later than it is used.                  *)
(***************************************************************************)
EXTENDS AuthorizationInteraction, TLAPS

\* The stages of a request that goes on with an interaction it has read.
Holding == {"LOOK", "LOADED", "STARTED", "SAVE", "REGET", "RELOOK", "LEASE", "CLAIM",
            "WON", "CONSUMED"}

\* The stages of a request that has won.
Winning == {"WON", "CONSUMED", "HANDED", "FAILED", "CRASHED"}

\* What the stage of a request says of its other fields.
Placed ==
    \A r \in RequestIds :
      /\ requests[r].stage = "IDLE" => requests[r].read = NoInteraction
      /\ requests[r].stage # "IDLE" => Handle(r) \in Handles
      /\ requests[r].stage \in Holding => requests[r].read # NoInteraction
      /\ requests[r].wonAt # Never =>
           requests[r].stage \in Winning /\ requests[r].read # NoInteraction
      /\ requests[r].stage \in {"SAVE", "CLAIM"} =>
           requests[r].px >= 1 /\ requests[r].read.expiresAt <= clock + requests[r].px

\* Nobody has read an interaction that was not created.
Fresh ==
    \A h \in Handles : lapses[h] = 0 =>
      /\ interactions[h] = NoInteraction
      /\ \A r \in RequestIds : Handle(r) = h => requests[r].read = NoInteraction

\* All copies of an interaction agree on its deadline.
SameDeadline ==
    \A r \in RequestIds : requests[r].read # NoInteraction =>
      /\ interactions[Handle(r)] # NoInteraction =>
           interactions[Handle(r)].expiresAt = requests[r].read.expiresAt
      /\ \A q \in RequestIds :
           requests[q].read # NoInteraction /\ Handle(q) = Handle(r) =>
             requests[q].read.expiresAt = requests[r].read.expiresAt

\* The marker of a winner stays until the deadline.
MarkerLasts ==
    \A h \in Handles : \A r \in Winners(h) : requests[r].read.expiresAt <= markers[h]

\* A challenge that is mentioned anywhere was started.
Mentioned ==
    /\ \A h \in Handles : interactions[h] # NoInteraction =>
         interactions[h].email \in started \cup {NoChallenge}
    /\ \A r \in RequestIds :
         /\ requests[r].read # NoInteraction =>
              requests[r].read.email \in started \cup {NoChallenge}
         /\ requests[r].challenge \in started \cup {NoChallenge}

Safe == Placed /\ Fresh /\ SameDeadline /\ MarkerLasts /\ Mentioned /\ OneWinnerInTime

\* The inductive invariant.
InteractionInv == TypeOK /\ Safe

-----------------------------------------------------------------------------
(* How one step writes.                                                    *)

\* Only request r changes, and of it not what it read or won.
Moved(r) ==
    /\ requests' \in [RequestIds -> Request]
    /\ \A q \in RequestIds \ {r} : requests'[q] = requests[q]
    /\ requests'[r].handle = requests[r].handle
    /\ requests'[r].read = requests[r].read
    /\ requests'[r].wonAt = requests[r].wonAt

\* Changing the stage of a request changes nothing else of it, and no other.
LEMMA GotoWrites ==
    ASSUME TypeOK, NEW r \in RequestIds, NEW stage \in Stages, Goto(r, stage)
    PROVE  /\ Moved(r)
           /\ requests'[r].route = requests[r].route
           /\ requests'[r].stage = stage
           /\ requests'[r].px = requests[r].px
           /\ requests'[r].challenge = requests[r].challenge
<1>1. requests \in [RequestIds -> Request]
  BY DEF TypeOK
<1>2. requests' = [requests EXCEPT ![r].stage = stage]
  BY DEF Goto
<1>3. [requests[r] EXCEPT !.stage = stage] \in Request
  BY <1>1 DEF Request
<1> QED
  BY <1>1, <1>2, <1>3 DEF Request, Moved

\* So does changing its stage and the challenge it is about.
LEMMA ChallengeWrites ==
    ASSUME TypeOK, NEW r \in RequestIds, NEW stage \in Stages, NEW c \in ChallengeIds,
           requests' = [requests EXCEPT ![r].stage = stage, ![r].challenge = c]
    PROVE  /\ Moved(r)
           /\ requests'[r].route = requests[r].route
           /\ requests'[r].stage = stage
           /\ requests'[r].px = requests[r].px
           /\ requests'[r].challenge = c
<1>1. requests \in [RequestIds -> Request]
  BY DEF TypeOK
<1>2. [requests[r] EXCEPT !.stage = stage, !.challenge = c] \in Request
  BY <1>1 DEF Request
<1> QED
  BY <1>1, <1>2 DEF Request, Moved

\* So does writing its stage and the lifetime of the key to be written.
LEMMA LeaseWrites ==
    ASSUME TypeOK, NEW r \in RequestIds, NEW stage \in Stages, NEW px \in Nat,
           requests' = [requests EXCEPT ![r].stage = stage, ![r].px = px]
    PROVE  /\ Moved(r)
           /\ requests'[r].route = requests[r].route
           /\ requests'[r].stage = stage
           /\ requests'[r].px = px
           /\ requests'[r].challenge = requests[r].challenge
<1>1. requests \in [RequestIds -> Request]
  BY DEF TypeOK
<1>2. [requests[r] EXCEPT !.stage = stage, !.px = px] \in Request
  BY <1>1 DEF Request
<1> QED
  BY <1>1, <1>2 DEF Request, Moved

\* What find returned is written with the stage.
LEMMA ReadWrites ==
    ASSUME TypeOK, NEW r \in RequestIds, NEW stage \in Stages, NEW read \in Interaction,
           requests' = [requests EXCEPT ![r].stage = stage, ![r].read = read]
    PROVE  /\ requests' \in [RequestIds -> Request]
           /\ requests'[r].route = requests[r].route
           /\ requests'[r].stage = stage /\ requests'[r].read = read
           /\ requests'[r].handle = requests[r].handle
           /\ requests'[r].wonAt = requests[r].wonAt
           /\ requests'[r].challenge = requests[r].challenge
           /\ \A q \in RequestIds \ {r} : requests'[q] = requests[q]
<1>1. requests \in [RequestIds -> Request]
  BY DEF TypeOK
<1>2. [requests[r] EXCEPT !.stage = stage, !.read = read] \in Request
  BY <1>1 DEF Request
<1> QED
  BY <1>1, <1>2 DEF Request

\* When the marker was set is written with the stage.
LEMMA WonWrites ==
    ASSUME TypeOK, NEW r \in RequestIds, NEW stage \in Stages, NEW at \in Nat,
           requests' = [requests EXCEPT ![r].stage = stage, ![r].wonAt = at]
    PROVE  /\ requests' \in [RequestIds -> Request]
           /\ requests'[r].route = requests[r].route
           /\ requests'[r].stage = stage /\ requests'[r].wonAt = at
           /\ requests'[r].handle = requests[r].handle
           /\ requests'[r].read = requests[r].read
           /\ requests'[r].challenge = requests[r].challenge
           /\ \A q \in RequestIds \ {r} : requests'[q] = requests[q]
<1>1. requests \in [RequestIds -> Request]
  BY DEF TypeOK
<1>2. [requests[r] EXCEPT !.stage = stage, !.wonAt = at] \in Request
  BY <1>1 DEF Request
<1> QED
  BY <1>1, <1>2 DEF Request

-----------------------------------------------------------------------------
(* The invariant, one kind of step at a time.                              *)

\* A step of one request that wins nothing and reads nothing new.
LEMMA MovedStep ==
    ASSUME TypeOK, TypeOK', Safe, NEW r \in RequestIds, Moved(r),
           requests[r].stage # "IDLE", requests'[r].stage # "IDLE",
           requests'[r].stage \in Holding => requests[r].stage \in Holding,
           requests[r].wonAt # Never => requests'[r].stage \in Winning,
           requests'[r].stage \in {"SAVE", "CLAIM"} =>
             /\ requests'[r].px >= 1
             /\ requests[r].read.expiresAt <= clock + requests'[r].px,
           requests'[r].challenge \in started' \cup {NoChallenge},
           started \subseteq started', UNCHANGED <<clock, markers>>,
           \A h \in Handles : lapses'[h] = 0 => lapses[h] = 0,
           \A h \in Handles :
             \/ interactions'[h] \in {interactions[h], NoInteraction}
             \/ /\ interactions[h] # NoInteraction /\ interactions'[h] # NoInteraction
                /\ interactions'[h].expiresAt = interactions[h].expiresAt
                /\ interactions'[h].email \in started' \cup {NoChallenge}
    PROVE  Safe'
<1> USE DEF Safe
<1>1. \A q \in RequestIds : /\ requests'[q].handle = requests[q].handle
                            /\ requests'[q].read = requests[q].read
                            /\ requests'[q].wonAt = requests[q].wonAt
  BY DEF Moved
<1>2. \A q \in RequestIds \ {r} : requests'[q] = requests[q]
  BY DEF Moved
<1>3. \A h : Winners(h)' = Winners(h)
  BY <1>1 DEF Winners, Handle
<1>4. Placed'
  <2> SUFFICES ASSUME NEW q \in RequestIds
               PROVE  (/\ requests[q].stage = "IDLE" => requests[q].read = NoInteraction
                       /\ requests[q].stage # "IDLE" => Handle(q) \in Handles
                       /\ requests[q].stage \in Holding => requests[q].read # NoInteraction
                       /\ requests[q].wonAt # Never =>
                            requests[q].stage \in Winning /\ requests[q].read # NoInteraction
                       /\ requests[q].stage \in {"SAVE", "CLAIM"} =>
                            /\ requests[q].px >= 1
                            /\ requests[q].read.expiresAt <= clock + requests[q].px)'
    BY DEF Placed
  <2>1. CASE q = r
    BY <1>1, <2>1 DEF Placed, Handle
  <2>2. CASE q # r
    BY <1>2, <2>2 DEF Placed, Handle
  <2> QED
    BY <2>1, <2>2
<1>5. Fresh'
  BY <1>1 DEF Fresh, Handle
<1>6. SameDeadline'
  <2>1. ASSUME NEW q \in RequestIds, (requests[q].read # NoInteraction)',
               (interactions[Handle(q)] # NoInteraction)'
        PROVE  (interactions[Handle(q)].expiresAt = requests[q].read.expiresAt)'
    <3>1. PICK h \in Handles : h = Handle(q)
      BY <1>1, <2>1 DEF Placed, Handle
    <3>2. Handle(q)' = h
      BY <1>1, <3>1 DEF Handle
    <3>3. interactions[h] # NoInteraction
          /\ interactions'[h].expiresAt = interactions[h].expiresAt
      BY <2>1, <3>2
    <3> QED
      BY <1>1, <2>1, <3>1, <3>2, <3>3 DEF SameDeadline
  <2>2. ASSUME NEW q \in RequestIds, NEW p \in RequestIds,
               (requests[q].read # NoInteraction)', (requests[p].read # NoInteraction)',
               (Handle(p) = Handle(q))'
        PROVE  (requests[p].read.expiresAt = requests[q].read.expiresAt)'
    BY <1>1, <2>2 DEF SameDeadline, Handle
  <2> QED
    BY <2>1, <2>2 DEF SameDeadline
<1>7. MarkerLasts'
  <2>1. \A h \in Handles : \A q \in Winners(h) : q \in RequestIds
    BY DEF Winners
  <2> QED
    BY <1>1, <1>3, <2>1 DEF MarkerLasts
<1>8. Mentioned'
  <2>1. \A h \in Handles : interactions'[h] # NoInteraction =>
          interactions'[h].email \in started' \cup {NoChallenge}
    BY DEF Mentioned
  <2>2. ASSUME NEW q \in RequestIds
        PROVE  /\ requests'[q].read # NoInteraction =>
                    requests'[q].read.email \in started' \cup {NoChallenge}
               /\ requests'[q].challenge \in started' \cup {NoChallenge}
    BY <1>1, <1>2 DEF Mentioned
  <2> QED
    BY <2>1, <2>2 DEF Mentioned
<1>9. OneWinnerInTime'
  <2>1. \A h \in Handles : \A q \in Winners(h) : q \in RequestIds
    BY DEF Winners
  <2>2. \A q \in RequestIds : InTime(q)' = InTime(q)
    BY <1>1 DEF InTime
  <2> QED
    BY <1>3, <2>1, <2>2 DEF OneWinnerInTime
<1> QED
  BY <1>4, <1>5, <1>6, <1>7, <1>8, <1>9

\* A new interaction: nobody knows its handle yet.
LEMMA CreateStep ==
    ASSUME TypeOK, Safe, NEW h \in Handles, Create(h)
    PROVE  TypeOK' /\ Safe'
<1> USE DEF Safe
<1>1. PICK createdAt \in 0 .. clock :
        interactions' = [interactions EXCEPT ![h] =
          [email |-> NoChallenge, expiresAt |-> createdAt + TTL]]
  BY DEF Create
<1> DEFINE new == [email |-> NoChallenge, expiresAt |-> createdAt + TTL]
<1>2. new \in Interaction /\ new.email = NoChallenge
  BY TimesAssumption DEF TypeOK, Interaction
<1>3. clock + TTL \in Nat \ {0}
  BY TimesAssumption DEF TypeOK
<1>4. /\ interactions' = [interactions EXCEPT ![h] = new]
      /\ lapses' = [lapses EXCEPT ![h] = clock + TTL]
      /\ clock' = clock /\ markers' = markers /\ requests' = requests
      /\ started' = started /\ proven' = proven
  BY <1>1 DEF Create
<1> HIDE DEF new
<1>5. TypeOK'
  BY <1>2, <1>3, <1>4 DEF TypeOK
<1>6. \A r \in RequestIds : Handle(r) = h => requests[r].read = NoInteraction
  BY DEF Create, Fresh
<1>7. /\ interactions'[h] = new /\ lapses'[h] # 0
      /\ \A j \in Handles \ {h} : interactions'[j] = interactions[j] /\ lapses'[j] = lapses[j]
  BY <1>3, <1>4 DEF TypeOK
<1>8. Placed' /\ MarkerLasts' /\ OneWinnerInTime'
  BY <1>4 DEF Placed, MarkerLasts, OneWinnerInTime, Winners, InTime, Handle
<1>9. Fresh'
  BY <1>4, <1>7 DEF Fresh, Handle
<1>10. SameDeadline'
  <2>1. ASSUME NEW q \in RequestIds, requests[q].read # NoInteraction
        PROVE  interactions'[Handle(q)] = interactions[Handle(q)]
    <3>1. Handle(q) \in Handles
      BY <2>1 DEF Placed
    <3>2. Handle(q) # h
      BY <1>6, <2>1
    <3> QED
      BY <1>7, <3>1, <3>2
  <2> QED
    BY <1>4, <2>1 DEF SameDeadline, Handle
<1>11. Mentioned'
  BY <1>2, <1>4, <1>7 DEF Mentioned
<1> QED
  BY <1>5, <1>8, <1>9, <1>10, <1>11

\* A blank request is a request.
LEMMA BlankTyped ==
    ASSUME NEW stage \in Stages, NEW h \in Handles \cup {NoHandle}, NEW route \in Routes
    PROVE  Blank(stage, route, h) \in Request
<1>1. NoInteraction \in Interaction \cup {NoInteraction} /\ Never \in Nat \cup {Never}
      /\ NoChallenge \in ChallengeIds \cup {NoChallenge}
  OBVIOUS
<1> QED
  BY <1>1 DEF Request, Blank

\* A form that is submitted has read nothing.
LEMMA SubmitStep ==
    ASSUME TypeOK, Safe, NEW r \in RequestIds, NEW h \in Handles, NEW route \in Routes,
           Submit(r, h, route)
    PROVE  TypeOK' /\ Safe'
<1> USE DEF Safe
<1> DEFINE request == Blank("GET", route, h)
<1>1. /\ request \in Request /\ request.stage = "GET" /\ request.handle = h
      /\ request.read = NoInteraction /\ request.challenge = NoChallenge
      /\ request.wonAt = Never
  <2>1. request \in Request
    BY BlankTyped DEF Stages
  <2> QED
    BY <2>1 DEF Blank
<1>2. requests' = [requests EXCEPT ![r] = request]
  BY DEF Submit
<1> HIDE DEF request
<1>3. /\ requests' \in [RequestIds -> Request] /\ requests'[r] = request
      /\ \A q \in RequestIds \ {r} : requests'[q] = requests[q]
  BY <1>1, <1>2 DEF TypeOK
<1>4. /\ clock' = clock /\ interactions' = interactions /\ lapses' = lapses
      /\ markers' = markers /\ started' = started /\ proven' = proven
  BY DEF Submit
<1>5. TypeOK'
  BY <1>3, <1>4 DEF TypeOK
<1>6. requests[r].read = NoInteraction
  BY DEF Submit, At, Placed
<1>7. requests[r].wonAt = Never
  BY <1>6 DEF Placed
<1>8. \A j : Winners(j)' = Winners(j)
  <2>1. \A j : \A q \in RequestIds : q \in Winners(j)' <=> q \in Winners(j)
    BY <1>1, <1>3, <1>7 DEF Winners, Handle
  <2> QED
    BY <2>1 DEF Winners
<1>9. \A j : \A q \in Winners(j) : q \in RequestIds \ {r}
  BY <1>7 DEF Winners
<1>10. Placed'
  BY <1>1, <1>3, <1>4 DEF Placed, Handle, Holding
<1>11. Fresh'
  BY <1>1, <1>3, <1>4 DEF Fresh, Handle
<1>12. SameDeadline'
  BY <1>1, <1>3, <1>4 DEF SameDeadline, Handle
<1>13. MarkerLasts'
  BY <1>3, <1>4, <1>8, <1>9 DEF MarkerLasts
<1>14. Mentioned'
  BY <1>1, <1>3, <1>4 DEF Mentioned
<1>15. OneWinnerInTime'
  BY <1>3, <1>8, <1>9 DEF OneWinnerInTime, InTime
<1> QED
  BY <1>5, <1>10, <1>11, <1>12, <1>13, <1>14, <1>15

\* find reads an interaction with the deadline that all its readers hold.
LEMMA ReadStep ==
    ASSUME TypeOK, Safe, NEW r \in RequestIds, NEW stage \in {"LOOK", "RELOOK"},
           At(r, "GET") \/ At(r, "REGET"), Stored(Handle(r)),
           requests' = [requests EXCEPT ![r].stage = stage,
                                        ![r].read = interactions[Handle(r)]],
           UNCHANGED <<clock, interactions, lapses, markers, started, proven>>
    PROVE  TypeOK' /\ Safe'
<1> USE DEF Safe
<1>0. PICK h \in Handles : h = Handle(r)
  BY DEF Placed, At
<1>1. interactions[h] \in Interaction /\ interactions[h] # NoInteraction
  BY <1>0 DEF Stored, TypeOK
<1>2. requests' = [requests EXCEPT ![r].stage = stage, ![r].read = interactions[h]]
  BY <1>0
<1>3. /\ requests' \in [RequestIds -> Request]
      /\ requests'[r].stage = stage /\ requests'[r].read = interactions[h]
      /\ requests'[r].handle = h /\ requests'[r].wonAt = requests[r].wonAt
      /\ requests'[r].challenge = requests[r].challenge
      /\ \A q \in RequestIds \ {r} : requests'[q] = requests[q]
  <2>1. interactions[h] \in Interaction /\ stage \in Stages
    BY <1>1 DEF Stages
  <2>2. /\ requests' \in [RequestIds -> Request]
        /\ requests'[r].route = requests[r].route
        /\ requests'[r].stage = stage /\ requests'[r].read = interactions[h]
        /\ requests'[r].handle = requests[r].handle
        /\ requests'[r].wonAt = requests[r].wonAt
        /\ requests'[r].challenge = requests[r].challenge
        /\ \A q \in RequestIds \ {r} : requests'[q] = requests[q]
    BY <1>2, <2>1, ReadWrites
  <2> QED
    BY <1>0, <2>2 DEF Handle
<1>4. TypeOK'
  BY <1>3 DEF TypeOK
<1>5. requests[r].wonAt = Never
  BY DEF Placed, At, Winning
<1>6. \A j : Winners(j)' = Winners(j)
  <2>1. \A j : \A q \in RequestIds : q \in Winners(j)' <=> q \in Winners(j)
    BY <1>3, <1>5 DEF Winners, Handle
  <2> QED
    BY <2>1 DEF Winners
<1>7. \A j : \A q \in Winners(j) : q \in RequestIds \ {r}
  BY <1>5 DEF Winners
<1>8. lapses[h] # 0
  BY <1>1 DEF Fresh
<1>9. Placed'
  BY <1>1, <1>3, <1>5 DEF Placed, Handle, Holding
<1>10. Fresh'
  BY <1>3, <1>8 DEF Fresh, Handle
<1>11. SameDeadline'
  <2>1. ASSUME NEW q \in RequestIds \ {r}, requests[q].read # NoInteraction, Handle(q) = h
        PROVE  requests[q].read.expiresAt = interactions[h].expiresAt
    BY <1>1, <2>1 DEF SameDeadline
  <2>2. \A q \in RequestIds : Handle(q)' = Handle(q)
    BY <1>0, <1>3 DEF Handle
  <2>3. ASSUME NEW q \in RequestIds, (requests[q].read # NoInteraction)',
               (interactions[Handle(q)] # NoInteraction)'
        PROVE  (interactions[Handle(q)].expiresAt = requests[q].read.expiresAt)'
    <3>1. CASE q = r
      BY <1>0, <1>3, <2>2, <3>1
    <3>2. CASE q # r
      BY <1>3, <2>2, <2>3, <3>2 DEF SameDeadline
    <3> QED
      BY <3>1, <3>2
  <2>4. ASSUME NEW q \in RequestIds, NEW p \in RequestIds,
               (requests[q].read # NoInteraction)', (requests[p].read # NoInteraction)',
               (Handle(p) = Handle(q))'
        PROVE  (requests[p].read.expiresAt = requests[q].read.expiresAt)'
    <3>0. Handle(p) = Handle(q)
      BY <2>2, <2>4
    <3>1. CASE q = r /\ p = r
      BY <3>1
    <3>2. CASE q = r /\ p # r
      BY <1>0, <1>3, <2>1, <2>4, <3>0, <3>2
    <3>3. CASE q # r /\ p = r
      BY <1>0, <1>3, <2>1, <2>4, <3>0, <3>3
    <3>4. CASE q # r /\ p # r
      BY <1>3, <2>4, <3>0, <3>4 DEF SameDeadline
    <3> QED
      BY <3>1, <3>2, <3>3, <3>4
  <2> QED
    BY <2>3, <2>4 DEF SameDeadline
<1>12. MarkerLasts'
  BY <1>3, <1>6, <1>7 DEF MarkerLasts
<1>13. Mentioned'
  BY <1>1, <1>3 DEF Mentioned
<1>14. OneWinnerInTime'
  BY <1>3, <1>6, <1>7 DEF OneWinnerInTime, InTime
<1> QED
  BY <1>4, <1>9, <1>10, <1>11, <1>12, <1>13, <1>14

\* A request wins while no marker is there: an earlier winner's marker has
\* lapsed, so the deadline they both read is past.
LEMMA WinStep ==
    ASSUME TypeOK, Safe, NEW r \in RequestIds, At(r, "CLAIM"), ~Marked(Handle(r)),
           markers' = [markers EXCEPT ![Handle(r)] = clock + requests[r].px],
           requests' = [requests EXCEPT ![r].stage = "WON", ![r].wonAt = clock],
           UNCHANGED <<clock, interactions, lapses, started, proven>>
    PROVE  TypeOK' /\ Safe'
<1> USE DEF Safe
<1>0. PICK h \in Handles : h = Handle(r)
  BY DEF Placed, At
<1>1. /\ requests[r].read \in Interaction /\ requests[r].read # NoInteraction
      /\ requests[r].read.expiresAt \in Nat /\ requests[r].px \in Nat
      /\ requests[r].read.expiresAt <= clock + requests[r].px
  <2>1. requests[r].read # NoInteraction
        /\ requests[r].read.expiresAt <= clock + requests[r].px
    BY DEF Placed, At, Holding
  <2>2. requests[r].read \in Interaction /\ requests[r].px \in Nat
    BY <2>1 DEF TypeOK, Request
  <2> QED
    BY <2>1, <2>2 DEF Interaction
<1>2. clock \in Nat /\ "WON" \in Stages
  BY DEF TypeOK, Stages
<1>3. /\ requests' \in [RequestIds -> Request]
      /\ requests'[r].stage = "WON" /\ requests'[r].read = requests[r].read
      /\ requests'[r].handle = h /\ requests'[r].wonAt = clock
      /\ requests'[r].challenge = requests[r].challenge
      /\ \A q \in RequestIds \ {r} : requests'[q] = requests[q]
  <2>1. /\ requests' \in [RequestIds -> Request]
        /\ requests'[r].route = requests[r].route
        /\ requests'[r].stage = "WON" /\ requests'[r].wonAt = clock
        /\ requests'[r].handle = requests[r].handle
        /\ requests'[r].read = requests[r].read
        /\ requests'[r].challenge = requests[r].challenge
        /\ \A q \in RequestIds \ {r} : requests'[q] = requests[q]
    BY <1>2, WonWrites
  <2> QED
    BY <1>0, <2>1 DEF Handle
<1>4. /\ markers'[h] = clock + requests[r].px
      /\ \A j \in Handles \ {h} : markers'[j] = markers[j]
      /\ markers' \in [Handles -> Nat]
  BY <1>0, <1>1 DEF TypeOK
<1>5. TypeOK'
  BY <1>3, <1>4 DEF TypeOK
<1>6. requests[r].wonAt = Never
  BY DEF Placed, At, Winning
<1>7. clock \in Nat /\ clock # Never
  BY DEF TypeOK, Never
<1>8. /\ Winners(h)' = Winners(h) \cup {r}
      /\ \A j \in Handles \ {h} : Winners(j)' = Winners(j)
  <2>1. \A j \in Handles : \A q \in RequestIds : q # r =>
          (q \in Winners(j)' <=> q \in Winners(j))
    BY <1>3 DEF Winners, Handle
  <2>2. r \in Winners(h)' /\ \A j \in Handles \ {h} : r \notin Winners(j)'
    BY <1>3, <1>7 DEF Winners, Handle
  <2>3. \A j \in Handles : r \notin Winners(j)
    BY <1>6 DEF Winners
  <2>4. \A j \in Handles : Winners(j) \subseteq RequestIds /\ Winners(j)' \subseteq RequestIds
    BY DEF Winners
  <2> QED
    BY <2>1, <2>2, <2>3, <2>4
<1>9. \A j \in Handles : \A q \in Winners(j) :
        /\ q \in RequestIds \ {r} /\ Handle(q) = j /\ requests[q].read # NoInteraction
        /\ requests'[q] = requests[q]
  BY <1>3, <1>6 DEF Winners, Placed
<1>10. \A q \in Winners(h) : requests[q].read.expiresAt = requests[r].read.expiresAt
  BY <1>0, <1>1, <1>9 DEF SameDeadline
<1>11. Winners(h) # {} => requests[r].read.expiresAt <= clock
  <2>1. markers[h] <= clock
    BY <1>0, <1>7 DEF Marked, TypeOK
  <2>2. markers[h] \in Nat
    BY DEF TypeOK
  <2>3. ASSUME NEW q \in Winners(h) PROVE requests[r].read.expiresAt <= markers[h]
    BY <1>10 DEF MarkerLasts
  <2> QED
    BY <1>1, <1>7, <2>1, <2>2, <2>3
<1>12. Placed'
  BY <1>1, <1>3 DEF Placed, Handle, Holding, Winning
<1>13. Fresh'
  BY <1>3, <1>0 DEF Fresh, Handle
<1>14. SameDeadline'
  <2>1. \A q \in RequestIds : requests'[q].read = requests[q].read /\ Handle(q)' = Handle(q)
    BY <1>0, <1>3 DEF Handle
  <2>2. ASSUME NEW q \in RequestIds, (requests[q].read # NoInteraction)',
               (interactions[Handle(q)] # NoInteraction)'
        PROVE  (interactions[Handle(q)].expiresAt = requests[q].read.expiresAt)'
    BY <2>1, <2>2 DEF SameDeadline
  <2>3. ASSUME NEW q \in RequestIds, NEW p \in RequestIds,
               (requests[q].read # NoInteraction)', (requests[p].read # NoInteraction)',
               (Handle(p) = Handle(q))'
        PROVE  (requests[p].read.expiresAt = requests[q].read.expiresAt)'
    <3>1. /\ requests'[p].read = requests[p].read /\ requests'[q].read = requests[q].read
          /\ Handle(p) = Handle(q)
      BY <2>1, <2>3
    <3>2. requests[p].read # NoInteraction /\ requests[q].read # NoInteraction
      BY <2>3, <3>1
    <3>3. requests[p].read.expiresAt = requests[q].read.expiresAt
      BY <3>1, <3>2 DEF SameDeadline
    <3> QED
      BY <3>1, <3>3
  <2> QED
    BY <2>2, <2>3 DEF SameDeadline
<1>15. MarkerLasts'
  <2>1. ASSUME NEW j \in Handles, NEW q \in Winners(j)'
        PROVE  requests'[q].read.expiresAt <= markers'[j]
    <3>1. CASE j # h
      <4>1. q \in Winners(j) /\ markers'[j] = markers[j]
        BY <1>4, <1>8, <2>1, <3>1
      <4>2. requests'[q] = requests[q]
        BY <1>9, <4>1
      <4> QED
        BY <4>1, <4>2 DEF MarkerLasts
    <3>2. CASE j = h
      <4>1. requests'[q].read.expiresAt = requests[r].read.expiresAt
        BY <1>3, <1>8, <1>9, <1>10, <2>1, <3>2
      <4> QED
        BY <1>1, <1>4, <3>2, <4>1
    <3> QED
      BY <3>1, <3>2
  <2> QED
    BY <2>1 DEF MarkerLasts
<1>16. Mentioned'
  BY <1>3 DEF Mentioned
<1>17. OneWinnerInTime'
  <2>1. InTime(r)' <=> clock < requests[r].read.expiresAt
    BY <1>3 DEF InTime
  <2>2. \A j \in Handles : \A q \in Winners(j) : InTime(q)' = InTime(q)
    BY <1>9 DEF InTime
  <2>3. Winners(h) # {} => ~InTime(r)'
    BY <1>1, <1>7, <1>11, <2>1
  <2> QED
    BY <1>8, <2>2, <2>3 DEF OneWinnerInTime
<1> QED
  BY <1>5, <1>12, <1>13, <1>14, <1>15, <1>16, <1>17

\* Time only makes lifetimes reach further.
LEMMA TickStep ==
    ASSUME TypeOK, Safe, Tick
    PROVE  TypeOK' /\ Safe'
<1> USE DEF Safe
<1>1. /\ clock \in Nat /\ clock' = clock + 1
      /\ interactions' = interactions /\ lapses' = lapses /\ markers' = markers
      /\ requests' = requests /\ started' = started /\ proven' = proven
  BY DEF Tick, TypeOK
<1>2. TypeOK'
  BY <1>1 DEF TypeOK
<1>3. Placed'
  <2>1. ASSUME NEW r \in RequestIds, requests[r].stage \in {"SAVE", "CLAIM"}
        PROVE  requests[r].read.expiresAt <= clock' + requests[r].px
    <3>1. requests[r].read.expiresAt <= clock + requests[r].px
      BY <2>1 DEF Placed
    <3>2. requests[r].read \in Interaction /\ requests[r].px \in Nat
      BY <2>1 DEF Placed, Holding, TypeOK, Request
    <3>3. requests[r].read.expiresAt \in Nat
      BY <3>2 DEF Interaction
    <3> QED
      BY <1>1, <3>1, <3>2, <3>3
  <2> QED
    BY <1>1, <2>1 DEF Placed, Handle
<1>4. Fresh' /\ SameDeadline' /\ Mentioned'
  BY <1>1 DEF Fresh, SameDeadline, Mentioned, Handle
<1>5. MarkerLasts' /\ OneWinnerInTime'
  BY <1>1 DEF MarkerLasts, OneWinnerInTime, Winners, InTime, Handle
<1> QED
  BY <1>2, <1>3, <1>4, <1>5

-----------------------------------------------------------------------------
(* The actions of a request.                                               *)

\* A request that only goes to another stage, with the store as it was or
\* with its own interaction gone.
LEMMA GotoStep ==
    ASSUME TypeOK, Safe, NEW r \in RequestIds, requests[r].stage # "IDLE",
           NEW stage \in Stages \ {"IDLE", "SAVE", "CLAIM"}, Goto(r, stage),
           stage \in Holding => requests[r].stage \in Holding,
           requests[r].wonAt # Never => stage \in Winning,
           UNCHANGED <<clock, lapses, markers, started, proven>>,
           interactions' \in {interactions,
                              [interactions EXCEPT ![Handle(r)] = NoInteraction]}
    PROVE  TypeOK' /\ Safe'
<1>1. /\ Moved(r) /\ requests'[r].stage = stage
      /\ requests'[r].challenge = requests[r].challenge
  BY GotoWrites
<1>2. interactions' \in [Handles -> Interaction \cup {NoInteraction}]
      /\ \A h \in Handles : interactions'[h] \in {interactions[h], NoInteraction}
  BY DEF TypeOK
<1>3. TypeOK'
  BY <1>1, <1>2 DEF TypeOK, Moved
<1>4. requests'[r].challenge \in started' \cup {NoChallenge}
  BY <1>1 DEF Safe, Mentioned
<1> QED
  BY <1>1, <1>2, <1>3, <1>4, MovedStep

\* The lifetime that is left reaches to the deadline that was read.
LEMMA LeaseStep ==
    ASSUME TypeOK, Safe, NEW r \in RequestIds, Lease(r)
    PROVE  TypeOK' /\ Safe'
<1> DEFINE px == Remaining(requests[r].read)
<1>1. /\ requests[r].stage \in {"STARTED", "LEASE"} /\ requests[r].wonAt = Never
      /\ requests[r].read \in Interaction
  <2>1. requests[r].stage \in {"STARTED", "LEASE"}
    BY DEF Lease, At
  <2>2. requests[r].wonAt = Never
    BY <2>1 DEF Safe, Placed, Winning
  <2>3. requests[r].read # NoInteraction
    BY <2>1 DEF Safe, Placed, Holding
  <2> QED
    BY <2>1, <2>2, <2>3 DEF TypeOK, Request
<1>2. CASE px <= 0 /\ Goto(r, "EXPIRED")
  BY <1>1, <1>2, GotoStep DEF Lease, Stages, Holding
<1>3. CASE /\ px > 0
           /\ requests' = [requests EXCEPT
                ![r].stage = IF @ = "STARTED" THEN "SAVE" ELSE "CLAIM", ![r].px = px]
  <2>1. PICK stage \in {"SAVE", "CLAIM"} :
          requests' = [requests EXCEPT ![r].stage = stage, ![r].px = px]
    BY <1>3
  <2>2. requests[r].read.expiresAt \in Nat /\ clock \in Nat
    BY <1>1 DEF Interaction, TypeOK
  <2>3. px \in Nat /\ px >= 1 /\ requests[r].read.expiresAt <= clock + px
    BY <1>3, <2>2 DEF Remaining
  <2> HIDE DEF px
  <2>4. /\ Moved(r) /\ requests'[r].stage = stage /\ requests'[r].px = px
        /\ requests'[r].challenge = requests[r].challenge
    BY <2>1, <2>3, LeaseWrites DEF Stages
  <2>5. /\ UNCHANGED <<clock, interactions, lapses, markers, started, proven>>
    BY DEF Lease
  <2>6. TypeOK'
    BY <2>4, <2>5 DEF TypeOK, Moved
  <2>7. requests'[r].challenge \in started' \cup {NoChallenge}
    BY <2>4, <2>5 DEF Safe, Mentioned
  <2>8. requests[r].stage \in Holding
    BY <1>1 DEF Holding
  <2> QED
    BY <1>1, <2>3, <2>4, <2>5, <2>6, <2>7, <2>8, MovedStep
<1> QED
  BY <1>2, <1>3 DEF Lease

\* A challenge started or proven by a route.
LEMMA ChallengeStep ==
    ASSUME TypeOK, Safe, NEW r \in RequestIds, StartEmail(r) \/ VerifyEmail(r)
    PROVE  TypeOK' /\ Safe'
<1>1. /\ requests[r].stage = "LOADED" /\ requests[r].read # NoInteraction
      /\ requests[r].wonAt = Never
  BY DEF StartEmail, VerifyEmail, At, Safe, Placed, Holding, Winning
<1>2. UNCHANGED <<clock, interactions, lapses, markers>>
  BY DEF StartEmail, VerifyEmail
<1>3. PICK c \in ChallengeIds, stage \in {"STARTED", "REGET"} :
        /\ requests' = [requests EXCEPT ![r].stage = stage, ![r].challenge = c]
        /\ c \in started' /\ started \subseteq started'
        /\ started' \subseteq ChallengeIds /\ proven' \subseteq started'
  <2>1. CASE StartEmail(r)
    <3>1. PICK c \in ChallengeIds \ started :
            /\ started' = started \cup {c}
            /\ requests' = [requests EXCEPT ![r].stage = "STARTED", ![r].challenge = c]
      BY <2>1 DEF StartEmail
    <3>2. proven' = proven
      BY <2>1 DEF StartEmail
    <3> QED
      BY <3>1, <3>2 DEF TypeOK
  <2>2. CASE VerifyEmail(r)
    <3>1. PICK c \in ChallengeIds : c = requests[r].read.email
      BY <2>2 DEF VerifyEmail
    <3>2. /\ requests' = [requests EXCEPT ![r].stage = "REGET", ![r].challenge = c]
          /\ proven' = proven \cup {c} /\ started' = started
      BY <2>2, <3>1 DEF VerifyEmail
    <3>3. c \in started \cup {NoChallenge}
      BY <1>1, <3>1 DEF Safe, Mentioned
    <3>4. c \in started
      BY <3>3, AbsenceAssumption
    <3> QED
      BY <3>2, <3>4 DEF TypeOK
  <2> QED
    BY <2>1, <2>2
<1>4. Moved(r) /\ requests'[r].stage = stage /\ requests'[r].challenge = c
  BY <1>3, ChallengeWrites DEF Stages
<1>5. TypeOK'
  BY <1>2, <1>3, <1>4 DEF TypeOK, Moved
<1> QED
  BY <1>1, <1>2, <1>3, <1>4, <1>5, MovedStep DEF Holding

\* A step that is saved has the deadline of the interaction it replaces.
LEMMA SaveStep ==
    ASSUME TypeOK, Safe, NEW r \in RequestIds, Save(r)
    PROVE  TypeOK' /\ Safe'
<1>0. PICK h \in Handles : h = Handle(r)
  BY DEF Save, At, Safe, Placed
<1>1. /\ requests[r].stage = "SAVE" /\ requests[r].read # NoInteraction
      /\ requests[r].wonAt = Never /\ requests[r].px >= 1
  BY DEF Save, At, Safe, Placed, Holding, Winning
<1>2. CASE ~Stored(h) /\ Goto(r, "EXPIRED") /\ UNCHANGED <<interactions, lapses>>
  BY <1>1, <1>2, GotoStep DEF Save, Stages, Holding
<1>3. CASE Stored(h) /\ Goto(r, "SAVED")
           /\ interactions' = [interactions EXCEPT ![h] =
                Step(requests[r].read, requests[r].challenge)]
           /\ lapses' = [lapses EXCEPT ![h] = clock + requests[r].px]
  <2> DEFINE step == Step(requests[r].read, requests[r].challenge)
  <2>1. requests[r].read \in Interaction /\ requests[r].px \in Nat /\ clock \in Nat
        /\ requests[r].challenge \in ChallengeIds \cup {NoChallenge}
    BY <1>1 DEF TypeOK, Request
  <2>2. /\ step \in Interaction /\ step.expiresAt = requests[r].read.expiresAt
        /\ step.email = requests[r].challenge
    BY <2>1 DEF Step, Interaction
  <2>3. clock + requests[r].px \in Nat \ {0}
    BY <1>1, <2>1
  <2>4. interactions[h] # NoInteraction
        /\ interactions[h].expiresAt = requests[r].read.expiresAt
    BY <1>0, <1>1, <1>3 DEF Stored, Safe, SameDeadline
  <2>5. /\ Moved(r) /\ requests'[r].stage = "SAVED"
        /\ requests'[r].challenge = requests[r].challenge
    BY <1>3, GotoWrites DEF Stages
  <2>6. UNCHANGED <<clock, markers, started, proven>>
    BY DEF Save
  <2>7. requests[r].challenge \in started' \cup {NoChallenge}
    BY <2>6 DEF Safe, Mentioned
  <2> HIDE DEF step
  <2>8. /\ interactions' \in [Handles -> Interaction \cup {NoInteraction}]
        /\ interactions'[h] = step
        /\ \A j \in Handles \ {h} : interactions'[j] = interactions[j]
    BY <1>3, <2>2 DEF TypeOK, step
  <2>9. lapses' \in [Handles -> Nat] /\ \A j \in Handles : lapses'[j] = 0 => lapses[j] = 0
    BY <1>3, <2>3 DEF TypeOK
  <2>10. TypeOK'
    BY <2>5, <2>6, <2>8, <2>9 DEF TypeOK, Moved
  <2>11. \A j \in Handles :
           \/ interactions'[j] \in {interactions[j], NoInteraction}
           \/ /\ interactions[j] # NoInteraction /\ interactions'[j] # NoInteraction
              /\ interactions'[j].expiresAt = interactions[j].expiresAt
              /\ interactions'[j].email \in started' \cup {NoChallenge}
    <3>1. step # NoInteraction
      BY <2>2, AbsenceAssumption
    <3> QED
      BY <2>2, <2>4, <2>7, <2>8, <3>1
  <2>12. "SAVED" \notin Holding
    BY DEF Holding
  <2> QED
    BY <1>1, <2>5, <2>6, <2>7, <2>9, <2>10, <2>11, <2>12, MovedStep
<1> QED
  BY <1>0, <1>2, <1>3 DEF Save

\* Every step of a request that is served or dies.
LEMMA RequestStep ==
    ASSUME InteractionInv, NEW r \in RequestIds, Handler(r) \/ Crash(r)
    PROVE  InteractionInv'
<1>0. TypeOK /\ Safe
  BY DEF InteractionInv
<1>1. CASE Get(r)
  <2>1. requests[r].stage \in {"GET", "REGET"} /\ requests[r].wonAt = Never
    BY <1>0, <1>1 DEF Get, At, Safe, Placed, Winning
  <2>2. UNCHANGED <<clock, interactions, lapses, markers, started, proven>>
    BY <1>1 DEF Get
  <2>3. CASE \E stage \in {"EXPIRED", "DELETE"} : Goto(r, stage)
    BY <1>0, <2>1, <2>2, <2>3, GotoStep DEF Stages, Holding, InteractionInv
  <2>4. CASE /\ Stored(Handle(r))
             /\ requests' = [requests EXCEPT
                  ![r].stage = IF @ = "GET" THEN "LOOK" ELSE "RELOOK",
                  ![r].read = interactions[Handle(r)]]
    <3>1. PICK stage \in {"LOOK", "RELOOK"} :
            requests' = [requests EXCEPT ![r].stage = stage,
                                         ![r].read = interactions[Handle(r)]]
      BY <2>4
    <3>2. At(r, "GET") \/ At(r, "REGET")
      BY <1>1 DEF Get
    <3> QED
      BY <1>0, <2>2, <2>4, <3>1, <3>2, ReadStep DEF InteractionInv
  <2> QED
    BY <1>1, <2>3, <2>4 DEF Get
<1>2. CASE Delete(r) \/ Look(r) \/ Refuse(r) \/ ChooseFace(r)
  <2>1. requests[r].stage \in {"DELETE", "LOOK", "RELOOK", "LOADED"}
        /\ requests[r].wonAt = Never
    BY <1>0, <1>2 DEF Delete, Look, Refuse, ChooseFace, At, Safe, Placed, Winning
  <2>2. \E stage \in {"EXPIRED", "FAILED", "LOADED", "LEASE", "REGET"} :
          Goto(r, stage) /\ (stage \in Holding => requests[r].stage \in Holding)
    BY <1>2 DEF Delete, Look, Refuse, ChooseFace, At, Holding
  <2>3. /\ UNCHANGED <<clock, lapses, markers, started, proven>>
        /\ interactions' \in {interactions,
                              [interactions EXCEPT ![Handle(r)] = NoInteraction]}
    BY <1>2 DEF Delete, Look, Refuse, ChooseFace
  <2> QED
    BY <1>0, <2>1, <2>2, <2>3, GotoStep DEF Stages, InteractionInv
<1>3. CASE StartEmail(r) \/ VerifyEmail(r)
  BY <1>0, <1>3, ChallengeStep DEF InteractionInv
<1>4. CASE Lease(r)
  BY <1>0, <1>4, LeaseStep DEF InteractionInv
<1>5. CASE Save(r)
  BY <1>0, <1>5, SaveStep DEF InteractionInv
<1>6. CASE Claim(r)
  <2>1. requests[r].stage = "CLAIM" /\ requests[r].wonAt = Never /\ At(r, "CLAIM")
    BY <1>0, <1>6 DEF Claim, At, Safe, Placed, Winning
  <2>2. CASE Goto(r, "EXPIRED") /\ UNCHANGED markers
    BY <1>0, <1>6, <2>1, <2>2, GotoStep DEF Claim, Stages, Holding, InteractionInv
  <2>3. CASE /\ ~Marked(Handle(r))
             /\ markers' = [markers EXCEPT ![Handle(r)] = clock + requests[r].px]
             /\ requests' = [requests EXCEPT ![r].stage = "WON", ![r].wonAt = clock]
    BY <1>0, <1>6, <2>1, <2>3, WinStep DEF Claim, InteractionInv
  <2> QED
    BY <1>6, <2>2, <2>3 DEF Claim
<1>7. CASE Drop(r) \/ HandOver(r)
  <2>1. requests[r].stage \in {"WON", "CONSUMED"}
    BY <1>7 DEF Drop, HandOver, At
  <2>2. \E stage \in {"CONSUMED", "HANDED", "FAILED"} : Goto(r, stage)
    BY <1>7 DEF Drop, HandOver
  <2>3. /\ UNCHANGED <<clock, lapses, markers, started, proven>>
        /\ interactions' \in {interactions,
                              [interactions EXCEPT ![Handle(r)] = NoInteraction]}
    BY <1>7 DEF Drop, HandOver
  <2> QED
    BY <1>0, <2>1, <2>2, <2>3, GotoStep DEF Stages, Holding, Winning, InteractionInv
<1>8. CASE Crash(r)
  <2>1. requests[r].stage # "IDLE" /\ Goto(r, "CRASHED")
        /\ UNCHANGED <<clock, interactions, lapses, markers, started, proven>>
    BY <1>8 DEF Crash
  <2> QED
    BY <1>0, <2>1, GotoStep DEF Stages, Holding, Winning, InteractionInv
<1> QED
  BY <1>1, <1>2, <1>3, <1>4, <1>5, <1>6, <1>7, <1>8 DEF Handler

\* Every step keeps the invariant.
LEMMA InteractionInvStep == InteractionInv /\ [Next]_vars => InteractionInv'
<1> SUFFICES ASSUME InteractionInv, [Next]_vars PROVE InteractionInv'
  OBVIOUS
<1>1. CASE \E r \in RequestIds : Handler(r) \/ Crash(r)
  BY <1>1, RequestStep
<1>2. CASE \E r \in RequestIds, h \in Handles, route \in Routes : Submit(r, h, route)
  BY <1>2, SubmitStep DEF InteractionInv
<1>3. CASE \E h \in Handles : Create(h)
  BY <1>3, CreateStep DEF InteractionInv
<1>4. CASE Tick
  BY <1>4, TickStep DEF InteractionInv
<1>5. CASE UNCHANGED vars
  BY <1>5 DEF vars, InteractionInv, TypeOK, Safe, Placed, Fresh, SameDeadline, MarkerLasts,
     Mentioned, OneWinnerInTime, Winners, InTime, Handle
<1> QED
  BY <1>1, <1>2, <1>3, <1>4, <1>5 DEF Next

\* Before the first interaction.
LEMMA InteractionInvInit == Init => InteractionInv
<1> SUFFICES ASSUME Init PROVE InteractionInv
  OBVIOUS
<1>1. \A r \in RequestIds :
        /\ requests[r] \in Request /\ requests[r].stage = "IDLE"
        /\ requests[r].read = NoInteraction /\ requests[r].challenge = NoChallenge
        /\ requests[r].wonAt = Never
  <2>1. Blank("IDLE", "FACE", NoHandle) \in Request
    BY BlankTyped DEF Stages, Routes
  <2> QED
    BY <2>1 DEF Init, Blank
<1>2. requests \in [RequestIds -> Request]
  BY <1>1 DEF Init
<1>3. TypeOK
  BY <1>2 DEF Init, TypeOK
<1>4. Safe
  BY <1>1 DEF Init, Safe, Placed, Fresh, SameDeadline, MarkerLasts, Mentioned,
     OneWinnerInTime, Winners, Holding
<1> QED
  BY <1>3, <1>4 DEF InteractionInv

-----------------------------------------------------------------------------
(* Theorems.                                                               *)

\* The invariant holds in every state of every behavior.
THEOREM InteractionInvHolds == Spec => []InteractionInv
BY InteractionInvInit, InteractionInvStep, PTL DEF Spec

\* Every reachable state is well formed.
THEOREM TypeCorrect == Spec => []TypeOK
<1>1. InteractionInv => TypeOK
  BY DEF InteractionInv
<1> QED
  BY <1>1, InteractionInvHolds, PTL

\* consume turns an interaction into at most one login before its deadline,
\* although it looks, works out a lifetime and claims by separate commands.
THEOREM OneWinnerInTimeHolds == Spec => []OneWinnerInTime
<1>1. InteractionInv => OneWinnerInTime
  BY DEF InteractionInv, Safe
<1> QED
  BY <1>1, InteractionInvHolds, PTL

\* find returns no interaction that was won and whose deadline is not over:
\* the winner's marker is still there, although its DEL may not be done.
THEOREM WonIsNotLoadedHolds == Spec => WonIsNotLoaded
<1> DEFINE Loads(r) == /\ At(r, "LOOK") /\ requests'[r].stage = "LOADED"
                       /\ clock < requests[r].read.expiresAt
<1>1. ASSUME InteractionInv, Next, NEW r \in RequestIds, Loads(r)
      PROVE  Winners(Handle(r)) = {}
  <2>0. TypeOK /\ Safe
    BY <1>1 DEF InteractionInv
  <2>1. requests[r].stage = "LOOK" /\ requests'[r].stage = "LOADED"
    BY <1>1 DEF At
  <2>2. Look(r)
    <3>1. ASSUME NEW q \in RequestIds, Handler(q) \/ Crash(q) PROVE q = r
      <4>1. \A p \in RequestIds \ {q} : requests'[p].stage = requests[p].stage
        BY <2>0, <3>1 DEF Handler, Crash, Get, Delete, Look, Refuse, StartEmail, VerifyEmail,
           ChooseFace, Lease, Save, Claim, Drop, HandOver, Goto, TypeOK
      <4> QED
        BY <2>1, <4>1
    <3>2. \A q \in RequestIds, h \in Handles, route \in Routes : ~Submit(q, h, route)
      BY <2>0, <2>1 DEF Submit, At, Blank, TypeOK
    <3>3. (\A h \in Handles : ~Create(h)) /\ ~Tick
      BY <2>1 DEF Create, Tick
    <3>4. PICK q \in RequestIds : Handler(q) \/ Crash(q)
      <4>1. Next
        BY <1>1
      <4>2. \E q \in RequestIds : Handler(q) \/ Crash(q)
        BY <4>1, <3>2, <3>3 DEF Next
      <4> QED
        BY <4>2
    <3>5. ~Crash(r)
      BY <2>0, <2>1, GotoWrites DEF Crash, Stages
    <3>6. ~Delete(r)
      BY <2>0, <2>1, GotoWrites DEF Delete, Stages
    <3> QED
      BY <2>1, <3>1, <3>4, <3>5, <3>6 DEF Handler, Get, Refuse, StartEmail, VerifyEmail,
         ChooseFace, Lease, Save, Claim, Drop, HandOver, At
  <2>3. PICK h \in Handles : h = Handle(r)
    BY <2>0, <2>1 DEF Safe, Placed
  <2>4. ~Marked(h)
    BY <2>0, <2>1, <2>2, <2>3 DEF Look, At, Goto, TypeOK
  <2>5. requests[r].read # NoInteraction
    BY <2>0, <2>1 DEF Safe, Placed, Holding
  <2>6. requests[r].read.expiresAt \in Nat /\ clock \in Nat /\ markers[h] \in Nat
    BY <2>0, <2>5 DEF TypeOK, Request, Interaction
  <2>7. ASSUME NEW q \in Winners(h) PROVE FALSE
    <3>1. q \in RequestIds /\ Handle(q) = h /\ requests[q].read # NoInteraction
      BY <2>0, <2>7 DEF Winners, Safe, Placed
    <3>2. requests[q].read.expiresAt = requests[r].read.expiresAt
      BY <2>0, <2>3, <2>5, <3>1 DEF Safe, SameDeadline
    <3>3. requests[q].read.expiresAt <= markers[h]
      BY <2>0, <2>7 DEF Safe, MarkerLasts
    <3> QED
      BY <1>1, <2>4, <2>6, <3>2, <3>3 DEF Marked
  <2> QED
    BY <2>3, <2>7
<1>2. InteractionInv /\ [Next]_vars
      => [\A r \in RequestIds :
            At(r, "LOOK") /\ requests'[r].stage = "LOADED" /\ clock < requests[r].read.expiresAt
            => Winners(Handle(r)) = {}]_vars
  BY <1>1
<1> QED
  BY <1>2, InteractionInvHolds, PTL DEF Spec, WonIsNotLoaded

\* save writes only over an interaction that is still there, so one that was
\* consumed or has expired does not come back with a step saved late.
THEOREM DeletedStaysDeletedHolds == Spec => DeletedStaysDeleted
<1> DEFINE Deleted(h) == lapses[h] # 0 /\ interactions[h] = NoInteraction
<1>1. ASSUME InteractionInv, [Next]_vars, NEW h \in Handles, Deleted(h)
      PROVE  interactions'[h] = NoInteraction
  <2>0. TypeOK /\ interactions[h] = NoInteraction /\ lapses[h] # 0
    BY <1>1 DEF InteractionInv
  <2>1. ASSUME UNCHANGED interactions PROVE interactions'[h] = NoInteraction
    BY <2>0, <2>1
  <2>2. ASSUME NEW j \in Handles, Create(j) PROVE interactions'[h] = NoInteraction
    <3>1. j # h
      BY <2>0, <2>2 DEF Create
    <3> QED
      BY <2>0, <2>2, <3>1 DEF Create, TypeOK
  <2>3. ASSUME NEW r \in RequestIds, Handler(r) \/ Crash(r)
        PROVE  interactions'[h] = NoInteraction
    <3>1. CASE Delete(r) \/ Drop(r)
      BY <2>0, <3>1 DEF Delete, Drop, TypeOK
    <3>2. CASE Save(r)
      BY <2>0, <3>2 DEF Save, Stored, TypeOK
    <3>3. CASE Get(r) \/ Look(r) \/ Refuse(r) \/ StartEmail(r) \/ VerifyEmail(r)
               \/ ChooseFace(r) \/ Lease(r) \/ Claim(r) \/ HandOver(r) \/ Crash(r)
      BY <2>1, <3>3 DEF Get, Look, Refuse, StartEmail, VerifyEmail, ChooseFace, Lease, Claim,
         HandOver, Crash
    <3> QED
      BY <2>3, <3>1, <3>2, <3>3 DEF Handler
  <2> QED
    BY <1>1, <2>1, <2>2, <2>3 DEF Next, Submit, Tick, vars
<1>2. InteractionInv /\ [Next]_vars
      => [\A h \in Handles : Deleted(h) => interactions'[h] = NoInteraction]_vars
  BY <1>1
<1> QED
  BY <1>2, InteractionInvHolds, PTL DEF Spec, DeletedStaysDeleted


\* Neither find nor a late save brings back an interaction that was won or deleted.
THEOREM GoneStaysGoneHolds == Spec => GoneStaysGone
<1> QED
  BY WonIsNotLoadedHolds, DeletedStaysDeletedHolds DEF GoneStaysGone

-----------------------------------------------------------------------------
(* A verified code is not wasted.                                          *)

HasRead(r) == requests[r].read # NoInteraction

\* Only the first form carries a challenge before it is proven, nobody does before the
\* interaction is loaded, and a winner knows when it won.
Carried ==
    \A r \in RequestIds :
      /\ requests[r].stage \in {"STARTED", "SAVE"} => requests[r].route = "EMAIL"
      /\ requests[r].stage \in {"IDLE", "GET", "LOOK", "LOADED"} =>
           requests[r].challenge = NoChallenge
      /\ requests[r].stage = "WON" => requests[r].wonAt # Never

\* Challenge c is known to request r alone.
Secret(r, c) ==
    /\ c \notin proven
    /\ \A h \in Handles : interactions[h] # NoInteraction => interactions[h].email # c
    /\ \A q \in RequestIds :
         /\ HasRead(q) => requests[q].read.email # c
         /\ q # r => requests[q].challenge # c

\* A challenge that was started and not saved cannot be proven.
Unsaved ==
    \A r \in RequestIds :
      requests[r].route = "EMAIL" /\ requests[r].stage # "SAVED"
        /\ requests[r].challenge # NoChallenge => Secret(r, requests[r].challenge)

\* The key of an interaction stays until its deadline.
KeyOutlives ==
    \A h \in Handles : interactions[h] # NoInteraction => interactions[h].expiresAt <= lapses[h]

\* The interaction that r has read was won, or is past its deadline.
Over(r) == Winners(Handle(r)) # {} \/ PastDeadline(requests[r].read)

\* Only such an interaction is removed.
Removed ==
    \A r \in RequestIds : HasRead(r) /\ interactions[Handle(r)] = NoInteraction => Over(r)

\* An interaction of handle h can only be past its deadline.
Expired(h) ==
    /\ lapses[h] # 0
    /\ interactions[h] # NoInteraction => PastDeadline(interactions[h])
    /\ \A r \in RequestIds : HasRead(r) /\ Handle(r) = h => PastDeadline(requests[r].read)

Expiring == \A r \in RequestIds : At(r, "DELETE") => Expired(Handle(r))

\* A marker was set by a winner.
Marks == \A h \in Handles : markers[h] # 0 => Winners(h) # {}

\* Whoever proved a code has read the interaction, and is turned down only if that is
\* over.
Turned ==
    \A r \in RequestIds :
      requests[r].route # "EMAIL" /\ requests[r].challenge # NoChallenge =>
        HasRead(r) /\ (At(r, "EXPIRED") => Over(r))

\* The inductive invariant of a verified code.
CodeKept == Carried /\ Unsaved /\ KeyOutlives /\ Removed /\ Expiring /\ Marks /\ Turned

\* A step of one request that reads nothing, wins nothing and takes up no challenge.
LEMMA MovedKeepsCode ==
    ASSUME TypeOK, Safe, CodeKept, NEW r \in RequestIds, Moved(r),
           requests'[r].route = requests[r].route,
           requests'[r].challenge = requests[r].challenge,
           requests[r].stage \notin {"IDLE", "SAVED"},
           requests'[r].stage \notin {"IDLE", "GET", "STARTED", "SAVED", "WON"},
           requests'[r].stage = "SAVE" => requests[r].stage = "STARTED",
           requests'[r].stage \in {"LOOK", "LOADED"} => requests[r].stage = "LOOK",
           requests'[r].stage = "DELETE" => Expired(Handle(r)),
           requests'[r].stage = "EXPIRED" =>
             requests[r].route = "EMAIL" \/ requests[r].challenge = NoChallenge \/ Over(r),
           UNCHANGED <<clock, lapses, markers, started, proven>>,
           \/ UNCHANGED interactions
           \/ /\ interactions' = [interactions EXCEPT ![Handle(r)] = NoInteraction]
              /\ \A q \in RequestIds : HasRead(q) /\ Handle(q) = Handle(r) => Over(q)
    PROVE  CodeKept'
<1> USE DEF CodeKept
<1>1. \A q \in RequestIds : /\ requests'[q].handle = requests[q].handle
                            /\ requests'[q].read = requests[q].read
                            /\ requests'[q].wonAt = requests[q].wonAt
                            /\ requests'[q].route = requests[q].route
                            /\ requests'[q].challenge = requests[q].challenge
                            /\ q # r => requests'[q].stage = requests[q].stage
  BY DEF Moved
<1>2. \A h : Winners(h)' = Winners(h)
  BY <1>1 DEF Winners, Handle
<1>3. \A q \in RequestIds : /\ Over(q)' <=> Over(q)
                            /\ HasRead(q)' <=> HasRead(q)
                            /\ Handle(q)' = Handle(q)
  BY <1>1, <1>2 DEF Over, Handle, PastDeadline, HasRead
<1>4. Handle(r) \in Handles
  BY DEF Safe, Placed
<1>5. \A h \in Handles :
        /\ interactions'[h] \in {interactions[h], NoInteraction}
        /\ interactions'[h] = interactions[h] \/ h = Handle(r)
  BY <1>4 DEF TypeOK
<1>6. Carried'
  BY <1>1 DEF Carried
<1>7. Unsaved'
  <2>1. ASSUME NEW q \in RequestIds, requests[q].route = "EMAIL",
               requests'[q].stage # "SAVED", requests[q].challenge # NoChallenge
        PROVE  Secret(q, requests[q].challenge)'
    <3>1. Secret(q, requests[q].challenge)
      BY <1>1, <2>1 DEF Unsaved
    <3> QED
      BY <1>1, <1>3, <1>5, <3>1 DEF Secret
  <2> QED
    BY <1>1, <2>1 DEF Unsaved
<1>8. KeyOutlives' /\ Marks'
  BY <1>2, <1>5 DEF KeyOutlives, Marks
<1>9. Removed'
  <2>1. ASSUME NEW q \in RequestIds, HasRead(q), interactions'[Handle(q)] = NoInteraction
        PROVE  Over(q)
    <3>1. Handle(q) \in Handles
      BY <2>1 DEF Safe, Placed, HasRead
    <3>2. CASE interactions[Handle(q)] = NoInteraction
      BY <2>1, <3>2 DEF Removed
    <3>3. CASE interactions[Handle(q)] # NoInteraction
      BY <1>5, <2>1, <3>1, <3>3
    <3> QED
      BY <3>2, <3>3
  <2> QED
    BY <1>3, <2>1 DEF Removed
<1>10. Expiring'
  <2>1. \A h \in Handles : Expired(h) => Expired(h)'
    BY <1>1, <1>3, <1>5 DEF Expired, PastDeadline
  <2>2. ASSUME NEW q \in RequestIds, At(q, "DELETE")'
        PROVE  Expired(Handle(q)) /\ Handle(q) \in Handles
    BY <1>1, <1>4, <2>2 DEF At, Expiring, Safe, Placed
  <2> QED
    BY <1>3, <2>1, <2>2 DEF Expiring
<1>11. Turned'
  BY <1>1, <1>3 DEF Turned, At
<1> QED
  BY <1>6, <1>7, <1>8, <1>9, <1>10, <1>11

\* Reading an interaction whose deadline is not over.
LEMMA ReadKeepsCode ==
    ASSUME TypeOK, Safe, CodeKept, NEW r \in RequestIds, Handle(r) \in Handles,
           NEW read \in Interaction, interactions[Handle(r)] = read, read # NoInteraction,
           ~PastDeadline(read),
           \/ requests[r].stage = "GET" /\ requests'[r].stage = "LOOK"
           \/ requests[r].stage = "REGET" /\ requests'[r].stage = "RELOOK",
           requests'[r].read = read, requests'[r].handle = requests[r].handle,
           requests'[r].wonAt = requests[r].wonAt, requests'[r].route = requests[r].route,
           requests'[r].challenge = requests[r].challenge,
           \A q \in RequestIds \ {r} : requests'[q] = requests[q],
           UNCHANGED <<clock, interactions, lapses, markers, started, proven>>
    PROVE  CodeKept'
<1> USE DEF CodeKept
<1>3. \A q \in RequestIds : /\ requests'[q].handle = requests[q].handle
                            /\ requests'[q].wonAt = requests[q].wonAt
                            /\ requests'[q].route = requests[q].route
                            /\ requests'[q].challenge = requests[q].challenge
                            /\ q # r => /\ requests'[q].stage = requests[q].stage
                                        /\ requests'[q].read = requests[q].read
  OBVIOUS
<1>4. (\A h : Winners(h)' = Winners(h)) /\ (\A q \in RequestIds : Handle(q)' = Handle(q))
  BY <1>3 DEF Winners, Handle
<1>5. /\ \A q \in RequestIds \ {r} : /\ Over(q)' <=> Over(q)
                                     /\ HasRead(q)' <=> HasRead(q)
      /\ HasRead(r)'
  <2>1. \A q \in RequestIds \ {r} : Over(q)' <=> Over(q)
    BY <1>3, <1>4 DEF Over, PastDeadline
  <2>2. \A q \in RequestIds \ {r} : HasRead(q)' <=> HasRead(q)
    BY <1>3 DEF HasRead
  <2>3. HasRead(r)'
    BY DEF HasRead
  <2> QED
    BY <2>1, <2>2, <2>3
<1>6. Carried'
  BY <1>3 DEF Carried
<1>7. Unsaved'
  <2>1. ASSUME NEW q \in RequestIds, requests[q].route = "EMAIL",
               requests[q].stage # "SAVED", requests[q].challenge # NoChallenge
        PROVE  Secret(q, requests[q].challenge)'
    <3>1. Secret(q, requests[q].challenge)
      BY <2>1 DEF Unsaved
    <3>2. ASSUME NEW p \in RequestIds, HasRead(p)'
          PROVE  requests'[p].read.email # requests[q].challenge
      <4>1. CASE p = r
        <5>1. read.email # requests[q].challenge
          BY <3>1 DEF Secret
        <5> QED
          BY <4>1, <5>1
      <4>2. CASE p # r
        <5>1. HasRead(p) /\ requests'[p].read = requests[p].read
          BY <1>3, <1>5, <3>2, <4>2
        <5> QED
          BY <3>1, <5>1 DEF Secret
      <4> QED
        BY <4>1, <4>2
    <3> QED
      BY <1>3, <3>1, <3>2 DEF Secret
  <2>2. \A q \in RequestIds : requests'[q].stage # "SAVED" => requests[q].stage # "SAVED"
    BY <1>3
  <2> QED
    BY <1>3, <2>1, <2>2 DEF Unsaved
<1>8. KeyOutlives' /\ Marks'
  BY <1>4 DEF KeyOutlives, Marks
<1>9. Removed'
  BY <1>4, <1>5 DEF Removed
<1>10. Expiring'
  <2>1. ASSUME NEW q \in RequestIds, At(q, "DELETE")'
        PROVE  q # r /\ Expired(Handle(q)) /\ Handle(q) # Handle(r)
    <3>1. q # r
      BY <1>3, <2>1 DEF At
    <3>2. Expired(Handle(q))
      BY <1>3, <2>1, <3>1 DEF At, Expiring
    <3> QED
      BY <3>1, <3>2 DEF Expired
  <2>2. \A h : h # Handle(r) /\ Expired(h) => Expired(h)'
    BY <1>3, <1>4, <1>5 DEF Expired, PastDeadline
  <2> QED
    BY <1>4, <2>1, <2>2 DEF Expiring
<1>11. Turned'
  BY <1>3, <1>5 DEF Turned, At
<1> QED
  BY <1>6, <1>7, <1>8, <1>9, <1>10, <1>11

\* Starting a challenge, or proving the one that was read.
LEMMA ChallengeKeepsCode ==
    ASSUME TypeOK, Safe, CodeKept, NEW r \in RequestIds, NEW c \in ChallengeIds, Moved(r),
           requests'[r].route = requests[r].route, requests'[r].challenge = c,
           requests[r].stage = "LOADED",
           \/ /\ requests[r].route = "EMAIL" /\ requests'[r].stage = "STARTED"
              /\ c \notin started /\ proven' = proven
           \/ /\ requests[r].route = "CODE" /\ requests'[r].stage = "REGET"
              /\ c = requests[r].read.email /\ proven' = proven \cup {c},
           UNCHANGED <<clock, interactions, lapses, markers>>
    PROVE  CodeKept'
<1> USE DEF CodeKept
<1>1. \A q \in RequestIds : /\ requests'[q].handle = requests[q].handle
                            /\ requests'[q].read = requests[q].read
                            /\ requests'[q].wonAt = requests[q].wonAt
                            /\ requests'[q].route = requests[q].route
                            /\ q # r => /\ requests'[q].stage = requests[q].stage
                                        /\ requests'[q].challenge = requests[q].challenge
  BY DEF Moved
<1>2. \A h : Winners(h)' = Winners(h)
  BY <1>1 DEF Winners, Handle
<1>3. \A q \in RequestIds : /\ Over(q)' <=> Over(q)
                            /\ HasRead(q)' <=> HasRead(q)
                            /\ Handle(q)' = Handle(q)
  BY <1>1, <1>2 DEF Over, Handle, PastDeadline, HasRead
<1>4. HasRead(r) /\ c # NoChallenge
  BY AbsenceAssumption DEF HasRead, Safe, Placed, Holding
<1>5. Carried' /\ KeyOutlives' /\ Marks'
  BY <1>1, <1>2 DEF Carried, KeyOutlives, Marks
<1>6. Removed'
  BY <1>1, <1>3 DEF Removed
<1>7. Expiring'
  <2>1. \A h : Expired(h) => Expired(h)'
    BY <1>1, <1>3 DEF Expired, PastDeadline
  <2> QED
    BY <1>1, <1>3, <2>1 DEF Expiring, At
<1>8. Turned'
  BY <1>1, <1>3, <1>4 DEF Turned, At
<1>9. Unsaved'
  <2>1. ASSUME NEW q \in RequestIds \ {r}, requests[q].route = "EMAIL",
               requests[q].stage # "SAVED", requests[q].challenge # NoChallenge
        PROVE  Secret(q, requests[q].challenge)'
    <3>1. Secret(q, requests[q].challenge)
      BY <2>1 DEF Unsaved
    <3>2. requests[q].challenge \in started
      BY <2>1 DEF Safe, Mentioned
    <3>3. c # requests[q].challenge
      BY <1>4, <3>1, <3>2 DEF Secret
    <3>4. requests[q].challenge \notin proven'
      BY <3>1, <3>3 DEF Secret
    <3> QED
      BY <1>1, <1>3, <3>1, <3>3, <3>4 DEF Secret
  <2>2. ASSUME requests[r].route = "EMAIL"
        PROVE  Secret(r, c)'
    <3>1. c \notin started /\ proven' = proven
      BY <2>2
    <3>2. c \notin proven'
      BY <3>1 DEF TypeOK
    <3>3. \A h \in Handles : interactions[h] # NoInteraction => interactions[h].email # c
      BY <1>4, <3>1 DEF Safe, Mentioned
    <3>4. \A q \in RequestIds : /\ HasRead(q) => requests[q].read.email # c
                                /\ requests[q].challenge # c
      BY <1>4, <3>1 DEF Safe, Mentioned, HasRead
    <3> QED
      BY <1>1, <1>3, <3>2, <3>3, <3>4 DEF Secret
  <2> QED
    BY <1>1, <2>1, <2>2 DEF Unsaved
<1> QED
  BY <1>5, <1>6, <1>7, <1>8, <1>9

\* Saving a started challenge over the interaction.
LEMMA SaveKeepsCode ==
    ASSUME TypeOK, Safe, CodeKept, NEW r \in RequestIds, Moved(r),
           requests'[r].route = requests[r].route,
           requests'[r].challenge = requests[r].challenge,
           requests[r].stage = "SAVE", requests'[r].stage = "SAVED", Handle(r) \in Handles,
           NEW step \in Interaction, step.email = requests[r].challenge,
           step.expiresAt = requests[r].read.expiresAt,
           interactions' = [interactions EXCEPT ![Handle(r)] = step],
           lapses' = [lapses EXCEPT ![Handle(r)] = clock + requests[r].px],
           UNCHANGED <<clock, markers, started, proven>>
    PROVE  CodeKept'
<1> USE DEF CodeKept
<1>1. \A q \in RequestIds : /\ requests'[q].handle = requests[q].handle
                            /\ requests'[q].read = requests[q].read
                            /\ requests'[q].wonAt = requests[q].wonAt
                            /\ requests'[q].route = requests[q].route
                            /\ requests'[q].challenge = requests[q].challenge
                            /\ q # r => requests'[q].stage = requests[q].stage
  BY DEF Moved
<1>2. \A h : Winners(h)' = Winners(h)
  BY <1>1 DEF Winners, Handle
<1>3. \A q \in RequestIds : /\ Over(q)' <=> Over(q)
                            /\ HasRead(q)' <=> HasRead(q)
                            /\ Handle(q)' = Handle(q)
  BY <1>1, <1>2 DEF Over, Handle, PastDeadline, HasRead
<1>4. /\ interactions'[Handle(r)] = step /\ step # NoInteraction
      /\ lapses'[Handle(r)] = clock + requests[r].px
      /\ \A h \in Handles \ {Handle(r)} : interactions'[h] = interactions[h] /\ lapses'[h] = lapses[h]
  BY AbsenceAssumption DEF TypeOK
<1>5. /\ HasRead(r) /\ requests[r].px >= 1
      /\ requests[r].read.expiresAt <= clock + requests[r].px
  BY DEF Safe, Placed, Holding, HasRead
<1>6. clock \in Nat /\ requests[r].px \in Nat
  BY DEF TypeOK, Request
<1>7. Carried' /\ Marks'
  BY <1>1, <1>2 DEF Carried, Marks
<1>8. KeyOutlives'
  BY <1>4, <1>5 DEF KeyOutlives
<1>9. Removed'
  <2>1. ASSUME NEW q \in RequestIds, HasRead(q), interactions'[Handle(q)] = NoInteraction
        PROVE  Over(q)
    <3>1. Handle(q) \in Handles /\ Handle(q) # Handle(r)
      BY <1>4, <2>1 DEF Safe, Placed, HasRead
    <3> QED
      BY <1>4, <2>1, <3>1 DEF Removed
  <2> QED
    BY <1>3, <2>1 DEF Removed
<1>10. Expiring'
  <2>1. ASSUME NEW h \in Handles, Expired(h) PROVE Expired(h)'
    <3>1. lapses'[h] # 0
      BY <1>4, <1>5, <1>6, <2>1 DEF Expired
    <3>2. interactions'[h] # NoInteraction => PastDeadline(interactions'[h])
      BY <1>4, <1>5, <2>1 DEF Expired, PastDeadline
    <3> QED
      BY <1>1, <1>3, <2>1, <3>1, <3>2 DEF Expired, PastDeadline
  <2>2. ASSUME NEW q \in RequestIds, At(q, "DELETE")'
        PROVE  Expired(Handle(q)) /\ Handle(q) \in Handles
    BY <1>1, <2>2 DEF At, Expiring, Safe, Placed
  <2> QED
    BY <1>3, <2>1, <2>2 DEF Expiring
<1>11. Turned'
  BY <1>1, <1>3 DEF Turned, At
<1>12. Unsaved'
  <2>1. ASSUME NEW q \in RequestIds \ {r}, requests[q].route = "EMAIL",
               requests[q].stage # "SAVED", requests[q].challenge # NoChallenge
        PROVE  Secret(q, requests[q].challenge)'
    <3>1. Secret(q, requests[q].challenge)
      BY <2>1 DEF Unsaved
    <3>2. \A h \in Handles :
            interactions'[h] # NoInteraction => interactions'[h].email # requests[q].challenge
      BY <1>4, <3>1 DEF Secret
    <3> QED
      BY <1>1, <1>3, <3>1, <3>2 DEF Secret
  <2> QED
    BY <1>1, <2>1 DEF Unsaved
<1> QED
  BY <1>7, <1>8, <1>9, <1>10, <1>11, <1>12

\* Winning.
LEMMA WinKeepsCode ==
    ASSUME TypeOK, Safe, CodeKept, NEW r \in RequestIds, requests[r].stage = "CLAIM",
           NEW at \in Nat, Handle(r) \in Handles,
           requests'[r].stage = "WON", requests'[r].wonAt = at,
           requests'[r].handle = requests[r].handle, requests'[r].read = requests[r].read,
           requests'[r].route = requests[r].route,
           requests'[r].challenge = requests[r].challenge,
           \A q \in RequestIds \ {r} : requests'[q] = requests[q],
           \A h \in Handles \ {Handle(r)} : markers'[h] = markers[h],
           UNCHANGED <<clock, interactions, lapses, started, proven>>
    PROVE  CodeKept'
<1> USE DEF CodeKept
<1>1. \A q \in RequestIds : /\ requests'[q].handle = requests[q].handle
                            /\ requests'[q].read = requests[q].read
                            /\ requests'[q].route = requests[q].route
                            /\ requests'[q].challenge = requests[q].challenge
                            /\ q # r => /\ requests'[q].stage = requests[q].stage
                                        /\ requests'[q].wonAt = requests[q].wonAt
  OBVIOUS
<1>2. at # Never
  BY DEF Never
<1>3. (\A h : Winners(h) \subseteq Winners(h)') /\ r \in Winners(Handle(r))'
  BY <1>1, <1>2 DEF Winners, Handle
<1>4. \A q \in RequestIds : /\ Over(q) => Over(q)'
                            /\ HasRead(q)' <=> HasRead(q)
                            /\ Handle(q)' = Handle(q)
  BY <1>1, <1>3 DEF Over, Handle, PastDeadline, HasRead
<1>5. Carried' /\ KeyOutlives'
  BY <1>1, <1>2 DEF Carried, KeyOutlives
<1>6. Marks'
  <2>1. ASSUME NEW h \in Handles, markers'[h] # 0 PROVE Winners(h)' # {}
    BY <1>3, <1>4, <2>1 DEF Marks
  <2> QED
    BY <2>1 DEF Marks
<1>7. Removed'
  BY <1>1, <1>4 DEF Removed
<1>8. Expiring'
  <2>1. \A h : Expired(h) => Expired(h)'
    BY <1>1, <1>4 DEF Expired, PastDeadline
  <2> QED
    BY <1>1, <1>4, <2>1 DEF Expiring, At
<1>9. Turned'
  BY <1>1, <1>4 DEF Turned, At
<1>10. Unsaved'
  <2>1. \A q \in RequestIds : \A c : Secret(q, c) => Secret(q, c)'
    BY <1>1, <1>4 DEF Secret
  <2> QED
    BY <1>1, <2>1 DEF Unsaved
<1> QED
  BY <1>5, <1>6, <1>7, <1>8, <1>9, <1>10

\* A new form has read nothing and carries nothing.
LEMMA SubmitKeepsCode ==
    ASSUME TypeOK, Safe, CodeKept, NEW r \in RequestIds, NEW h \in Handles, NEW route \in Routes,
           Submit(r, h, route)
    PROVE  CodeKept'
<1> USE DEF CodeKept
<1>1. /\ requests'[r].stage = "GET" /\ requests'[r].read = NoInteraction
      /\ requests'[r].challenge = NoChallenge /\ requests'[r].wonAt = Never
      /\ \A q \in RequestIds \ {r} : requests'[q] = requests[q]
      /\ requests[r].stage = "IDLE"
      /\ UNCHANGED <<clock, interactions, lapses, markers, started, proven>>
  BY DEF Submit, Blank, At, TypeOK
<1>2. requests[r].read = NoInteraction /\ requests[r].wonAt = Never
  BY <1>1 DEF Safe, Placed, Winning
<1>3. \A j : Winners(j)' = Winners(j)
  BY <1>1, <1>2 DEF Winners, Handle
<1>4. ~HasRead(r)' /\ ~HasRead(r)
  BY <1>1, <1>2 DEF HasRead
<1>5. \A q \in RequestIds \ {r} : /\ Over(q)' <=> Over(q)
                                  /\ HasRead(q)' <=> HasRead(q)
                                  /\ Handle(q)' = Handle(q)
  BY <1>1, <1>3 DEF Over, Handle, PastDeadline, HasRead
<1>6. Carried' /\ KeyOutlives' /\ Marks'
  BY <1>1, <1>3 DEF Carried, KeyOutlives, Marks
<1>7. Removed'
  BY <1>1, <1>4, <1>5 DEF Removed
<1>8. Expiring'
  <2>1. \A j : Expired(j) => Expired(j)'
    BY <1>1, <1>4, <1>5 DEF Expired, PastDeadline
  <2> QED
    BY <1>1, <1>5, <2>1 DEF Expiring, At
<1>9. Turned'
  BY <1>1, <1>5 DEF Turned, At
<1>10. Unsaved'
  <2>1. ASSUME NEW q \in RequestIds \ {r}, requests[q].route = "EMAIL",
               requests[q].stage # "SAVED", requests[q].challenge # NoChallenge
        PROVE  Secret(q, requests[q].challenge)'
    <3>1. Secret(q, requests[q].challenge)
      BY <2>1 DEF Unsaved
    <3>2. \A p \in RequestIds \ {r} :
            /\ HasRead(p)' => requests'[p].read.email # requests[q].challenge
            /\ p # q => requests'[p].challenge # requests[q].challenge
      BY <1>1, <1>5, <3>1 DEF Secret
    <3>3. requests'[r].challenge # requests[q].challenge
      BY <1>1, <2>1
    <3> QED
      BY <1>1, <1>4, <3>1, <3>2, <3>3 DEF Secret
  <2> QED
    BY <1>1, <2>1 DEF Unsaved
<1> QED
  BY <1>6, <1>7, <1>8, <1>9, <1>10

\* A new interaction carries no challenge and is known to nobody.
LEMMA CreateKeepsCode ==
    ASSUME TypeOK, Safe, CodeKept, NEW h \in Handles, Create(h)
    PROVE  CodeKept'
<1> USE DEF CodeKept
<1>1. PICK createdAt \in 0 .. clock :
        interactions' = [interactions EXCEPT ![h] =
          [email |-> NoChallenge, expiresAt |-> createdAt + TTL]]
  BY DEF Create
<1>2. /\ interactions'[h].email = NoChallenge
      /\ interactions'[h].expiresAt = createdAt + TTL
      /\ lapses'[h] = clock + TTL
      /\ \A j \in Handles \ {h} : interactions'[j] = interactions[j] /\ lapses'[j] = lapses[j]
      /\ lapses[h] = 0
      /\ UNCHANGED <<clock, markers, requests, started, proven>>
  BY <1>1 DEF Create, TypeOK
<1>3. createdAt + TTL <= clock + TTL
  BY TimesAssumption DEF TypeOK
<1>4. \A r \in RequestIds : Handle(r) = h => ~HasRead(r)
  BY <1>2 DEF Safe, Fresh, HasRead
<1>5. \A j : Winners(j)' = Winners(j)
  BY <1>2 DEF Winners, Handle
<1>6. \A q \in RequestIds : /\ Over(q)' <=> Over(q)
                            /\ HasRead(q)' <=> HasRead(q)
                            /\ Handle(q)' = Handle(q)
  BY <1>2, <1>5 DEF Over, Handle, PastDeadline, HasRead
<1>7. Carried' /\ KeyOutlives' /\ Marks'
  BY <1>2, <1>3, <1>5 DEF Carried, KeyOutlives, Marks
<1>8. Removed'
  <2>1. ASSUME NEW q \in RequestIds, HasRead(q), interactions'[Handle(q)] = NoInteraction
        PROVE  Over(q)
    <3>1. Handle(q) \in Handles /\ Handle(q) # h
      BY <1>4, <2>1 DEF Safe, Placed, HasRead
    <3> QED
      BY <1>2, <2>1, <3>1 DEF Removed
  <2> QED
    BY <1>6, <2>1 DEF Removed
<1>9. Expiring'
  <2>1. \A j \in Handles : Expired(j) => j # h /\ Expired(j)'
    BY <1>2, <1>6 DEF Expired, PastDeadline
  <2>2. ASSUME NEW q \in RequestIds, At(q, "DELETE")'
        PROVE  Expired(Handle(q)) /\ Handle(q) \in Handles
    BY <1>2, <2>2 DEF At, Expiring, Safe, Placed
  <2> QED
    BY <1>6, <2>1, <2>2 DEF Expiring
<1>10. Turned'
  BY <1>2, <1>6 DEF Turned, At
<1>11. Unsaved'
  <2>1. \A q \in RequestIds, c \in ChallengeIds : Secret(q, c) => Secret(q, c)'
    <3>1. \A c \in ChallengeIds : interactions'[h].email # c
      BY <1>2, AbsenceAssumption
    <3> QED
      BY <1>2, <1>6, <3>1 DEF Secret
  <2>2. \A q \in RequestIds : requests[q].challenge \in ChallengeIds \cup {NoChallenge}
    BY DEF TypeOK, Request
  <2> QED
    BY <1>2, <2>1, <2>2 DEF Unsaved
<1> QED
  BY <1>7, <1>8, <1>9, <1>10, <1>11

\* Time only brings deadlines nearer.
LEMMA TickKeepsCode ==
    ASSUME TypeOK, Safe, CodeKept, Tick
    PROVE  CodeKept'
<1> USE DEF CodeKept
<1>1. /\ clock \in Nat /\ clock' = clock + 1
      /\ UNCHANGED <<interactions, lapses, markers, requests, started, proven>>
  BY DEF Tick, TypeOK
<1>2. \A i \in Interaction : PastDeadline(i) => PastDeadline(i)'
  BY <1>1 DEF PastDeadline, Interaction
<1>3. \A q \in RequestIds : HasRead(q) => requests[q].read \in Interaction
  BY DEF TypeOK, Request, HasRead
<1>4. \A j : Winners(j)' = Winners(j)
  BY <1>1 DEF Winners, Handle
<1>5. \A q \in RequestIds : /\ HasRead(q) /\ Over(q) => Over(q)'
                            /\ HasRead(q)' <=> HasRead(q)
                            /\ Handle(q)' = Handle(q)
  BY <1>1, <1>2, <1>3, <1>4 DEF Over, Handle, HasRead, PastDeadline
<1>6. Carried' /\ KeyOutlives' /\ Marks' /\ Unsaved'
  BY <1>1, <1>4, <1>5 DEF Carried, KeyOutlives, Marks, Unsaved, Secret
<1>7. Removed' /\ Turned'
  BY <1>1, <1>5 DEF Removed, Turned, At
<1>8. Expiring'
  <2>1. ASSUME NEW h \in Handles, Expired(h) PROVE Expired(h)'
    <3>1. interactions[h] # NoInteraction => interactions[h] \in Interaction
      BY DEF TypeOK
    <3>2. interactions'[h] # NoInteraction => PastDeadline(interactions[h])'
      BY <1>1, <1>2, <2>1, <3>1 DEF Expired
    <3>3. ASSUME NEW q \in RequestIds, HasRead(q), Handle(q) = h
          PROVE  PastDeadline(requests[q].read)'
      BY <1>1, <1>2, <1>3, <2>1, <3>3 DEF Expired, PastDeadline
    <3> QED
      BY <1>1, <1>5, <2>1, <3>2, <3>3 DEF Expired
  <2>2. ASSUME NEW q \in RequestIds, At(q, "DELETE")'
        PROVE  Expired(Handle(q)) /\ Handle(q) \in Handles
    BY <1>1, <2>2 DEF At, Expiring, Safe, Placed
  <2> QED
    BY <1>5, <2>1, <2>2 DEF Expiring
<1> QED
  BY <1>6, <1>7, <1>8

\* A request that only goes to another stage.
LEMMA GotoKeepsCode ==
    ASSUME TypeOK, Safe, CodeKept, NEW r \in RequestIds,
           NEW stage \in Stages \ {"IDLE", "GET", "STARTED", "SAVE", "SAVED", "WON"},
           Goto(r, stage), requests[r].stage \notin {"IDLE", "SAVED"},
           stage \in {"LOOK", "LOADED"} => requests[r].stage = "LOOK",
           stage = "DELETE" => Expired(Handle(r)),
           stage = "EXPIRED" =>
             requests[r].route = "EMAIL" \/ requests[r].challenge = NoChallenge \/ Over(r),
           UNCHANGED <<clock, lapses, markers, started, proven>>,
           \/ UNCHANGED interactions
           \/ /\ interactions' = [interactions EXCEPT ![Handle(r)] = NoInteraction]
              /\ \A q \in RequestIds : HasRead(q) /\ Handle(q) = Handle(r) => Over(q)
    PROVE  CodeKept'
<1>1. /\ Moved(r) /\ requests'[r].stage = stage
      /\ requests'[r].route = requests[r].route
      /\ requests'[r].challenge = requests[r].challenge
  BY GotoWrites
<1> QED
  BY <1>1, MovedKeepsCode

\* Past the deadline that one request has read, every reader's is over.
LEMMA DeadlineShared ==
    ASSUME Safe, NEW r \in RequestIds, HasRead(r), PastDeadline(requests[r].read)
    PROVE  \A q \in RequestIds : HasRead(q) /\ Handle(q) = Handle(r) => Over(q)
BY DEF Safe, SameDeadline, HasRead, Over, PastDeadline

\* find, as load and consume call it.
LEMMA FindKeepsCode ==
    ASSUME TypeOK, Safe, CodeKept, NEW r \in RequestIds, Get(r) \/ Delete(r) \/ Look(r)
    PROVE  CodeKept'
<1> USE DEF CodeKept
<1> DEFINE h == Handle(r)
<1>1. requests[r].route = "EMAIL" \/ requests[r].challenge = NoChallenge \/ HasRead(r)
  BY DEF Turned
<1>2. h \in Handles
  BY DEF Safe, Placed, Get, Delete, Look, At
<1>3. CASE Get(r)
  <2>1. /\ requests[r].stage \in {"GET", "REGET"}
        /\ UNCHANGED <<clock, interactions, lapses, markers, started, proven>>
    BY <1>3 DEF Get, At
  <2>2. CASE ~Stored(h) /\ Goto(r, "EXPIRED")
    <3>1. ASSUME HasRead(r) PROVE Over(r)
      <4>1. CASE interactions[h] = NoInteraction
        BY <3>1, <4>1 DEF Removed
      <4>2. CASE interactions[h] # NoInteraction
        <5>1. clock >= lapses[h] /\ interactions[h].expiresAt <= lapses[h]
          BY <1>2, <2>2, <4>2 DEF Stored, KeyOutlives, TypeOK
        <5>2. interactions[h].expiresAt = requests[r].read.expiresAt
          BY <3>1, <4>2 DEF Safe, SameDeadline, HasRead
        <5>3. interactions[h].expiresAt \in Nat /\ lapses[h] \in Nat /\ clock \in Nat
          BY <1>2, <4>2 DEF TypeOK, Interaction
        <5> QED
          BY <5>1, <5>2, <5>3 DEF Over, PastDeadline
      <4> QED
        BY <4>1, <4>2
    <3> QED
      BY <1>1, <2>1, <2>2, <3>1, GotoKeepsCode DEF Stages
  <2>3. CASE Stored(h) /\ PastDeadline(interactions[h]) /\ Goto(r, "DELETE")
    <3>1. lapses[h] # 0
      BY <1>2, <2>3 DEF Stored, TypeOK
    <3>2. ASSUME NEW q \in RequestIds, HasRead(q), Handle(q) = h
          PROVE  PastDeadline(requests[q].read)
      BY <2>3, <3>2 DEF Safe, SameDeadline, HasRead, Stored, PastDeadline
    <3>3. Expired(h)
      BY <2>3, <3>1, <3>2 DEF Expired
    <3> QED
      BY <2>1, <2>3, <3>3, GotoKeepsCode DEF Stages
  <2>4. CASE /\ Stored(h) /\ ~PastDeadline(interactions[h])
             /\ requests' = [requests EXCEPT
                  ![r].stage = IF @ = "GET" THEN "LOOK" ELSE "RELOOK",
                  ![r].read = interactions[h]]
    <3>1. PICK read \in Interaction : read = interactions[h] /\ read # NoInteraction
      BY <1>2, <2>4 DEF Stored, TypeOK
    <3>2. PICK stage \in Stages :
            /\ requests' = [requests EXCEPT ![r].stage = stage, ![r].read = read]
            /\ \/ requests[r].stage = "GET" /\ stage = "LOOK"
               \/ requests[r].stage = "REGET" /\ stage = "RELOOK"
      BY <2>1, <2>4, <3>1 DEF Stages
    <3>3. /\ requests' \in [RequestIds -> Request]
          /\ requests'[r].route = requests[r].route
          /\ requests'[r].stage = stage /\ requests'[r].read = read
          /\ requests'[r].handle = requests[r].handle
          /\ requests'[r].wonAt = requests[r].wonAt
          /\ requests'[r].challenge = requests[r].challenge
          /\ \A q \in RequestIds \ {r} : requests'[q] = requests[q]
      BY <3>2, ReadWrites
    <3>4. /\ Handle(r) \in Handles /\ interactions[Handle(r)] = read /\ ~PastDeadline(read)
          /\ \/ requests[r].stage = "GET" /\ requests'[r].stage = "LOOK"
             \/ requests[r].stage = "REGET" /\ requests'[r].stage = "RELOOK"
      BY <1>2, <2>4, <3>1, <3>2, <3>3
    <3> QED
      BY <2>1, <3>1, <3>3, <3>4, ReadKeepsCode
  <2> QED
    BY <1>3, <2>2, <2>3, <2>4 DEF Get
<1>4. CASE Delete(r)
  <2>1. /\ Goto(r, "EXPIRED") /\ requests[r].stage \in {"DELETE", "LOOK", "RELOOK"}
        /\ interactions' = [interactions EXCEPT ![h] = NoInteraction]
        /\ UNCHANGED <<clock, lapses, markers, started, proven>>
    BY <1>4 DEF Delete, At
  <2>2. \A q \in RequestIds : HasRead(q) /\ Handle(q) = h => Over(q)
    <3>1. CASE At(r, "DELETE")
      BY <3>1 DEF Expiring, Expired, Over
    <3>2. CASE (At(r, "LOOK") \/ At(r, "RELOOK")) /\ PastDeadline(requests[r].read)
      <4>1. HasRead(r)
        BY <3>2 DEF At, HasRead, Safe, Placed, Holding
      <4> QED
        BY <3>2, <4>1, DeadlineShared
    <3> QED
      BY <1>4, <3>1, <3>2 DEF Delete
  <2>3. requests[r].route = "EMAIL" \/ requests[r].challenge = NoChallenge \/ Over(r)
    BY <1>1, <2>2
  <2> QED
    BY <2>1, <2>2, <2>3, GotoKeepsCode DEF Stages
<1>5. CASE Look(r)
  <2>1. /\ requests[r].stage \in {"LOOK", "RELOOK"}
        /\ UNCHANGED <<clock, interactions, lapses, markers, started, proven>>
    BY <1>5 DEF Look, At
  <2>2. CASE Marked(h) /\ Goto(r, "EXPIRED")
    <3>1. markers[h] # 0
      BY <1>2, <2>2 DEF Marked, TypeOK
    <3>2. Over(r)
      BY <1>2, <3>1 DEF Marks, Over
    <3> QED
      BY <2>1, <2>2, <3>2, GotoKeepsCode DEF Stages
  <2>3. CASE requests[r].stage = "LOOK" /\ Goto(r, "LOADED")
    BY <2>1, <2>3, GotoKeepsCode DEF Stages
  <2>4. CASE Goto(r, "LEASE")
    BY <2>1, <2>4, GotoKeepsCode DEF Stages
  <2> QED
    BY <1>5, <2>2, <2>3, <2>4 DEF Look, At
<1> QED
  BY <1>3, <1>4, <1>5

\* The steps of a request that is served or dies.
LEMMA RequestKeepsCode ==
    ASSUME TypeOK, Safe, CodeKept, NEW r \in RequestIds, Handler(r) \/ Crash(r)
    PROVE  CodeKept'
<1> USE DEF CodeKept
<1> DEFINE h == Handle(r)
           c == requests[r].challenge
<1>1. requests[r].stage # "IDLE" => h \in Handles
  BY DEF Safe, Placed
<1>2. requests[r].stage \in Holding => HasRead(r)
  BY DEF Safe, Placed, HasRead
<1>3. CASE Get(r) \/ Delete(r) \/ Look(r)
  BY <1>3, FindKeepsCode
<1>4. CASE Refuse(r) \/ ChooseFace(r)
  <2>1. /\ requests[r].stage = "LOADED" /\ c = NoChallenge
        /\ UNCHANGED <<clock, interactions, lapses, markers, started, proven>>
        /\ \E stage \in {"EXPIRED", "FAILED", "REGET"} : Goto(r, stage)
    BY <1>4 DEF Refuse, ChooseFace, At, Carried
  <2> QED
    BY <2>1, GotoKeepsCode DEF Stages
<1>5. CASE StartEmail(r)
  <2>1. PICK d \in ChallengeIds \ started :
          requests' = [requests EXCEPT ![r].stage = "STARTED", ![r].challenge = d]
    BY <1>5 DEF StartEmail
  <2>2. /\ Moved(r) /\ requests'[r].stage = "STARTED" /\ requests'[r].challenge = d
        /\ requests'[r].route = requests[r].route
    BY <2>1, ChallengeWrites DEF Stages
  <2>3. /\ requests[r].stage = "LOADED" /\ requests[r].route = "EMAIL" /\ proven' = proven
        /\ UNCHANGED <<clock, interactions, lapses, markers>>
    BY <1>5 DEF StartEmail, At
  <2> QED
    BY <2>2, <2>3, ChallengeKeepsCode
<1>6. CASE VerifyEmail(r)
  <2>1. PICK d \in ChallengeIds :
          /\ d = requests[r].read.email /\ proven' = proven \cup {d}
          /\ requests' = [requests EXCEPT ![r].stage = "REGET", ![r].challenge = d]
    BY <1>6 DEF VerifyEmail
  <2>2. /\ Moved(r) /\ requests'[r].stage = "REGET" /\ requests'[r].challenge = d
        /\ requests'[r].route = requests[r].route
    <3>1. "REGET" \in Stages
      BY DEF Stages
    <3>2. requests' = [requests EXCEPT ![r].stage = "REGET", ![r].challenge = d]
      BY <2>1
    <3> QED
      BY <3>1, <3>2, ChallengeWrites
  <2>3. /\ requests[r].stage = "LOADED" /\ requests[r].route = "CODE"
        /\ UNCHANGED <<clock, interactions, lapses, markers>>
    BY <1>6 DEF VerifyEmail, At
  <2> QED
    BY <2>1, <2>2, <2>3, ChallengeKeepsCode
<1>7. CASE Lease(r)
  <2>1. /\ requests[r].stage \in {"STARTED", "LEASE"}
        /\ UNCHANGED <<clock, interactions, lapses, markers, started, proven>>
    BY <1>7 DEF Lease, At
  <2>2. requests[r].read \in Interaction
    BY <1>2, <2>1 DEF Holding, HasRead, TypeOK, Request
  <2>3. requests[r].read.expiresAt \in Nat /\ clock \in Nat
    BY <2>2 DEF Interaction, TypeOK
  <2>4. CASE Remaining(requests[r].read) <= 0 /\ Goto(r, "EXPIRED")
    <3>1. Over(r)
      BY <2>3, <2>4 DEF Remaining, Over, PastDeadline
    <3> QED
      BY <2>1, <2>4, <3>1, GotoKeepsCode DEF Stages
  <2>5. CASE /\ Remaining(requests[r].read) > 0
             /\ requests' = [requests EXCEPT
                  ![r].stage = IF @ = "STARTED" THEN "SAVE" ELSE "CLAIM",
                  ![r].px = Remaining(requests[r].read)]
    <3>1. PICK px \in Nat : px = Remaining(requests[r].read)
      BY <2>3, <2>5 DEF Remaining
    <3>2. PICK stage \in Stages :
            /\ requests' = [requests EXCEPT ![r].stage = stage, ![r].px = px]
            /\ \/ requests[r].stage = "STARTED" /\ stage = "SAVE"
               \/ requests[r].stage = "LEASE" /\ stage = "CLAIM"
      BY <2>1, <2>5, <3>1 DEF Stages
    <3>3. /\ Moved(r) /\ requests'[r].stage = stage
          /\ requests'[r].route = requests[r].route
          /\ requests'[r].challenge = requests[r].challenge
      BY <3>2, LeaseWrites
    <3> QED
      BY <2>1, <3>2, <3>3, MovedKeepsCode
  <2> QED
    BY <1>7, <2>4, <2>5 DEF Lease
<1>8. CASE Save(r)
  <2>1. /\ requests[r].stage = "SAVE" /\ requests[r].route = "EMAIL"
        /\ UNCHANGED <<clock, markers, started, proven>>
    BY <1>8 DEF Save, At, Carried
  <2>2. CASE Goto(r, "EXPIRED") /\ UNCHANGED <<interactions, lapses>>
    BY <2>1, <2>2, GotoKeepsCode DEF Stages
  <2>3. CASE /\ interactions' = [interactions EXCEPT ![h] = Step(requests[r].read, c)]
             /\ lapses' = [lapses EXCEPT ![h] = clock + requests[r].px]
             /\ Goto(r, "SAVED")
    <3>1. requests[r].read \in Interaction /\ c \in ChallengeIds \cup {NoChallenge}
      BY <1>2, <2>1 DEF Holding, HasRead, TypeOK, Request
    <3> DEFINE step == Step(requests[r].read, c)
    <3>2. step \in Interaction /\ step.email = c /\ step.expiresAt = requests[r].read.expiresAt
      BY <3>1 DEF Step, Interaction
    <3>3. /\ Moved(r) /\ requests'[r].stage = "SAVED"
          /\ requests'[r].route = requests[r].route
          /\ requests'[r].challenge = requests[r].challenge
      BY <2>3, GotoWrites DEF Stages
    <3>4. Handle(r) \in Handles /\ interactions' = [interactions EXCEPT ![Handle(r)] = step]
      BY <1>1, <2>1, <2>3
    <3> HIDE DEF step
    <3> QED
      BY <2>1, <2>3, <3>2, <3>3, <3>4, SaveKeepsCode
  <2> QED
    BY <1>8, <2>2, <2>3 DEF Save
<1>9. CASE Claim(r)
  <2>1. /\ requests[r].stage = "CLAIM"
        /\ UNCHANGED <<clock, interactions, lapses, started, proven>>
    BY <1>9 DEF Claim, At
  <2>2. CASE Marked(h) /\ Goto(r, "EXPIRED") /\ UNCHANGED markers
    <3>1. markers[h] # 0
      BY <1>1, <2>1, <2>2 DEF Marked, TypeOK
    <3>2. Over(r)
      BY <1>1, <2>1, <3>1 DEF Marks, Over
    <3> QED
      BY <2>1, <2>2, <3>2, GotoKeepsCode DEF Stages
  <2>3. CASE /\ markers' = [markers EXCEPT ![h] = clock + requests[r].px]
             /\ requests' = [requests EXCEPT ![r].stage = "WON", ![r].wonAt = clock]
    <3>1. clock \in Nat
      BY DEF TypeOK
    <3>2. /\ requests'[r].stage = "WON" /\ requests'[r].wonAt = clock
          /\ requests'[r].handle = requests[r].handle
          /\ requests'[r].read = requests[r].read
          /\ requests'[r].route = requests[r].route
          /\ requests'[r].challenge = requests[r].challenge
          /\ \A q \in RequestIds \ {r} : requests'[q] = requests[q]
      BY <2>3, <3>1, WonWrites DEF Stages
    <3>3. Handle(r) \in Handles /\ \A j \in Handles \ {Handle(r)} : markers'[j] = markers[j]
      BY <1>1, <2>1, <2>3 DEF TypeOK
    <3> QED
      BY <2>1, <3>1, <3>2, <3>3, WinKeepsCode
  <2> QED
    BY <1>9, <2>2, <2>3 DEF Claim
<1>10. CASE Drop(r)
  <2>1. /\ requests[r].stage = "WON" /\ Goto(r, "CONSUMED")
        /\ interactions' = [interactions EXCEPT ![h] = NoInteraction]
        /\ UNCHANGED <<clock, lapses, markers, started, proven>>
    BY <1>10 DEF Drop, At
  <2>2. r \in Winners(h)
    BY <2>1 DEF Carried, Winners
  <2>3. \A q \in RequestIds : HasRead(q) /\ Handle(q) = h => Over(q)
    BY <2>2 DEF Over
  <2> QED
    BY <2>1, <2>3, GotoKeepsCode DEF Stages
<1>11. CASE HandOver(r) \/ Crash(r)
  <2>1. /\ requests[r].stage \notin {"IDLE", "SAVED"}
        /\ UNCHANGED <<clock, interactions, lapses, markers, started, proven>>
        /\ \E stage \in {"HANDED", "FAILED", "CRASHED"} : Goto(r, stage)
    BY <1>11 DEF HandOver, Crash, At, Ends
  <2> QED
    BY <2>1, GotoKeepsCode DEF Stages
<1> QED
  BY <1>3, <1>4, <1>5, <1>6, <1>7, <1>8, <1>9, <1>10, <1>11 DEF Handler

\* Every step keeps verified codes.
LEMMA CodeKeptStep == InteractionInv /\ CodeKept /\ [Next]_vars => CodeKept'
<1> SUFFICES ASSUME TypeOK, Safe, CodeKept, [Next]_vars PROVE CodeKept'
  BY DEF InteractionInv
<1>1. CASE \E r \in RequestIds : Handler(r) \/ Crash(r)
  BY <1>1, RequestKeepsCode
<1>2. CASE \E r \in RequestIds, h \in Handles, route \in Routes : Submit(r, h, route)
  BY <1>2, SubmitKeepsCode
<1>3. CASE \E h \in Handles : Create(h)
  BY <1>3, CreateKeepsCode
<1>4. CASE Tick
  BY <1>4, TickKeepsCode
<1>5. CASE UNCHANGED vars
  BY <1>5 DEF vars, CodeKept, Carried, Unsaved, Secret, KeyOutlives, Removed, Expiring, Expired,
     Marks, Turned, Over, HasRead, PastDeadline, Winners, Handle, At
<1> QED
  BY <1>1, <1>2, <1>3, <1>4, <1>5 DEF Next

\* Nothing was read, started or marked yet.
LEMMA CodeKeptInit == Init => CodeKept
<1> SUFFICES ASSUME Init PROVE CodeKept
  OBVIOUS
<1>1. \A r \in RequestIds :
        /\ requests[r].stage = "IDLE" /\ requests[r].read = NoInteraction
        /\ requests[r].challenge = NoChallenge
  BY DEF Init, Blank
<1> QED
  BY <1>1 DEF Init, CodeKept, Carried, Unsaved, KeyOutlives, Removed, Expiring, Marks, Turned,
     HasRead, At

\* A verified code is turned down only because another request won the interaction or
\* its deadline is over: no lost key, marker or late save costs it its login.
THEOREM ProofsNotWastedHolds == Spec => []ProofsNotWasted
<1>1. InteractionInv /\ CodeKept => ProofsNotWasted
  <2> SUFFICES ASSUME InteractionInv, CodeKept, NEW r \in RequestIds,
                      At(r, "EXPIRED"), requests[r].challenge \in proven
               PROVE  \/ Winners(Handle(r)) \ {r} # {}
                      \/ PastDeadline(requests[r].read)
    BY DEF ProofsNotWasted
  <2>1. requests[r].challenge # NoChallenge
    BY AbsenceAssumption DEF InteractionInv, TypeOK
  <2>2. requests[r].route # "EMAIL"
    BY <2>1 DEF CodeKept, Unsaved, Secret, At
  <2>3. Over(r)
    BY <2>1, <2>2 DEF CodeKept, Turned
  <2>4. r \notin Winners(Handle(r))
    BY DEF InteractionInv, Safe, Placed, Winning, Winners, At
  <2> QED
    BY <2>3, <2>4 DEF Over
<1> QED
  BY <1>1, CodeKeptInit, CodeKeptStep, InteractionInvHolds, PTL DEF Spec
=============================================================================
