------------------------ MODULE IdentityServicesProofs ------------------------
(***************************************************************************)
(* Theorems about IdentityServices: every property of the services that     *)
(* share no state, for any number of requests, subjects, calls, processes   *)
(* and whatever else the constants are.                                     *)
(*                                                                         *)
(* One service after the other, each has an invariant that its first state  *)
(* satisfies and its steps keep; the theorems of all of them follow at the  *)
(* end.  Face Setup has a module of its own, FaceSetupProofs.               *)
(***************************************************************************)
EXTENDS IdentityServices, FiniteSetTheorems, TLAPS

-----------------------------------------------------------------------------
(* Face Setup                                                              *)

\* The theorems about Face Setup, of the variables that the service has here.
Served == INSTANCE FaceSetupProofs WITH
    store <- fStore, requests <- fRequests, fresh <- fFresh, trusted <- fTrusted,
    consented <- fConsented, face <- fFace, challenges <- fChallenges, starts <- fStarts,
    enrollments <- fEnrollments, lapsed <- fLapsed, outcomes <- fOutcomes,
    abandoned <- fAbandoned, changes <- fChanges

\* The module of the theorems about Face Setup speaks of the same behaviour.
LEMMA SetupInits == Setup!Init <=> Served!Init
BY DEF Setup!Idle, Served!Idle, Setup!Init, Served!Init

\* Its steps are the same.
LEMMA SetupSteps == [Setup!Next]_Setup!vars <=> [Served!Next]_Served!vars
<1>1. UNCHANGED Setup!vars <=> UNCHANGED Served!vars
  BY DEF Setup!vars, Served!vars
<1>2. Setup!Next <=> Served!Next
  BY DEF Setup!H5, Served!H5, Setup!world, Served!world, Setup!Operations, Served!Operations,
      Setup!Ended, Served!Ended, Setup!Created, Served!Created, Setup!Idle, Served!Idle,
      Setup!Live, Served!Live, Setup!Answered, Served!Answered, Setup!To, Served!To,
      Setup!Saving, Served!Saving, Setup!Finishing, Served!Finishing, Setup!Matches,
      Served!Matches, Setup!Create, Served!Create, Setup!Expire, Served!Expire, Setup!Takes,
      Served!Takes, Setup!Load, Served!Load, Setup!LoadCancel, Served!LoadCancel, Setup!Save,
      Served!Save, Setup!Finish, Served!Finish, Setup!ClaimEmail, Served!ClaimEmail,
      Setup!Calling, Served!Calling, Setup!Release, Served!Release, Setup!EmailRefused,
      Served!EmailRefused, Setup!EmailStarted, Served!EmailStarted, Setup!Verified,
      Served!Verified, Setup!EmailVerified, Served!EmailVerified, Setup!Decide, Served!Decide,
      Setup!ClaimConsent, Served!ClaimConsent, Setup!AcceptConsent, Served!AcceptConsent,
      Setup!StatusOf, Served!StatusOf, Setup!Reserved, Served!Reserved, Setup!StartEnrollment,
      Served!StartEnrollment, Setup!Succeeded, Served!Succeeded, Setup!Callback,
      Served!Callback, Setup!Resolve, Served!Resolve, Setup!Works, Served!Works, Setup!Crash,
      Served!Crash, Setup!Change, Served!Change, Setup!EnrollmentEnds, Served!EnrollmentEnds,
      Setup!EnrollmentLapses, Served!EnrollmentLapses, Setup!Stale, Served!Stale,
      Setup!Distrust, Served!Distrust, Setup!FaceElsewhere, Served!FaceElsewhere,
      Setup!Serve, Served!Serve, Setup!Next, Served!Next
<1> QED
  BY <1>1, <1>2

\* So is what is said of it.
LEMMA SetupProperties ==
    /\ Setup!SetupConsistent <=> Served!SetupConsistent
    /\ Setup!ProcessingHasWorker <=> Served!ProcessingHasWorker
    /\ Setup!Advances <=> Served!Advances
<1>1. Setup!SetupConsistent <=> Served!SetupConsistent
  BY DEF Setup!Operations, Served!Operations, Setup!Interactions, Served!Interactions,
      Setup!Ended, Served!Ended, Setup!Outcomes, Served!Outcomes, Setup!Idle, Served!Idle,
      Setup!RequestStates, Served!RequestStates, Setup!TypeOK, Served!TypeOK,
      Setup!SideEffectsOnce, Served!SideEffectsOnce, Setup!StatusOf, Served!StatusOf,
      Setup!OutcomeSound, Served!OutcomeSound, Setup!SetupConsistent, Served!SetupConsistent
<1>2. Setup!ProcessingHasWorker <=> Served!ProcessingHasWorker
  BY DEF Setup!Ended, Served!Ended, Setup!Idle, Served!Idle, Setup!Live, Served!Live,
      Setup!Works, Served!Works, Setup!Processing, Served!Processing, Setup!ProcessingHasWorker,
      Served!ProcessingHasWorker
<1>3. Setup!Advances <=> Served!Advances
  BY DEF Setup!Rank, Served!Rank, Setup!Advances, Served!Advances
<1> QED
  BY <1>1, <1>2, <1>3

\* The invariant of Face Setup holds first.
LEMMA SetupInit == Setup!Init => Served!SetupInv
BY SetupInits, ChangesAssumption, Served!InitGood

\* Every step keeps it.
LEMMA SetupStep == Served!SetupInv /\ [Setup!Next]_Setup!vars => Served!SetupInv'
BY SetupSteps, ChangesAssumption, Served!StepGood

-----------------------------------------------------------------------------
(* The legacy enrollment                                                   *)

\* What is under way or enrolled belongs to a row that was created, and to its own face.
LegacyTypes ==
    /\ lTransactions \in [Transactions -> Legacy!Statuses]
    /\ lPuids \in [Transactions -> Faces]
    /\ lSessions \subseteq Transactions
    /\ lEnrolledBy \in [Faces -> Transactions \cup {"none", "other"}]
    /\ lWebhooks \in [Webhooks -> {Legacy!Idle} \cup
            [step : {"FIND", "EXPIRE", "RESOLVE", "INSERT", "MARK"}, row : Transactions]]

\* What a webhook relies on: its row, that it was late, its identity, its authenticator.
DeliveryGood(w) ==
    /\ lTransactions[Legacy!Row(w)] # "none"
    /\ Legacy!At(w, "EXPIRE") => Legacy!Row(w) \in lLate
    /\ Legacy!At(w, "INSERT") \/ Legacy!At(w, "MARK") => Legacy!Puid(w) \in lIdentities
    /\ Legacy!At(w, "MARK") => lEnrolledBy[Legacy!Puid(w)] = Legacy!Row(w)

\* Sessions, webhooks and enrolled faces belong to rows that exist.
RowsGood ==
    /\ \A t \in lSessions : lTransactions[t] # "none"
    /\ \A w \in Webhooks : lWebhooks[w] # Legacy!Idle => DeliveryGood(w)
    /\ \A f \in Faces : lEnrolledBy[f] \in Transactions =>
            lTransactions[lEnrolledBy[f]] # "none" /\ lPuids[lEnrolledBy[f]] = f

\* The inductive invariant of the legacy enrollment.
LegacyInv == LegacyTypes /\ RowsGood /\ Legacy!EnrollmentsAgree

\* Before the first enrollment.
LEMMA LegacyInit == Legacy!Init => LegacyInv
BY TransactionsAssumption DEF Legacy!Init, LegacyInv, LegacyTypes, RowsGood,
   Legacy!EnrollmentsAgree, Legacy!CompletedEnrolled, Legacy!EnrolledIsMarked, Legacy!Statuses,
   Legacy!Idle

\* A delivery that is not idle has a step and a row.
LEMMA DeliveryShape ==
    ASSUME LegacyTypes, NEW w \in Webhooks, lWebhooks[w] # Legacy!Idle
    PROVE  /\ Legacy!Row(w) \in Transactions /\ Legacy!Puid(w) \in Faces
           /\ \A to \in {"EXPIRE", "RESOLVE", "INSERT", "MARK"} :
                /\ [lWebhooks[w] EXCEPT !.step = to] = [step |-> to, row |-> Legacy!Row(w)]
                /\ Legacy!Goto(w, to) =>
                       lWebhooks' = [lWebhooks EXCEPT ![w] = [step |-> to, row |-> Legacy!Row(w)]]
<1>1. PICK s \in {"FIND", "EXPIRE", "RESOLVE", "INSERT", "MARK"}, t \in Transactions :
        lWebhooks[w] = [step |-> s, row |-> t]
  BY DEF LegacyTypes
<1> QED
  BY <1>1 DEF LegacyTypes, Legacy!Row, Legacy!Puid, Legacy!Goto

\* A row that is created is nobody's yet.
LEMMA LegacyStart ==
    ASSUME LegacyInv, NEW t \in Transactions, NEW f \in Faces, Legacy!Start(t, f)
    PROVE  LegacyInv'
<1> USE TransactionsAssumption DEF Legacy!Start, LegacyInv
<1>1. LegacyTypes'
  BY DEF LegacyTypes, Legacy!Statuses
<1>2. \A w \in Webhooks : lWebhooks[w] # Legacy!Idle => Legacy!Row(w) # t /\ DeliveryGood(w)
  BY DEF RowsGood, DeliveryGood
<1>3. \A g \in Faces : lEnrolledBy[g] # t
  BY DEF RowsGood, LegacyTypes
<1>4. RowsGood'
  <2>1. ASSUME NEW w \in Webhooks, lWebhooks[w] # Legacy!Idle PROVE DeliveryGood(w)'
    BY <2>1, <1>2, DeliveryShape DEF DeliveryGood, LegacyTypes, Legacy!At, Legacy!Row,
       Legacy!Puid
  <2> QED
    BY <2>1, <1>3 DEF RowsGood, LegacyTypes
<1>5. Legacy!EnrollmentsAgree'
  BY <1>3 DEF Legacy!EnrollmentsAgree, Legacy!CompletedEnrolled, Legacy!EnrolledIsMarked,
     LegacyTypes, Legacy!At, Legacy!Row
<1> QED
  BY <1>1, <1>4, <1>5

\* A delivery that begins or goes on, and what it has done for its row.
LEMMA LegacyGoesOn ==
    ASSUME LegacyInv, NEW w \in Webhooks, NEW d, lWebhooks' = [lWebhooks EXCEPT ![w] = d],
           d \in {Legacy!Idle} \cup
                [step : {"FIND", "EXPIRE", "RESOLVE", "INSERT"}, row : Transactions],
           ~Legacy!At(w, "MARK"),
           UNCHANGED <<lTransactions, lPuids, lLate, lSessions, lEnrolledBy, lConfirmed, lDied>>,
           lIdentities \subseteq lIdentities',
           d # Legacy!Idle => /\ lTransactions[d.row] # "none"
                              /\ d.step = "EXPIRE" => d.row \in lLate
                              /\ d.step = "INSERT" => lPuids[d.row] \in lIdentities'
    PROVE  LegacyInv'
<1> USE DEF LegacyInv
<1>1. LegacyTypes'
  BY DEF LegacyTypes
<1>2. lWebhooks'[w] = d /\ \A v \in Webhooks \ {w} : lWebhooks'[v] = lWebhooks[v]
  BY DEF LegacyTypes
<1>3. RowsGood'
  <2>1. ASSUME NEW v \in Webhooks, lWebhooks'[v] # Legacy!Idle PROVE DeliveryGood(v)'
    <3>1. CASE v = w
      BY <3>1, <2>1, <1>2 DEF DeliveryGood, Legacy!At, Legacy!Row, Legacy!Puid
    <3>2. CASE v # w
      BY <3>2, <2>1, <1>2 DEF RowsGood, DeliveryGood, Legacy!At, Legacy!Row, Legacy!Puid
    <3> QED
      BY <3>1, <3>2
  <2> QED
    BY <2>1 DEF RowsGood
<1>4. \A v \in Webhooks : Legacy!At(v, "MARK") => v # w /\ lWebhooks'[v] = lWebhooks[v]
  BY <1>2
<1>5. Legacy!EnrollmentsAgree'
  BY <1>4 DEF Legacy!EnrollmentsAgree, Legacy!CompletedEnrolled, Legacy!EnrolledIsMarked,
     Legacy!At, Legacy!Row
<1> QED
  BY <1>1, <1>3, <1>5

\* A delivery takes its session's row, and looks at it.
LEMMA LegacyReads ==
    ASSUME LegacyInv, NEW w \in Webhooks,
           \/ \E t \in Transactions : Legacy!Deliver(w, t)
           \/ Legacy!Find(w) \/ Legacy!Resolve(w)
    PROVE  LegacyInv'
<1> USE DEF LegacyInv
<1>1. ASSUME NEW t \in Transactions, Legacy!Deliver(w, t) PROVE LegacyInv'
  <2>1. ~Legacy!At(w, "MARK") /\ lTransactions[t] # "none"
    BY <1>1 DEF Legacy!Deliver, Legacy!At, Legacy!Idle, RowsGood
  <2> QED
    BY <1>1, <2>1, LegacyGoesOn DEF Legacy!Deliver
<1>2. CASE Legacy!Find(w)
  <2>1. lWebhooks[w] # Legacy!Idle /\ ~Legacy!At(w, "MARK")
    BY <1>2 DEF Legacy!Find, Legacy!At, Legacy!Idle
  <2>2. Legacy!Row(w) \in Transactions /\ lTransactions[Legacy!Row(w)] # "none"
    BY <2>1, DeliveryShape DEF RowsGood, DeliveryGood
  <2>3. CASE Legacy!Answer(w)
    BY <2>3, <2>1, <1>2, LegacyGoesOn DEF Legacy!Find, Legacy!Answer
  <2>4. CASE Legacy!Goto(w, "EXPIRE") /\ Legacy!Row(w) \in lLate
    BY <2>4, <2>1, <2>2, <1>2, LegacyGoesOn, DeliveryShape DEF Legacy!Find
  <2>5. CASE Legacy!Goto(w, "RESOLVE")
    BY <2>5, <2>1, <2>2, <1>2, LegacyGoesOn, DeliveryShape DEF Legacy!Find
  <2> QED
    BY <1>2, <2>3, <2>4, <2>5 DEF Legacy!Find
<1>3. CASE Legacy!Resolve(w)
  <2>1. lWebhooks[w] # Legacy!Idle /\ ~Legacy!At(w, "MARK")
    BY <1>3 DEF Legacy!Resolve, Legacy!At, Legacy!Idle
  <2>2. Legacy!Row(w) \in Transactions /\ lTransactions[Legacy!Row(w)] # "none"
    BY <2>1, DeliveryShape DEF RowsGood, DeliveryGood
  <2> QED
    BY <1>3, <2>1, <2>2, LegacyGoesOn, DeliveryShape DEF Legacy!Resolve, Legacy!Puid
<1> QED
  BY <1>1, <1>2, <1>3

\* The face that is inserted was nobody's, and its delivery is about to mark the row.
LEMMA LegacyInsert ==
    ASSUME LegacyInv, NEW w \in Webhooks, Legacy!Insert(w)
    PROVE  LegacyInv'
<1> USE TransactionsAssumption DEF LegacyInv
<1>1. lWebhooks[w] # Legacy!Idle /\ ~Legacy!At(w, "MARK") /\ Legacy!Row(w) \in Transactions
          /\ Legacy!Puid(w) \in Faces
  <2>1. lWebhooks[w] # Legacy!Idle /\ ~Legacy!At(w, "MARK")
    BY DEF Legacy!Insert, Legacy!At, Legacy!Idle
  <2> QED
    BY <2>1, DeliveryShape
<1>2. lTransactions[Legacy!Row(w)] # "none" /\ Legacy!Puid(w) \in lIdentities
  BY <1>1 DEF Legacy!Insert, RowsGood, DeliveryGood
<1>3. CASE Legacy!Answer(w) /\ UNCHANGED lEnrolledBy
  BY <1>1, <1>3, LegacyGoesOn DEF Legacy!Insert, Legacy!Answer
<1>4. CASE /\ lEnrolledBy[Legacy!Puid(w)] = "none" /\ Legacy!Goto(w, "MARK")
           /\ lEnrolledBy' = [lEnrolledBy EXCEPT ![Legacy!Puid(w)] = Legacy!Row(w)]
  <2> DEFINE d == [step |-> "MARK", row |-> Legacy!Row(w)]
  <2>1. lWebhooks' = [lWebhooks EXCEPT ![w] = d]
    BY <1>1, <1>4, DeliveryShape
  <2>2. lWebhooks'[w] = d /\ \A v \in Webhooks \ {w} : lWebhooks'[v] = lWebhooks[v]
    BY <2>1 DEF LegacyTypes
  <2>3. lEnrolledBy'[Legacy!Puid(w)] = Legacy!Row(w)
        /\ \A f \in Faces \ {Legacy!Puid(w)} : lEnrolledBy'[f] = lEnrolledBy[f]
    BY <1>4, <1>1 DEF LegacyTypes
  <2>4. LegacyTypes'
    BY <1>1, <1>4, <2>1 DEF LegacyTypes, Legacy!Insert
  <2>5. UNCHANGED <<lTransactions, lPuids, lLate, lSessions, lIdentities, lConfirmed, lDied>>
    BY DEF Legacy!Insert
  <2>6. \A v \in Webhooks : Legacy!At(v, "MARK") => Legacy!Puid(v) # Legacy!Puid(w) /\ v # w
    <3> SUFFICES ASSUME NEW v \in Webhooks, Legacy!At(v, "MARK")
                 PROVE  Legacy!Puid(v) # Legacy!Puid(w)
      BY <1>1
    <3>1. lWebhooks[v] # Legacy!Idle
      BY DEF Legacy!At, Legacy!Idle
    <3>2. Legacy!Row(v) \in Transactions /\ lEnrolledBy[Legacy!Puid(v)] = Legacy!Row(v)
      BY <3>1, DeliveryShape DEF RowsGood, DeliveryGood
    <3> QED
      BY <3>2, <1>4
  <2>7. RowsGood'
    <3>1. ASSUME NEW v \in Webhooks, lWebhooks'[v] # Legacy!Idle PROVE DeliveryGood(v)'
      <4>1. CASE v = w
        <5>1. Legacy!Row(w)' = Legacy!Row(w) /\ Legacy!Puid(w)' = Legacy!Puid(w)
                  /\ lWebhooks'[w].step = "MARK"
          BY <2>2, <2>5 DEF Legacy!Row, Legacy!Puid
        <5> QED
          BY <4>1, <5>1, <1>2, <2>3, <2>5 DEF DeliveryGood, Legacy!At
      <4>2. CASE v # w
        <5>1. Legacy!Row(v)' = Legacy!Row(v) /\ Legacy!Puid(v)' = Legacy!Puid(v)
                  /\ lWebhooks'[v] = lWebhooks[v]
          BY <2>2, <2>5, <4>2 DEF Legacy!Row, Legacy!Puid
        <5>2. DeliveryGood(v) /\ Legacy!Puid(v) \in Faces
          BY <3>1, <5>1, DeliveryShape DEF RowsGood
        <5> QED
          BY <5>1, <5>2, <2>3, <2>5, <2>6 DEF DeliveryGood, Legacy!At
      <4> QED
        BY <4>1, <4>2
    <3>2. \A f \in Faces : lEnrolledBy'[f] \in Transactions =>
            lTransactions[lEnrolledBy'[f]] # "none" /\ lPuids[lEnrolledBy'[f]] = f
      BY <2>3, <1>1, <1>2 DEF RowsGood, Legacy!Puid
    <3> QED
      BY <3>1, <3>2, <2>5 DEF RowsGood
  <2>8. Legacy!CompletedEnrolled'
    <3>1. \A t \in Transactions : lEnrolledBy[lPuids[t]] = t => lEnrolledBy'[lPuids[t]] = t
      BY <2>3, <1>4 DEF LegacyTypes
    <3> QED
      BY <3>1, <2>5 DEF Legacy!EnrollmentsAgree, Legacy!CompletedEnrolled
  <2>9. Legacy!EnrolledIsMarked'
    <3> SUFFICES ASSUME NEW t \in Transactions, lTransactions[t] = "pending",
                        lEnrolledBy'[lPuids[t]] = t, t \notin lDied
                 PROVE  \E v \in Webhooks : Legacy!At(v, "MARK")' /\ Legacy!Row(v)' = t
      BY <2>5 DEF Legacy!EnrolledIsMarked
    <3>1. CASE t = Legacy!Row(w)
      BY <3>1, <2>2 DEF Legacy!At, Legacy!Row
    <3>2. CASE t # Legacy!Row(w)
      <4>1. lEnrolledBy[lPuids[t]] = t
        BY <3>2, <2>3 DEF LegacyTypes
      <4>2. PICK v \in Webhooks : Legacy!At(v, "MARK") /\ Legacy!Row(v) = t
        BY <4>1 DEF Legacy!EnrollmentsAgree, Legacy!EnrolledIsMarked
      <4> QED
        BY <4>2, <2>2, <1>1 DEF Legacy!At, Legacy!Row
    <3> QED
      BY <3>1, <3>2
  <2> QED
    BY <2>4, <2>7, <2>8, <2>9 DEF Legacy!EnrollmentsAgree
<1> QED
  BY <1>3, <1>4 DEF Legacy!Insert, Legacy!Inserted

\* A row that is completed has its face in place; one that has expired is past its deadline.
LEMMA LegacyEnds ==
    ASSUME LegacyInv, NEW w \in Webhooks, Legacy!Mark(w) \/ Legacy!Expire(w)
    PROVE  LegacyInv'
<1> USE DEF LegacyInv
<1> DEFINE t == Legacy!Row(w)
<1>1. lWebhooks[w] # Legacy!Idle /\ t \in Transactions /\ Legacy!Puid(w) \in Faces
  <2>1. lWebhooks[w] # Legacy!Idle
    BY DEF Legacy!Mark, Legacy!Expire, Legacy!At, Legacy!Idle
  <2> QED
    BY <2>1, DeliveryShape
<1>2. DeliveryGood(w)
  BY <1>1 DEF RowsGood
<1>3. lWebhooks' = [lWebhooks EXCEPT ![w] = Legacy!Idle] /\ lConfirmed' = lConfirmed \cup {t}
      /\ UNCHANGED <<lPuids, lLate, lSessions, lIdentities, lEnrolledBy, lDied>>
  BY DEF Legacy!Mark, Legacy!Expire, Legacy!Confirm, Legacy!Answer
<1>4. PICK s \in {"completed", "expired"} : lTransactions' = [lTransactions EXCEPT ![t] = s]
  BY DEF Legacy!Mark, Legacy!Expire, Legacy!Completed
<1>5. /\ lWebhooks'[w] = Legacy!Idle /\ \A v \in Webhooks \ {w} : lWebhooks'[v] = lWebhooks[v]
      /\ lTransactions'[t] = s
      /\ \A u \in Transactions \ {t} : lTransactions'[u] = lTransactions[u]
  BY <1>1, <1>3, <1>4 DEF LegacyTypes
<1>6. LegacyTypes'
  BY <1>3, <1>4 DEF LegacyTypes, Legacy!Statuses
<1>7. RowsGood'
  <2>1. \A u \in Transactions : lTransactions[u] # "none" => lTransactions'[u] # "none"
    BY <1>5
  <2>2. ASSUME NEW v \in Webhooks, lWebhooks'[v] # Legacy!Idle PROVE DeliveryGood(v)'
    <3>1. v # w /\ lWebhooks'[v] = lWebhooks[v] /\ lWebhooks[v] # Legacy!Idle
      BY <2>2, <1>5
    <3>2. DeliveryGood(v) /\ Legacy!Row(v) \in Transactions
      BY <3>1, DeliveryShape DEF RowsGood
    <3>3. Legacy!Row(v)' = Legacy!Row(v) /\ Legacy!Puid(v)' = Legacy!Puid(v)
      BY <3>1, <1>3 DEF Legacy!Row, Legacy!Puid
    <3> QED
      BY <3>1, <3>2, <3>3, <2>1, <1>3 DEF DeliveryGood, Legacy!At
  <2> QED
    BY <2>1, <2>2, <1>3 DEF RowsGood, LegacyTypes
<1>8. s = "completed" => lEnrolledBy[lPuids[t]] = t /\ lPuids[t] \in lIdentities
  <2>1. CASE Legacy!Mark(w)
    BY <2>1, <1>2 DEF Legacy!Mark, DeliveryGood, Legacy!Puid
  <2>2. CASE Legacy!Expire(w)
    BY <2>2, <1>1, <1>5 DEF Legacy!Expire, LegacyTypes
  <2> QED
    BY <2>1, <2>2
<1>9. t \in lLate \/ lEnrolledBy[lPuids[t]] = t
  BY <1>2 DEF Legacy!Mark, Legacy!Expire, DeliveryGood, Legacy!Puid
<1>10. Legacy!CompletedEnrolled'
  BY <1>3, <1>5, <1>8, <1>9 DEF Legacy!EnrollmentsAgree, Legacy!CompletedEnrolled
<1>11. Legacy!EnrolledIsMarked'
  <2> SUFFICES ASSUME NEW u \in Transactions, lTransactions'[u] = "pending",
                      lEnrolledBy[lPuids[u]] = u, u \notin lDied
               PROVE  \E v \in Webhooks : Legacy!At(v, "MARK")' /\ Legacy!Row(v)' = u
    BY <1>3 DEF Legacy!EnrolledIsMarked
  <2>1. u # t /\ lTransactions[u] = "pending"
    BY <1>5
  <2>2. PICK v \in Webhooks : Legacy!At(v, "MARK") /\ Legacy!Row(v) = u
    BY <2>1 DEF Legacy!EnrollmentsAgree, Legacy!EnrolledIsMarked
  <2> QED
    BY <2>1, <2>2, <1>5 DEF Legacy!At, Legacy!Row
<1> QED
  BY <1>6, <1>7, <1>10, <1>11 DEF Legacy!EnrollmentsAgree

\* A restart leaves the faces whose rows nobody will mark.
LEMMA LegacyRestart ==
    ASSUME LegacyInv, Legacy!Restart
    PROVE  LegacyInv'
<1> USE DEF LegacyInv, Legacy!Restart
<1>1. LegacyTypes' /\ RowsGood'
  BY DEF LegacyTypes, RowsGood
<1>2. Legacy!EnrollmentsAgree'
  BY DEF Legacy!EnrollmentsAgree, Legacy!CompletedEnrolled, Legacy!EnrolledIsMarked, Legacy!At,
     Legacy!Row
<1> QED
  BY <1>1, <1>2

\* Every step of the legacy enrollment.
LEMMA LegacyStep == LegacyInv /\ [Legacy!Next]_Legacy!vars => LegacyInv'
<1> SUFFICES ASSUME LegacyInv, [Legacy!Next]_Legacy!vars PROVE LegacyInv'
  OBVIOUS
<1>1. ASSUME NEW t \in Transactions, Legacy!Deadline(t) PROVE LegacyInv'
  BY <1>1 DEF Legacy!Deadline, LegacyInv, LegacyTypes, RowsGood, DeliveryGood, Legacy!At,
     Legacy!Row, Legacy!Puid, Legacy!EnrollmentsAgree, Legacy!CompletedEnrolled,
     Legacy!EnrolledIsMarked
<1>2. CASE UNCHANGED Legacy!vars
  BY <1>2 DEF Legacy!vars, LegacyInv, LegacyTypes, RowsGood, DeliveryGood, Legacy!At,
     Legacy!Row, Legacy!Puid, Legacy!EnrollmentsAgree, Legacy!CompletedEnrolled,
     Legacy!EnrolledIsMarked
<1> QED
  BY <1>1, <1>2, LegacyStart, LegacyReads, LegacyInsert, LegacyEnds, LegacyRestart DEF
     Legacy!Next

-----------------------------------------------------------------------------
(* The administration of subjects                                          *)

\* An address that the suggestions, the first rows or the registrations bring.
Known == {"none"} \cup Emails \cup {c.email : c \in Suggestions}
    \cup UNION {{first[s].email : s \in Subjects} : first \in InitialSubjects}

\* A claim's flag, a row, and the sources of a claim.
Truths == {"none", "true", "false"}
Rows == [status : {"ACTIVE", "DISABLED"}, email : Known, verified : Truths,
         principal : Principals]
Sources == {"none", "HAPI_EMAIL", "BOOKWRM", "MANUAL"}

\* A resolution of a link or of a merge, and the other two operations.
ResolutionRequests ==
    [step : {"FIND", "CREATE", "REFIND", "RESOLVE", "RECORD", "APPLY", "LINKED"},
     target : Subjects, source : {"BOOKWRM"}, suggested : [email : Known, verified : Truths],
     then : {"LINKED"}, changes : SUBSET Admin!Claims, todo : SUBSET Admin!Claims,
     account : Accounts, loser : {"none"}]
    \cup
    [step : {"RESOLVE", "RECORD", "APPLY", "DISABLE", "REASSIGN"},
     target : Subjects, source : {"MANUAL"}, suggested : [email : Known, verified : Truths],
     then : {"DISABLE"}, changes : SUBSET Admin!Claims, todo : SUBSET Admin!Claims,
     account : {"none"}, loser : Subjects]

MergeRequests == [step : {"READ"}, survivor : Subjects, loser : Subjects,
            mine : Rows \cup {Admin!Absent}, theirs : Rows \cup {Admin!Absent}]

RecoveryRequests == [step : {"RELINK"}, target : Subjects, principal : Principals]

AllRequests == {Admin!Idle} \cup ResolutionRequests \cup MergeRequests \cup RecoveryRequests

\* The types of the administration.
AdministrationTypes ==
    /\ aSubjects \in [Subjects -> Rows \cup {Admin!Absent}]
    /\ aProvenance \in [Subjects -> [Admin!Claims -> Sources]]
    /\ aWriters \in [Subjects -> [Admin!Claims -> Sources]]
    /\ aFaces \in [Faces -> Subjects]
    /\ aLinks \subseteq [account : Accounts, subject : Subjects]
    /\ aLinked \subseteq aLinks
    /\ aMerged \subseteq [survivor : Subjects, loser : Subjects]
    /\ aRequests \in [Requests -> AllRequests]

\* What an operation relies on: rows that exist, its link or its disabled loser, and what
\* it has still to record.
Relies(r, now, known) ==
    CASE r.step = "READ" ->
            now[r.survivor] # Admin!Absent /\ now[r.loser] # Admin!Absent /\ r.survivor # r.loser
      [] r.step = "RELINK" -> now[r.target] # Admin!Absent
      [] r.step = "IDLE" -> TRUE
      [] OTHER ->
            /\ now[r.target] # Admin!Absent
            /\ r.then = "LINKED" /\ r.step \notin {"FIND", "CREATE", "REFIND"} =>
                 [account |-> r.account, subject |-> r.target] \in known
            /\ r.then = "DISABLE" => now[r.loser] # Admin!Absent /\ r.loser # r.target
            /\ r.step = "REASSIGN" => now[r.loser].status = "DISABLED"
            /\ r.step = "RECORD" => r.todo # {}
            /\ r.step = "APPLY" => r.todo = {}
            /\ r.todo \subseteq r.changes

\* One link per account, and one per subject.
LinksUnique == \A l, m \in aLinks : (l.account = m.account) = (l.subject = m.subject)

\* Provenance runs ahead of the writers by what one resolution has recorded.
Ahead(s) ==
    \A q \in Requests : Admin!Resolving(q) /\ Admin!Target(q) = s =>
        /\ \A p \in Requests : Admin!Resolving(p) /\ Admin!Target(p) = s => p = q
        /\ \A c \in Admin!Claims : aProvenance[s][c] =
              IF c \in aRequests[q].changes \ aRequests[q].todo
              THEN aRequests[q].source ELSE aWriters[s][c]

\* The inductive invariant of the administration.
AdministrationInv ==
    /\ AdministrationTypes
    /\ \A q \in Requests : Relies(aRequests[q], aSubjects, aLinks)
    /\ LinksUnique
    /\ Admin!PrincipalsUnique
    /\ \A s \in Subjects \ aDisturbed : Ahead(s)
    /\ Admin!ProvenanceOwned
    /\ Admin!MergeCompletes

\* The initial rows have principals of their own, and nothing is under way.
LEMMA AdministrationInit == Admin!Init => AdministrationInv
<1> SUFFICES ASSUME Admin!Init PROVE AdministrationInv
  OBVIOUS
<1> USE AdministrationAssumption DEF Admin!Init
<1>1. PICK first \in InitialSubjects : aSubjects = first
  OBVIOUS
<1>2. aSubjects \in [Subjects -> Rows \cup {Admin!Absent}]
  <2>1. {first[s].email : s \in Subjects} \subseteq Known
    BY DEF Known
  <2> QED
    BY <1>1, <2>1 DEF Rows, Truths
<1>3. aProvenance \in [Subjects -> [Admin!Claims -> Sources]] /\ aWriters = aProvenance
  BY DEF Sources
<1>4. AdministrationTypes
  BY <1>2, <1>3 DEF AdministrationTypes, AllRequests
<1>5. \A q \in Requests : aRequests[q] = Admin!Idle /\ aRequests[q].step = "IDLE"
  BY DEF Admin!Idle
<1>6. \A q \in Requests : Relies(aRequests[q], aSubjects, aLinks)
  BY <1>5 DEF Relies
<1>7. Admin!PrincipalsUnique
  BY <1>1 DEF Admin!PrincipalsUnique, Admin!Holders, Admin!Exists
<1>8. (\A s \in Subjects \ aDisturbed : Ahead(s)) /\ Admin!ProvenanceOwned
  BY <1>3, <1>5 DEF Ahead, Admin!ProvenanceOwned, Admin!Resolving
<1>9. LinksUnique /\ Admin!MergeCompletes
  BY DEF LinksUnique, Admin!MergeCompletes
<1> QED
  BY <1>4, <1>6, <1>7, <1>8, <1>9 DEF AdministrationInv

\* An operation that is not resolving claims goes on to another step that is not, and
\* at most adds a link.
LEMMA AdministrationGoesOn ==
    ASSUME AdministrationInv, NEW q \in Requests, NEW r \in AllRequests,
           aRequests' = [aRequests EXCEPT ![q] = r],
           ~Admin!Resolving(q), r.step \notin {"RECORD", "APPLY"},
           UNCHANGED <<aSubjects, aProvenance, aFaces, aMerged, aWriters>>,
           aDisturbed \subseteq aDisturbed', aLinks \subseteq aLinks', aLinked' \subseteq aLinks',
           aLinks' \subseteq [account : Accounts, subject : Subjects],
           LinksUnique', Relies(r, aSubjects, aLinks')
    PROVE  AdministrationInv'
<1> USE DEF AdministrationInv
<1>1. AdministrationTypes'
  BY DEF AdministrationTypes
<1>2. aRequests'[q] = r /\ \A p \in Requests \ {q} : aRequests'[p] = aRequests[p]
  BY DEF AdministrationTypes
<1>3. \A p \in Requests : Relies(aRequests'[p], aSubjects', aLinks')
  <2> SUFFICES ASSUME NEW p \in Requests, p # q PROVE Relies(aRequests[p], aSubjects, aLinks')
    BY <1>2
  <2>1. Relies(aRequests[p], aSubjects, aLinks)
    OBVIOUS
  <2> QED
    BY <2>1 DEF Relies
<1>4. \A p \in Requests : /\ Admin!Resolving(p)' <=> Admin!Resolving(p)
                          /\ Admin!Resolving(p) => aRequests'[p] = aRequests[p]
  BY <1>2 DEF Admin!Resolving
<1>5. (\A s \in Subjects \ aDisturbed : Ahead(s))' /\ Admin!ProvenanceOwned'
  BY <1>4 DEF Ahead, Admin!ProvenanceOwned, Admin!Target
<1>6. Admin!PrincipalsUnique' /\ Admin!MergeCompletes'
  BY DEF Admin!PrincipalsUnique, Admin!Holders, Admin!Exists, Admin!MergeCompletes
<1> QED
  BY <1>1, <1>3, <1>5, <1>6
Linking == {"FIND", "CREATE", "REFIND", "RESOLVE", "RECORD", "APPLY", "LINKED"}
Moving == {"RESOLVE", "RECORD", "APPLY", "DISABLE", "REASSIGN"}

\* What a request that links or merges is.
LEMMA ResolutionShape ==
    ASSUME AdministrationTypes, NEW q \in Requests,
           aRequests[q].step \notin {"IDLE", "READ", "RELINK"}
    PROVE  /\ aRequests[q] \in ResolutionRequests
           /\ Admin!Target(q) \in Subjects /\ aRequests[q].source \in Sources
           /\ aRequests[q].changes \subseteq Admin!Claims
           /\ aRequests[q].todo \subseteq Admin!Claims
           /\ \/ /\ aRequests[q].then = "LINKED" /\ aRequests[q].step \in Linking
                 /\ aRequests[q].account \in Accounts
              \/ /\ aRequests[q].then = "DISABLE" /\ aRequests[q].step \in Moving
                 /\ aRequests[q].loser \in Subjects
<1>1. aRequests[q] \in AllRequests
  BY DEF AdministrationTypes
<1>2. aRequests[q] # Admin!Idle /\ aRequests[q] \notin MergeRequests
          /\ aRequests[q] \notin RecoveryRequests
  BY DEF Admin!Idle, MergeRequests, RecoveryRequests
<1>3. aRequests[q] \in ResolutionRequests
  BY <1>1, <1>2 DEF AllRequests
<1> QED
  BY <1>3 DEF ResolutionRequests, Admin!Target, Sources, Linking, Moving

\* Only its step changes.
LEMMA Stepped ==
    ASSUME NEW r \in ResolutionRequests, NEW to,
           \/ r.then = "LINKED" /\ to \in Linking
           \/ r.then = "DISABLE" /\ to \in Moving
    PROVE  LET n == [r EXCEPT !.step = to] IN
           /\ n \in ResolutionRequests /\ n.step = to /\ n.target = r.target
           /\ n.source = r.source /\ n.suggested = r.suggested /\ n.then = r.then
           /\ n.changes = r.changes /\ n.todo = r.todo /\ n.account = r.account
           /\ n.loser = r.loser
BY DEF ResolutionRequests, Linking, Moving

\* What the steps of a link rely on.
LEMMA LinkRelies ==
    ASSUME AdministrationInv, NEW q \in Requests,
           aRequests[q].step \notin {"IDLE", "READ", "RELINK"}
    PROVE  LET r == aRequests[q] IN
           /\ aSubjects[r.target] # Admin!Absent
           /\ r.then = "LINKED" /\ r.step \notin {"FIND", "CREATE", "REFIND"} =>
                [account |-> r.account, subject |-> r.target] \in aLinks
           /\ r.then = "DISABLE" => aSubjects[r.loser] # Admin!Absent /\ r.loser # r.target
           /\ r.step = "REASSIGN" => aSubjects[r.loser].status = "DISABLED"
           /\ r.step = "RECORD" => r.todo # {}
           /\ r.step = "APPLY" => r.todo = {}
           /\ r.todo \subseteq r.changes
<1>1. Relies(aRequests[q], aSubjects, aLinks)
  BY DEF AdministrationInv
<1> QED
  BY <1>1 DEF Relies

\* A link is looked up, created, looked up again and answered.
LEMMA LinksGood ==
    ASSUME AdministrationInv, NEW q \in Requests,
           \/ \E a \in Accounts, s \in Subjects, c \in Suggestions : Admin!BeginLink(q, a, s, c)
           \/ Admin!Find(q) \/ Admin!Create(q) \/ Admin!Refind(q) \/ Admin!Linked(q)
    PROVE  AdministrationInv'
<1> USE DEF Admin!rows
<1>0. LinksUnique /\ aLinked \subseteq aLinks
      /\ aLinks \subseteq [account : Accounts, subject : Subjects] /\ AdministrationTypes
  BY DEF AdministrationInv, AdministrationTypes
<1>1. ASSUME NEW a \in Accounts, NEW s \in Subjects, NEW c \in Suggestions,
             Admin!BeginLink(q, a, s, c)
      PROVE  AdministrationInv'
  <2> DEFINE r == Admin!Resolution("FIND", s, "BOOKWRM", c, "LINKED", a, "none")
  <2>1. c \in [email : Known, verified : Truths]
    BY AdministrationAssumption DEF Known, Truths
  <2>2. r \in AllRequests /\ r.step = "FIND" /\ r.target = s /\ r.todo \subseteq r.changes
        /\ r.then = "LINKED"
    BY <2>1 DEF AllRequests, ResolutionRequests, Admin!Resolution
  <2>3. Relies(r, aSubjects, aLinks)
    BY <1>1, <2>2 DEF Relies, Admin!BeginLink, Admin!Exists
  <2>4. ~Admin!Resolving(q)
    BY <1>1 DEF Admin!BeginLink, Admin!Begin, Admin!Idle, Admin!Resolving
  <2> QED
    BY <1>0, <1>1, <2>2, <2>3, <2>4, AdministrationGoesOn DEF Admin!BeginLink, Admin!Begin,
       LinksUnique
<1>2. ASSUME Admin!Find(q) \/ Admin!Create(q) \/ Admin!Refind(q) \/ Admin!Linked(q)
      PROVE  AdministrationInv'
  <2>1. /\ aRequests[q].step \in {"FIND", "CREATE", "REFIND", "LINKED"} /\ ~Admin!Resolving(q)
        /\ UNCHANGED <<aSubjects, aProvenance, aFaces, aMerged, aWriters, aDisturbed>>
    BY <1>2 DEF Admin!Find, Admin!Create, Admin!Refind, Admin!Linked, Admin!At, Admin!Resolving
  <2>2. /\ aRequests[q] \in ResolutionRequests /\ aRequests[q].then = "LINKED"
        /\ Admin!Target(q) \in Subjects /\ aRequests[q].account \in Accounts
    BY <1>0, <2>1, ResolutionShape DEF Moving
  <2>3. ASSUME NEW to \in {"CREATE", "REFIND", "RESOLVE"}, Admin!Goto(q, to),
               aLinks \subseteq aLinks',
               aLinks' \subseteq [account : Accounts, subject : Subjects], LinksUnique',
               aLinked' = aLinked,
               to = "RESOLVE" =>
                 [account |-> aRequests[q].account, subject |-> Admin!Target(q)] \in aLinks'
        PROVE  AdministrationInv'
    <3> DEFINE r == [aRequests[q] EXCEPT !.step = to]
    <3>1. /\ r \in AllRequests /\ r.step = to /\ r.target = Admin!Target(q)
          /\ r.then = "LINKED" /\ r.account = aRequests[q].account
          /\ r.todo = aRequests[q].todo /\ r.changes = aRequests[q].changes
      BY <2>2, Stepped DEF AllRequests, Linking, Admin!Target
    <3>2. Relies(r, aSubjects, aLinks')
      BY <2>1, <2>3, <3>1, LinkRelies DEF Relies, Admin!Target
    <3> QED
      BY <1>0, <2>1, <2>3, <3>1, <3>2, AdministrationGoesOn DEF Admin!Goto
  <2>4. ASSUME Admin!Answer(q), aLinks' = aLinks, aLinked' \subseteq aLinks'
        PROVE  AdministrationInv'
    <3>1. Admin!Idle \in AllRequests /\ Admin!Idle.step = "IDLE"
              /\ Relies(Admin!Idle, aSubjects, aLinks')
      BY DEF AllRequests, Admin!Idle, Relies
    <3> QED
      BY <1>0, <2>1, <2>4, <3>1, AdministrationGoesOn DEF Admin!Answer, LinksUnique
  <2>5. CASE Admin!Find(q)
    <3>1. aLinks' = aLinks /\ aLinked' = aLinked
      BY <2>5 DEF Admin!Find
    <3>2. ASSUME NEW l \in Admin!LinkOf(aRequests[q].account), l.subject = Admin!Target(q)
          PROVE  [account |-> aRequests[q].account, subject |-> Admin!Target(q)] \in aLinks
      BY <3>2, <1>0 DEF Admin!LinkOf
    <3>3. CASE Admin!Goto(q, "CREATE")
      BY <3>3, <3>1, <2>3, <1>0 DEF LinksUnique
    <3>4. CASE Admin!Goto(q, "RESOLVE")
                   /\ \E l \in Admin!LinkOf(aRequests[q].account) : l.subject = Admin!Target(q)
      BY <3>4, <3>1, <3>2, <2>3, <1>0 DEF LinksUnique
    <3>5. CASE Admin!Answer(q)
      BY <3>5, <3>1, <2>4, <1>0
    <3> QED
      BY <2>5, <3>3, <3>4, <3>5 DEF Admin!Find
  <2>6. CASE Admin!Create(q)
    <3> DEFINE a == aRequests[q].account
               l == [account |-> a, subject |-> Admin!Target(q)]
    <3>1. CASE Admin!Insertable(a, Admin!Target(q)) /\ aLinks' = aLinks \cup {l}
                   /\ Admin!Goto(q, "RESOLVE")
      <4>1. LinksUnique' /\ aLinks' \subseteq [account : Accounts, subject : Subjects]
        BY <3>1, <1>0, <2>2 DEF Admin!Insertable, LinksUnique
      <4> QED
        BY <3>1, <4>1, <2>3, <2>6 DEF Admin!Create
    <3>2. CASE Admin!Goto(q, "REFIND") /\ UNCHANGED aLinks
      BY <3>2, <2>3, <2>6, <1>0 DEF Admin!Create, LinksUnique
    <3> QED
      BY <2>6, <3>1, <3>2 DEF Admin!Create
  <2>7. CASE Admin!Refind(q)
    <3>1. aLinks' = aLinks /\ aLinked' = aLinked
      BY <2>7 DEF Admin!Refind
    <3>2. Admin!Concurrent(q) =>
              [account |-> aRequests[q].account, subject |-> Admin!Target(q)] \in aLinks
      BY <1>0 DEF Admin!Concurrent, Admin!LinkOf
    <3>3. CASE Admin!Goto(q, "RESOLVE") /\ Admin!Concurrent(q)
      BY <3>3, <3>1, <3>2, <2>3, <1>0 DEF LinksUnique
    <3>4. CASE Admin!Answer(q)
      BY <3>4, <3>1, <2>4, <1>0
    <3> QED
      BY <2>7, <3>3, <3>4 DEF Admin!Refind
  <2>8. CASE Admin!Linked(q)
    <3>1. aRequests[q].step = "LINKED"
      BY <2>8 DEF Admin!Linked, Admin!At
    <3>2. [account |-> aRequests[q].account, subject |-> Admin!Target(q)] \in aLinks
      BY <3>1, <2>2, LinkRelies DEF Admin!Target
    <3> QED
      BY <2>8, <3>2, <2>4, <1>0 DEF Admin!Linked
  <2> QED
    BY <1>2, <2>5, <2>6, <2>7, <2>8
<1> QED
  BY <1>1, <1>2
\* A request that merges, or recovers.
LEMMA OtherShape ==
    ASSUME AdministrationInv, NEW q \in Requests
    PROVE  /\ aRequests[q].step = "READ" =>
                /\ aRequests[q] \in MergeRequests
                /\ aRequests[q].survivor \in Subjects /\ aRequests[q].loser \in Subjects
                /\ aRequests[q].survivor # aRequests[q].loser
                /\ aSubjects[aRequests[q].survivor] # Admin!Absent
                /\ aSubjects[aRequests[q].loser] # Admin!Absent
           /\ aRequests[q].step = "RELINK" =>
                /\ Admin!Target(q) \in Subjects /\ aRequests[q].principal \in Principals
                /\ aSubjects[Admin!Target(q)] # Admin!Absent
<1>1. aRequests[q] \in AllRequests /\ Relies(aRequests[q], aSubjects, aLinks)
  BY DEF AdministrationInv, AdministrationTypes
<1>2. CASE aRequests[q].step = "READ"
  <2>1. aRequests[q] \in MergeRequests
    BY <1>1, <1>2 DEF AllRequests, Admin!Idle, ResolutionRequests, MergeRequests,
       RecoveryRequests
  <2> QED
    BY <1>1, <1>2, <2>1 DEF Relies, MergeRequests
<1>3. CASE aRequests[q].step = "RELINK"
  <2>1. aRequests[q] \in RecoveryRequests
    BY <1>1, <1>3 DEF AllRequests, Admin!Idle, ResolutionRequests, MergeRequests,
       RecoveryRequests
  <2> QED
    BY <1>1, <1>3, <2>1 DEF Relies, RecoveryRequests, Admin!Target
<1> QED
  BY <1>2, <1>3

\* What changes of the requests alone, leaving every row.
LEMMA RowsStay ==
    ASSUME AdministrationInv, NEW q \in Requests, NEW r \in AllRequests,
           aRequests' = [aRequests EXCEPT ![q] = r],
           ~Admin!Resolving(q), r.step \notin {"RECORD", "APPLY"}, Relies(r, aSubjects, aLinks),
           UNCHANGED <<Admin!rows, aLinked, aMerged, aWriters>>, aDisturbed \subseteq aDisturbed'
    PROVE  AdministrationInv'
<1>1. LinksUnique /\ aLinked \subseteq aLinks
      /\ aLinks \subseteq [account : Accounts, subject : Subjects]
  BY DEF AdministrationInv, AdministrationTypes
<1> QED
  BY <1>1, AdministrationGoesOn DEF Admin!rows, LinksUnique

\* A recovery and a merge begin between rows that exist.
LEMMA BeginningsGood ==
    ASSUME AdministrationInv, NEW q \in Requests,
           \/ \E s, t \in Subjects : Admin!BeginMerge(q, s, t)
           \/ \E s \in Subjects, p \in Principals : Admin!BeginRecovery(q, s, p)
    PROVE  AdministrationInv'
<1>1. ASSUME NEW s \in Subjects, NEW t \in Subjects, Admin!BeginMerge(q, s, t)
      PROVE  AdministrationInv'
  <2> DEFINE r == [step |-> "READ", survivor |-> s, loser |-> t,
                   mine |-> Admin!Absent, theirs |-> Admin!Absent]
  <2>2. r \in AllRequests /\ r.step = "READ" /\ r.survivor = s /\ r.loser = t
    BY DEF AllRequests, MergeRequests
  <2>3. Relies(r, aSubjects, aLinks)
    BY <1>1, <2>2 DEF Relies, Admin!BeginMerge, Admin!Exists
  <2>4. ~Admin!Resolving(q)
    BY <1>1 DEF Admin!BeginMerge, Admin!Begin, Admin!Idle, Admin!Resolving
  <2> QED
    BY <1>1, <2>2, <2>3, <2>4, RowsStay DEF Admin!BeginMerge, Admin!Begin
<1>2. ASSUME NEW s \in Subjects, NEW p \in Principals, Admin!BeginRecovery(q, s, p)
      PROVE  AdministrationInv'
  <2> DEFINE r == [step |-> "RELINK", target |-> s, principal |-> p]
  <2>1. r \in AllRequests /\ r.step = "RELINK"
    BY DEF AllRequests, RecoveryRequests
  <2>2. Relies(r, aSubjects, aLinks)
    BY <1>2, <2>1 DEF Relies, Admin!BeginRecovery, Admin!Exists
  <2>3. ~Admin!Resolving(q)
    BY <1>2 DEF Admin!BeginRecovery, Admin!Begin, Admin!Idle, Admin!Resolving
  <2> QED
    BY <1>2, <2>1, <2>2, <2>3, RowsStay DEF Admin!BeginRecovery, Admin!Begin
<1> QED
  BY <1>1, <1>2

\* A merge reads its two rows.
LEMMA ReadGood ==
    ASSUME AdministrationInv, NEW q \in Requests, Admin!Read(q)
    PROVE  AdministrationInv'
<1>1. aRequests[q].step = "READ" /\ ~Admin!Resolving(q)
  BY DEF Admin!Read, Admin!At, Admin!Resolving
<1>2. PICK survivor \in Subjects, loser \in Subjects, mine \in Rows \cup {Admin!Absent},
           theirs \in Rows \cup {Admin!Absent} :
        aRequests[q] = [step |-> "READ", survivor |-> survivor, loser |-> loser,
                       mine |-> mine, theirs |-> theirs]
  BY <1>1, OtherShape DEF MergeRequests
<1>3. aSubjects[survivor] \in Rows \cup {Admin!Absent}
          /\ aSubjects[loser] \in Rows \cup {Admin!Absent}
  BY DEF AdministrationInv, AdministrationTypes
<1>4. ASSUME NEW m \in Rows \cup {Admin!Absent}, NEW t \in Rows \cup {Admin!Absent},
             aRequests' = [aRequests EXCEPT ![q] =
                [step |-> "READ", survivor |-> survivor, loser |-> loser,
                 mine |-> m, theirs |-> t]]
      PROVE  AdministrationInv'
  <2> DEFINE r == [step |-> "READ", survivor |-> survivor, loser |-> loser,
                   mine |-> m, theirs |-> t]
  <2>1. r \in AllRequests /\ r.step = "READ" /\ r.survivor = survivor /\ r.loser = loser
    BY DEF AllRequests, MergeRequests
  <2>2. Relies(r, aSubjects, aLinks)
    BY <1>1, <1>2, <2>1, OtherShape DEF Relies
  <2>3. UNCHANGED <<Admin!rows, aLinked, aMerged, aWriters, aDisturbed>>
    BY DEF Admin!Read
  <2> HIDE DEF r
  <2> QED
    BY <1>1, <1>4, <2>1, <2>2, <2>3, RowsStay DEF r
<1>5. CASE aRequests' = [aRequests EXCEPT ![q].mine = aSubjects[aRequests[q].survivor]]
  <2>1. PICK row \in Rows \cup {Admin!Absent} : row = aSubjects[survivor]
    BY <1>3
  <2>2. [aRequests[q] EXCEPT !.mine = row] =
            [step |-> "READ", survivor |-> survivor, loser |-> loser,
             mine |-> row, theirs |-> theirs]
    BY <1>2
  <2>3. aRequests[q].survivor = survivor
    BY <1>2
  <2>4. aRequests' = [aRequests EXCEPT ![q] = [aRequests[q] EXCEPT !.mine = row]]
    BY <1>5, <2>1, <2>3
  <2> QED
    BY <1>4, <2>2, <2>4
<1>6. CASE aRequests' = [aRequests EXCEPT ![q].theirs = aSubjects[aRequests[q].loser]]
  <2>1. PICK row \in Rows \cup {Admin!Absent} : row = aSubjects[loser]
    BY <1>3
  <2>2. [aRequests[q] EXCEPT !.theirs = row] =
            [step |-> "READ", survivor |-> survivor, loser |-> loser,
             mine |-> mine, theirs |-> row]
    BY <1>2
  <2>3. aRequests[q].loser = loser
    BY <1>2
  <2>4. aRequests' = [aRequests EXCEPT ![q] = [aRequests[q] EXCEPT !.theirs = row]]
    BY <1>6, <2>1, <2>3
  <2> QED
    BY <1>4, <2>2, <2>4
<1> QED
  BY <1>5, <1>6 DEF Admin!Read

\* A merge has read both, and resolves the claims of the survivor.
LEMMA ReconcileGood ==
    ASSUME AdministrationInv, NEW q \in Requests, Admin!Reconcile(q)
    PROVE  AdministrationInv'
<1>1. aRequests[q].step = "READ" /\ ~Admin!Resolving(q)
  BY DEF Admin!Reconcile, Admin!At, Admin!Resolving
<1>2. PICK survivor \in Subjects, loser \in Subjects, mine \in Rows \cup {Admin!Absent},
           theirs \in Rows \cup {Admin!Absent} :
        aRequests[q] = [step |-> "READ", survivor |-> survivor, loser |-> loser,
                       mine |-> mine, theirs |-> theirs]
  BY <1>1, OtherShape DEF MergeRequests
<1>3. survivor # loser /\ aSubjects[survivor] # Admin!Absent /\ aSubjects[loser] # Admin!Absent
  BY <1>1, <1>2, OtherShape
<1>4. theirs \in Rows
  BY <1>2 DEF Admin!Reconcile
<1> DEFINE claims == [email |-> IF theirs.email # mine.email THEN theirs.email ELSE "none",
                      verified |-> IF theirs.verified = "true" /\ mine.verified # "true"
                                   THEN "true" ELSE "none"]
           r == Admin!Resolution("RESOLVE", survivor, "MANUAL", claims, "DISABLE", "none", loser)
<1>5. claims \in [email : Known, verified : Truths]
  BY <1>4 DEF Rows, Known, Truths
<1>6. aRequests' = [aRequests EXCEPT ![q] = r]
  BY <1>2 DEF Admin!Reconcile
<1> HIDE DEF claims
<1>7. /\ r \in AllRequests /\ r.step = "RESOLVE" /\ r.target = survivor /\ r.then = "DISABLE"
      /\ r.loser = loser /\ r.todo \subseteq r.changes
  BY <1>5 DEF AllRequests, ResolutionRequests, Admin!Resolution
<1>8. Relies(r, aSubjects, aLinks)
  BY <1>3, <1>7 DEF Relies
<1>9. UNCHANGED <<Admin!rows, aLinked, aMerged, aWriters, aDisturbed>>
  BY DEF Admin!Reconcile
<1> HIDE DEF r
<1> QED
  BY <1>1, <1>6, <1>7, <1>8, <1>9, RowsStay
Owned(s) ==
    s \notin aDisturbed /\ ~(\E q \in Requests : Admin!Resolving(q) /\ Admin!Target(q) = s) =>
        aProvenance[s] = aWriters[s]

\* What a request does for its target leaves the claims of every other subject.
LEMMA OthersOwned ==
    ASSUME AdministrationInv, NEW q \in Requests, NEW s \in Subjects,
           NEW r \in AllRequests, aRequests' = [aRequests EXCEPT ![q] = r],
           Admin!Resolving(q) => Admin!Target(q) = s,
           r.step \in {"RECORD", "APPLY"} => r.target = s,
           aDisturbed \subseteq aDisturbed', NEW u \in Subjects, u # s,
           aProvenance'[u] = aProvenance[u], aWriters'[u] = aWriters[u]
    PROVE  /\ u \notin aDisturbed' => Ahead(u)'
           /\ Owned(u)'
<1>1. aRequests'[q] = r /\ \A p \in Requests \ {q} : aRequests'[p] = aRequests[p]
  BY DEF AdministrationInv, AdministrationTypes
<1>2. ASSUME NEW p \in Requests
      PROVE  /\ (Admin!Resolving(p) /\ Admin!Target(p) = u)' <=>
                    (Admin!Resolving(p) /\ Admin!Target(p) = u)
             /\ Admin!Resolving(p) /\ Admin!Target(p) = u => p # q /\ aRequests'[p] = aRequests[p]
  BY <1>1 DEF Admin!Resolving, Admin!Target
<1>3. u \notin aDisturbed => Ahead(u)
  BY DEF AdministrationInv
<1>4. Owned(u)
  BY DEF AdministrationInv, Admin!ProvenanceOwned, Owned
<1>5. u \notin aDisturbed' => Ahead(u)'
  BY <1>2, <1>3 DEF Ahead
<1>6. Owned(u)'
  BY <1>2, <1>4 DEF Owned
<1> QED
  BY <1>5, <1>6

\* A subject that nobody has disturbed and one request resolves.
LEMMA OneResolves ==
    ASSUME AdministrationInv, NEW q \in Requests, NEW s \in Subjects, s \notin aDisturbed,
           Admin!Resolving(q), Admin!Target(q) = s
    PROVE  /\ \A p \in Requests : Admin!Resolving(p) /\ Admin!Target(p) = s => p = q
           /\ \A c \in Admin!Claims : aProvenance[s][c] =
                IF c \in aRequests[q].changes \ aRequests[q].todo
                THEN aRequests[q].source ELSE aWriters[s][c]
BY DEF AdministrationInv, Ahead

\* What stays when the rows of subjects stay.
LEMMA SubjectsStay ==
    ASSUME AdministrationInv, NEW q \in Requests, NEW r \in AllRequests,
           aRequests' = [aRequests EXCEPT ![q] = r], Relies(r, aSubjects, aLinks),
           UNCHANGED <<aSubjects, aLinks, aFaces, aLinked, aMerged>>
    PROVE  /\ \A p \in Requests : Relies(aRequests'[p], aSubjects', aLinks')
           /\ aRequests' \in [Requests -> AllRequests]
           /\ Admin!PrincipalsUnique' /\ LinksUnique' /\ Admin!MergeCompletes'
<1> USE DEF AdministrationInv
<1>1. aRequests'[q] = r /\ \A p \in Requests \ {q} : aRequests'[p] = aRequests[p]
  BY DEF AdministrationTypes
<1>2. \A p \in Requests : Relies(aRequests'[p], aSubjects', aLinks')
  <2> SUFFICES ASSUME NEW p \in Requests PROVE Relies(aRequests'[p], aSubjects, aLinks)
    OBVIOUS
  <2>1. Relies(aRequests[p], aSubjects, aLinks)
    OBVIOUS
  <2> QED
    BY <1>1, <2>1
<1>3. aRequests' \in [Requests -> AllRequests]
  BY DEF AdministrationTypes
<1>4. Admin!PrincipalsUnique' /\ LinksUnique' /\ Admin!MergeCompletes'
  BY DEF Admin!PrincipalsUnique, Admin!Holders, Admin!Exists, LinksUnique, Admin!MergeCompletes
<1> QED
  BY <1>2, <1>3, <1>4

\* A resolution decides what it will record, from the row and the owners of one moment.
LEMMA DecideGood ==
    ASSUME AdministrationInv, NEW q \in Requests, Admin!Decide(q)
    PROVE  AdministrationInv'
<1>1. aRequests[q].step = "RESOLVE" /\ ~Admin!Resolving(q)
  BY DEF Admin!Decide, Admin!At, Admin!Resolving
<1>2. AdministrationTypes
  BY DEF AdministrationInv
<1>0. PICK s \in Subjects : s = Admin!Target(q)
  BY <1>1, <1>2, ResolutionShape
<1> DEFINE changes == Admin!Accepted(aRequests[q], aSubjects[s], aProvenance[s])
           to == IF changes = {} THEN aRequests[q].then ELSE "RECORD"
           r == [aRequests[q] EXCEPT !.step = to, !.changes = changes, !.todo = changes]
<1>3. aRequests[q] \in ResolutionRequests
  BY <1>1, <1>2, ResolutionShape
<1>4. changes \subseteq Admin!Claims
  BY DEF Admin!Accepted
<1>5. aRequests' = [aRequests EXCEPT ![q] = r]
  BY <1>0 DEF Admin!Decide, Admin!Recorded
<1>6. UNCHANGED <<Admin!rows, aLinked, aMerged, aWriters>> /\ aDisturbed \subseteq aDisturbed'
  BY DEF Admin!Decide
<1>7. s \notin aDisturbed' =>
        s \notin aDisturbed
            /\ \A p \in Requests \ {q} : ~(Admin!Resolving(p) /\ Admin!Target(p) = s)
  BY <1>0 DEF Admin!Decide
<1> HIDE DEF changes
<1>8. /\ r \in AllRequests /\ r.step = to /\ r.changes = changes /\ r.todo = changes
      /\ r.target = s /\ r.source = aRequests[q].source /\ r.then = aRequests[q].then
      /\ r.account = aRequests[q].account /\ r.loser = aRequests[q].loser
  BY <1>0, <1>3, <1>4 DEF AllRequests, ResolutionRequests, Admin!Target
<1>9. Relies(r, aSubjects, aLinks)
  <2>1. to \notin {"READ", "RELINK", "IDLE", "REASSIGN", "APPLY", "FIND", "CREATE", "REFIND"}
        /\ (to = "RECORD" => changes # {})
    BY <1>3 DEF ResolutionRequests
  <2>2. /\ aSubjects[s] # Admin!Absent
        /\ aRequests[q].then = "LINKED" =>
             [account |-> aRequests[q].account, subject |-> s] \in aLinks
        /\ aRequests[q].then = "DISABLE" =>
             aSubjects[aRequests[q].loser] # Admin!Absent /\ aRequests[q].loser # s
    BY <1>0, <1>1, LinkRelies DEF Admin!Target
  <2> HIDE DEF r, to
  <2> QED
    BY <1>8, <2>1, <2>2 DEF Relies
<1> HIDE DEF r
<1>10. CASE r.step \notin {"RECORD", "APPLY"}
  BY <1>1, <1>5, <1>6, <1>8, <1>9, <1>10, RowsStay
<1>11. CASE r.step = "RECORD"
  <2>1. /\ \A p \in Requests : Relies(aRequests'[p], aSubjects', aLinks')
        /\ aRequests' \in [Requests -> AllRequests]
        /\ Admin!PrincipalsUnique' /\ LinksUnique' /\ Admin!MergeCompletes'
    BY <1>5, <1>6, <1>8, <1>9, SubjectsStay DEF Admin!rows
  <2>2. AdministrationTypes'
    BY <1>2, <1>6, <2>1 DEF AdministrationTypes, Admin!rows
  <2>3. aRequests'[q] = r /\ \A p \in Requests \ {q} : aRequests'[p] = aRequests[p]
    BY <1>2, <1>5 DEF AdministrationTypes
  <2>4. s \notin aDisturbed' => Ahead(s)'
    <3> SUFFICES ASSUME s \notin aDisturbed' PROVE Ahead(s)'
      OBVIOUS
    <3>1. \A p \in Requests : (Admin!Resolving(p) /\ Admin!Target(p) = s)' => p = q
      BY <1>7, <2>3 DEF Admin!Resolving, Admin!Target
    <3>2. ~\E p \in Requests : Admin!Resolving(p) /\ Admin!Target(p) = s
      BY <1>1, <1>7
    <3>3. aProvenance[s] = aWriters[s]
      BY <1>3, <1>7, <3>2 DEF AdministrationInv, Admin!ProvenanceOwned
    <3>4. aRequests'[q].changes \ aRequests'[q].todo = {}
      BY <1>8, <2>3
    <3> QED
      BY <1>6, <3>1, <3>3, <3>4 DEF Ahead, Admin!rows
  <2>5. Owned(s)'
    BY <1>8, <1>11, <2>3 DEF Owned, Admin!Resolving, Admin!Target
  <2>6. \A u \in Subjects \ {s} : (u \notin aDisturbed' => Ahead(u)') /\ Owned(u)'
    BY <1>1, <1>3, <1>5, <1>6, <1>8, OthersOwned DEF Admin!rows
  <2> QED
    BY <2>1, <2>2, <2>4, <2>5, <2>6 DEF AdministrationInv, Admin!ProvenanceOwned, Owned
<1> QED
  BY <1>3, <1>8, <1>10, <1>11 DEF ResolutionRequests
\* A claim's new owner is recorded before its value is written.
LEMMA RecordGood ==
    ASSUME AdministrationInv, NEW q \in Requests, Admin!Record(q)
    PROVE  AdministrationInv'
<1>1. aRequests[q].step = "RECORD" /\ Admin!Resolving(q)
  BY DEF Admin!Record, Admin!At, Admin!Resolving
<1>2. AdministrationTypes
  BY DEF AdministrationInv
<1>3. /\ aRequests[q] \in ResolutionRequests /\ aRequests[q].todo # {}
      /\ aRequests[q].todo \subseteq aRequests[q].changes
      /\ aRequests[q].changes \subseteq Admin!Claims
      /\ aRequests[q].source \in Sources
  BY <1>1, <1>2, ResolutionShape, LinkRelies
<1>4. PICK s \in Subjects : s = Admin!Target(q)
  BY <1>1, <1>2, ResolutionShape
<1>5. PICK c \in Admin!Claims : c \in aRequests[q].todo
                          /\ c = IF "email" \in aRequests[q].todo THEN "email" ELSE "verified"
  BY <1>3 DEF Admin!Claims
<1>6. PICK todo \in SUBSET Admin!Claims : todo = aRequests[q].todo \ {c}
  BY <1>3
<1>7. PICK to \in {"APPLY", "RECORD"} :
        /\ to = IF aRequests[q].todo = {c} THEN "APPLY" ELSE "RECORD"
        /\ to = "RECORD" => todo # {}
        /\ to = "APPLY" => todo = {}
  BY <1>5, <1>6
<1> DEFINE r == [aRequests[q] EXCEPT !.todo = todo, !.step = to]
<1>8. aRequests' = [aRequests EXCEPT ![q] = r]
  BY <1>5, <1>6, <1>7 DEF Admin!Record
<1>9. aProvenance' = [aProvenance EXCEPT ![s][c] = aRequests[q].source]
  BY <1>4, <1>5 DEF Admin!Record
<1>10. /\ r \in AllRequests /\ r.step = to /\ r.changes = aRequests[q].changes /\ r.todo = todo
       /\ r.target = s /\ r.source = aRequests[q].source /\ r.then = aRequests[q].then
       /\ r.account = aRequests[q].account /\ r.loser = aRequests[q].loser
  BY <1>3, <1>4 DEF AllRequests, ResolutionRequests, Admin!Target
<1> HIDE DEF r
<1>11. Relies(r, aSubjects, aLinks)
  BY <1>1, <1>3, <1>4, <1>6, <1>7, <1>10, LinkRelies DEF Relies, Admin!Target
<1>12. UNCHANGED <<aSubjects, aLinks, aFaces, aLinked, aMerged, aWriters, aDisturbed>>
  BY DEF Admin!Record
<1>13. /\ \A p \in Requests : Relies(aRequests'[p], aSubjects', aLinks')
       /\ aRequests' \in [Requests -> AllRequests]
       /\ Admin!PrincipalsUnique' /\ LinksUnique' /\ Admin!MergeCompletes'
  BY <1>8, <1>10, <1>11, <1>12, SubjectsStay
<1>14. aProvenance' \in [Subjects -> [Admin!Claims -> Sources]]
  BY <1>2, <1>3, <1>9 DEF AdministrationTypes
<1>15. AdministrationTypes'
  BY <1>2, <1>12, <1>13, <1>14 DEF AdministrationTypes
<1>16. aRequests'[q] = r /\ \A p \in Requests \ {q} : aRequests'[p] = aRequests[p]
  BY <1>2, <1>8 DEF AdministrationTypes
<1>17. /\ aProvenance'[s][c] = aRequests[q].source
       /\ \A d \in Admin!Claims \ {c} : aProvenance'[s][d] = aProvenance[s][d]
       /\ \A u \in Subjects \ {s} : aProvenance'[u] = aProvenance[u]
  BY <1>2, <1>9 DEF AdministrationTypes
<1>18. s \notin aDisturbed' => Ahead(s)'
  <2> SUFFICES ASSUME s \notin aDisturbed PROVE Ahead(s)'
    BY <1>12
  <2>1. \A p \in Requests : Admin!Resolving(p) /\ Admin!Target(p) = s => p = q
    BY <1>1, <1>4, OneResolves
  <2>2. \A d \in Admin!Claims :
            aProvenance[s][d] = IF d \in aRequests[q].changes \ aRequests[q].todo
                                             THEN aRequests[q].source ELSE aWriters[s][d]
    BY <1>1, <1>4, OneResolves
  <2>3. \A p \in Requests : (Admin!Resolving(p) /\ Admin!Target(p) = s)' => p = q
    BY <2>1, <1>16 DEF Admin!Resolving, Admin!Target
  <2>4. \A d \in Admin!Claims : aProvenance'[s][d] = IF d \in r.changes \ r.todo
                                              THEN r.source ELSE aWriters[s][d]
    BY <2>2, <1>3, <1>5, <1>6, <1>10, <1>17
  <2> QED
    BY <2>3, <2>4, <1>12, <1>16 DEF Ahead
<1>19. Owned(s)'
  BY <1>7, <1>10, <1>16 DEF Owned, Admin!Resolving, Admin!Target
<1>20. \A u \in Subjects \ {s} : (u \notin aDisturbed' => Ahead(u)') /\ Owned(u)'
  BY <1>4, <1>8, <1>10, <1>12, <1>17, OthersOwned
<1> QED
  BY <1>13, <1>15, <1>18, <1>19, <1>20 DEF AdministrationInv, Admin!ProvenanceOwned, Owned

\* Requests rely on rows that exist and losers that are disabled, and both stay.
LEMMA RowsMoved ==
    ASSUME AdministrationInv, aSubjects' \in [Subjects -> Rows \cup {Admin!Absent}],
           \A u \in Subjects : /\ aSubjects[u] # Admin!Absent => aSubjects'[u] # Admin!Absent
                               /\ aSubjects[u].status = "DISABLED" =>
                                    aSubjects'[u].status = "DISABLED"
    PROVE  /\ \A p \in Requests : Relies(aRequests[p], aSubjects', aLinks)
           /\ UNCHANGED <<aFaces, aMerged>> => Admin!MergeCompletes'
<1> USE DEF AdministrationInv
<1>1. ASSUME NEW p \in Requests PROVE Relies(aRequests[p], aSubjects', aLinks)
  <2>1. Relies(aRequests[p], aSubjects, aLinks)
    OBVIOUS
  <2>2. CASE aRequests[p].step \in {"READ", "RELINK"}
    BY <2>1, <2>2, OtherShape DEF Relies, Admin!Target
  <2>3. CASE aRequests[p].step = "IDLE"
    BY <2>3 DEF Relies
  <2>4. CASE aRequests[p].step \notin {"READ", "RELINK", "IDLE"}
    <3>1. /\ aRequests[p].target \in Subjects
          /\ aRequests[p].then = "DISABLE" => aRequests[p].loser \in Subjects
          /\ aRequests[p].step = "REASSIGN" => aRequests[p].then = "DISABLE"
      BY <2>4, ResolutionShape DEF Admin!Target, Linking
    <3>2. /\ aSubjects'[aRequests[p].target] # Admin!Absent
          /\ aRequests[p].then = "DISABLE" =>
                aSubjects'[aRequests[p].loser] # Admin!Absent
                    /\ aRequests[p].loser # aRequests[p].target
          /\ aRequests[p].step = "REASSIGN" => aSubjects'[aRequests[p].loser].status = "DISABLED"
      BY <2>4, <3>1, LinkRelies
    <3> QED
      BY <2>4, <3>2, LinkRelies DEF Relies
  <2> QED
    BY <2>2, <2>3, <2>4
<1>2. ASSUME UNCHANGED <<aFaces, aMerged>> PROVE Admin!MergeCompletes'
  <2>1. \A m \in aMerged : m.loser \in Subjects
    BY DEF AdministrationTypes
  <2> QED
    BY <1>2, <2>1 DEF Admin!MergeCompletes
<1> QED
  BY <1>1, <1>2

\* The row has its new values, and each is its writer's.
LEMMA ApplyGood ==
    ASSUME AdministrationInv, NEW q \in Requests, Admin!Apply(q)
    PROVE  AdministrationInv'
<1>1. aRequests[q].step = "APPLY" /\ Admin!Resolving(q)
  BY DEF Admin!Apply, Admin!At, Admin!Resolving
<1>2. AdministrationTypes
  BY DEF AdministrationInv
<1>3. /\ aRequests[q] \in ResolutionRequests /\ aRequests[q].todo = {}
      /\ aRequests[q].source \in Sources
  BY <1>1, <1>2, ResolutionShape, LinkRelies
<1>4. PICK s \in Subjects : s = Admin!Target(q)
  BY <1>1, <1>2, ResolutionShape
<1>5. aSubjects[s] \in Rows
  BY <1>1, <1>2, <1>4, LinkRelies DEF AdministrationTypes, Admin!Target
<1>6. aSubjects[s].email \in Known /\ aSubjects[s].verified \in Truths
  BY <1>5 DEF Rows
<1>7. PICK e \in Known, v \in Truths :
        /\ e = IF "email" \in aRequests[q].changes THEN aRequests[q].suggested["email"]
               ELSE aSubjects[s].email
        /\ v = IF "verified" \in aRequests[q].changes THEN aRequests[q].suggested["verified"]
               ELSE aSubjects[s].verified
  <2>1. aRequests[q].suggested \in [email : Known, verified : Truths]
    BY <1>3 DEF ResolutionRequests
  <2> QED
    BY <2>1, <1>6
<1> DEFINE row == [aSubjects[s] EXCEPT !.email = e, !.verified = v]
           r == [aRequests[q] EXCEPT !.step = aRequests[q].then]
<1>8. aSubjects' = [aSubjects EXCEPT ![s] = row]
  <2>1. [aSubjects EXCEPT ![s].email = e][s].verified = aSubjects[s].verified
    BY <1>2, <1>5 DEF AdministrationTypes, Rows
  <2>2. aSubjects' = [aSubjects EXCEPT ![s].email = e, ![s].verified = v]
    BY <1>4, <1>7, <2>1 DEF Admin!Apply
  <2>3. aSubjects \in [Subjects -> Rows \cup {Admin!Absent}]
    BY <1>2 DEF AdministrationTypes
  <2> QED
    BY <2>2, <2>3
<1>9. aRequests' = [aRequests EXCEPT ![q] = r]
  BY DEF Admin!Apply, Admin!Goto
<1>10. /\ r \in AllRequests /\ r.step = aRequests[q].then /\ r.changes = aRequests[q].changes
       /\ r.todo = {} /\ r.target = s /\ r.then = aRequests[q].then
       /\ r.account = aRequests[q].account /\ r.loser = aRequests[q].loser
       /\ r.step \in {"LINKED", "DISABLE"}
  BY <1>3, <1>4 DEF AllRequests, ResolutionRequests, Admin!Target
<1>11. /\ row \in Rows /\ row # Admin!Absent /\ row.status = aSubjects[s].status
       /\ row.principal = aSubjects[s].principal
  BY <1>5 DEF Rows, Admin!Absent
<1> HIDE DEF r, row
<1>12. /\ aSubjects' \in [Subjects -> Rows \cup {Admin!Absent}]
       /\ \A u \in Subjects :
            /\ aSubjects[u] # Admin!Absent => aSubjects'[u] # Admin!Absent
            /\ aSubjects[u].status = "DISABLED" => aSubjects'[u].status = "DISABLED"
            /\ Admin!Exists(u)' <=> Admin!Exists(u)
            /\ Admin!Exists(u) => aSubjects'[u].principal = aSubjects[u].principal
  BY <1>2, <1>5, <1>8, <1>11 DEF AdministrationTypes, Admin!Exists, Rows, Admin!Absent
<1>13. UNCHANGED <<aProvenance, aLinks, aFaces, aLinked, aMerged, aDisturbed>>
  BY DEF Admin!Apply
<1>14. aRequests'[q] = r /\ \A p \in Requests \ {q} : aRequests'[p] = aRequests[p]
  BY <1>2, <1>9 DEF AdministrationTypes
<1>15. Relies(r, aSubjects', aLinks)
  <2>1. Relies(aRequests[q], aSubjects', aLinks)
    BY <1>12, RowsMoved
  <2> QED
    BY <1>1, <1>10, <1>4, <2>1 DEF Relies, Admin!Target
<1>16. \A p \in Requests : Relies(aRequests'[p], aSubjects', aLinks')
  BY <1>12, <1>13, <1>14, <1>15, RowsMoved
<1>17. Admin!MergeCompletes' /\ LinksUnique'
  BY <1>12, <1>13, RowsMoved DEF AdministrationInv, LinksUnique
<1>18. Admin!PrincipalsUnique'
  BY <1>12 DEF AdministrationInv, Admin!PrincipalsUnique, Admin!Holders
<1>19. aWriters' = [aWriters EXCEPT ![s] =
            [c \in Admin!Claims |-> IF c \in aRequests[q].changes
                              THEN aRequests[q].source ELSE aWriters[s][c]]]
  BY <1>2, <1>4 DEF Admin!Apply, AdministrationTypes
<1>20. aWriters' \in [Subjects -> [Admin!Claims -> Sources]]
       /\ \A u \in Subjects \ {s} : aWriters'[u] = aWriters[u]
  BY <1>2, <1>3, <1>19 DEF AdministrationTypes
<1>21. aRequests' \in [Requests -> AllRequests]
  BY <1>2, <1>9, <1>10 DEF AdministrationTypes
<1>22. AdministrationTypes'
  BY <1>2, <1>12, <1>13, <1>20, <1>21 DEF AdministrationTypes
<1>23. ASSUME s \notin aDisturbed PROVE Ahead(s)' /\ Owned(s)'
  <2>1. \A p \in Requests : Admin!Resolving(p) /\ Admin!Target(p) = s => p = q
    BY <1>1, <1>4, <1>23, OneResolves
  <2>2. \A c \in Admin!Claims : aProvenance[s][c] = IF c \in aRequests[q].changes
                                             THEN aRequests[q].source ELSE aWriters[s][c]
    BY <1>1, <1>3, <1>4, <1>23, OneResolves
  <2>3. \A p \in Requests : ~(Admin!Resolving(p) /\ Admin!Target(p) = s)'
    BY <2>1, <1>10, <1>14 DEF Admin!Resolving, Admin!Target
  <2>4. aProvenance[s] = aWriters'[s]
    <3>1. aWriters'[s] = [c \in Admin!Claims |-> IF c \in aRequests[q].changes
                              THEN aRequests[q].source ELSE aWriters[s][c]]
      BY <1>2, <1>19 DEF AdministrationTypes
    <3>2. aProvenance[s] = [c \in Admin!Claims |-> aProvenance[s][c]]
      BY <1>2 DEF AdministrationTypes
    <3> QED
      BY <2>2, <3>1, <3>2
  <2> QED
    BY <2>3, <2>4, <1>13 DEF Ahead, Owned
<1>24. (s \notin aDisturbed' => Ahead(s)') /\ Owned(s)'
  BY <1>13, <1>23 DEF Owned
<1>25. \A u \in Subjects \ {s} : (u \notin aDisturbed' => Ahead(u)') /\ Owned(u)'
  BY <1>4, <1>9, <1>10, <1>13, <1>20, OthersOwned
<1> QED
  BY <1>16, <1>17, <1>18, <1>22, <1>24, <1>25 DEF AdministrationInv, Admin!ProvenanceOwned,
     Owned
\* A row gets a status or a principal, or a new row is written, outside of any resolution;
\* no two rows come to hold one principal.
LEMMA RowWritten ==
    ASSUME AdministrationInv, NEW s \in Subjects, NEW row \in Rows,
           aSubjects' = [aSubjects EXCEPT ![s] = row],
           aSubjects[s].status = "DISABLED" => row.status = "DISABLED",
           \A t \in Subjects : aSubjects[t] # Admin!Absent
               /\ aSubjects[t].principal = row.principal =>
                t = s,
           UNCHANGED <<aProvenance, aLinks, aFaces, aLinked, aMerged, aWriters>>,
           aDisturbed \subseteq aDisturbed',
           \/ UNCHANGED aRequests
           \/ \E q \in Requests, r \in AllRequests :
                /\ aRequests' = [aRequests EXCEPT ![q] = r] /\ ~Admin!Resolving(q)
                /\ r.step \notin {"RECORD", "APPLY"} /\ Relies(r, aSubjects', aLinks)
    PROVE  AdministrationInv'
<1>1. AdministrationTypes
  BY DEF AdministrationInv
<1>2. row # Admin!Absent
  BY DEF Rows, Admin!Absent
<1>3. /\ aSubjects' \in [Subjects -> Rows \cup {Admin!Absent}]
      /\ aSubjects'[s] = row /\ \A t \in Subjects \ {s} : aSubjects'[t] = aSubjects[t]
  BY <1>1 DEF AdministrationTypes
<1>4. \A u \in Subjects : /\ aSubjects[u] # Admin!Absent => aSubjects'[u] # Admin!Absent
                          /\ aSubjects[u].status = "DISABLED" =>
                               aSubjects'[u].status = "DISABLED"
  BY <1>2, <1>3
<1>5. /\ aRequests' \in [Requests -> AllRequests]
      /\ \A p \in Requests :
            /\ \/ aRequests'[p] = aRequests[p]
               \/ Relies(aRequests'[p], aSubjects', aLinks)
            /\ Admin!Resolving(p)' <=> Admin!Resolving(p)
            /\ Admin!Resolving(p) => aRequests'[p] = aRequests[p]
  BY <1>1 DEF AdministrationTypes, Admin!Resolving
<1>6. \A p \in Requests : Relies(aRequests'[p], aSubjects', aLinks')
  BY <1>3, <1>4, <1>5, RowsMoved
<1>7. AdministrationTypes'
  BY <1>1, <1>3, <1>5 DEF AdministrationTypes
<1>8. Admin!MergeCompletes' /\ LinksUnique'
  BY <1>3, <1>4, RowsMoved DEF AdministrationInv, LinksUnique
<1>9. Admin!PrincipalsUnique'
  BY <1>3 DEF AdministrationInv, Admin!PrincipalsUnique, Admin!Holders, Admin!Exists
<1>10. (\A u \in Subjects \ aDisturbed : Ahead(u))' /\ Admin!ProvenanceOwned'
  BY <1>5 DEF AdministrationInv, Ahead, Admin!ProvenanceOwned, Admin!Target
<1> QED
  BY <1>6, <1>7, <1>8, <1>9, <1>10 DEF AdministrationInv

\* The merged subject is disabled.
LEMMA DisableGood ==
    ASSUME AdministrationInv, NEW q \in Requests, Admin!Disable(q)
    PROVE  AdministrationInv'
<1>1. aRequests[q].step = "DISABLE" /\ ~Admin!Resolving(q)
  BY DEF Admin!Disable, Admin!At, Admin!Resolving
<1>2. AdministrationTypes
  BY DEF AdministrationInv
<1>3. /\ aRequests[q] \in ResolutionRequests /\ aRequests[q].then = "DISABLE"
      /\ aRequests[q].target \in Subjects /\ aRequests[q].loser \in Subjects
  BY <1>1, <1>2, ResolutionShape DEF Linking, Admin!Target
<1>4. PICK s \in Subjects : s = aRequests[q].loser
  BY <1>3
<1>5. aSubjects[s] \in Rows
  BY <1>1, <1>2, <1>3, <1>4, LinkRelies DEF AdministrationTypes
<1>6. PICK row \in Rows : row = [aSubjects[s] EXCEPT !.status = "DISABLED"]
  BY <1>5 DEF Rows
<1>7. row.status = "DISABLED" /\ row.principal = aSubjects[s].principal
      /\ row.principal \in Principals
  BY <1>5, <1>6 DEF Rows
<1>8. aSubjects' = [aSubjects EXCEPT ![s] = row]
  BY <1>4, <1>6 DEF Admin!Disable
<1>9. PICK r \in AllRequests : r = [aRequests[q] EXCEPT !.step = "REASSIGN"]
  BY <1>3, Stepped DEF AllRequests, Moving
<1>10. /\ r.step = "REASSIGN" /\ r.then = "DISABLE" /\ r.target = aRequests[q].target
       /\ r.loser = s /\ r.todo = aRequests[q].todo /\ r.changes = aRequests[q].changes
  BY <1>3, <1>4, <1>9, Stepped DEF Moving
<1>11. /\ aRequests[q].target # s /\ aSubjects[aRequests[q].target] # Admin!Absent
       /\ aRequests[q].todo \subseteq aRequests[q].changes
  BY <1>1, <1>3, <1>4, LinkRelies
<1>12. /\ aSubjects'[s] = row /\ row # Admin!Absent
       /\ aSubjects'[aRequests[q].target] = aSubjects[aRequests[q].target]
  BY <1>2, <1>3, <1>8, <1>11 DEF AdministrationTypes, Rows, Admin!Absent
<1>13. Relies(r, aSubjects', aLinks)
  BY <1>7, <1>10, <1>11, <1>12 DEF Relies
<1>14. \A t \in Subjects : aSubjects[t] # Admin!Absent
           /\ aSubjects[t].principal = row.principal => t = s
  <2>1. s \in Admin!Holders(row.principal)
    BY <1>5, <1>7 DEF Admin!Holders, Admin!Exists, Rows, Admin!Absent
  <2> QED
    BY <1>7, <2>1 DEF AdministrationInv, Admin!PrincipalsUnique, Admin!Holders, Admin!Exists
<1>15. aRequests' = [aRequests EXCEPT ![q] = r]
  BY <1>9 DEF Admin!Disable, Admin!Goto
<1>16. /\ UNCHANGED <<aProvenance, aLinks, aFaces, aLinked, aMerged, aWriters>>
       /\ aDisturbed \subseteq aDisturbed'
  BY DEF Admin!Disable
<1> QED
  BY <1>1, <1>7, <1>8, <1>10, <1>13, <1>14, <1>15, <1>16, RowWritten

\* The faces of a disabled subject move to another one, all at once.
LEMMA ReassignGood ==
    ASSUME AdministrationInv, NEW q \in Requests, Admin!Reassign(q)
    PROVE  AdministrationInv'
<1>1. aRequests[q].step = "REASSIGN" /\ ~Admin!Resolving(q)
  BY DEF Admin!Reassign, Admin!At, Admin!Resolving
<1>2. AdministrationTypes
  BY DEF AdministrationInv
<1>3. /\ aRequests[q].then = "DISABLE"
      /\ aRequests[q].target \in Subjects /\ aRequests[q].loser \in Subjects
  BY <1>1, <1>2, ResolutionShape DEF Linking, Admin!Target
<1>4. PICK s \in Subjects, t \in Subjects : s = aRequests[q].target /\ t = aRequests[q].loser
  BY <1>3
<1>5. s # t /\ aSubjects[t].status = "DISABLED"
  BY <1>1, <1>3, <1>4, LinkRelies
<1>6. Admin!Idle \in AllRequests /\ Admin!Idle.step = "IDLE"
          /\ Relies(Admin!Idle, aSubjects, aLinks)
  BY DEF AllRequests, Admin!Idle, Relies
<1>7. aRequests' = [aRequests EXCEPT ![q] = Admin!Idle]
      /\ UNCHANGED <<aSubjects, aProvenance, aLinks, aLinked, aWriters, aDisturbed>>
  BY DEF Admin!Reassign, Admin!Answer
<1>8. CASE UNCHANGED <<aFaces, aMerged>>
  BY <1>1, <1>6, <1>7, <1>8, RowsStay DEF Admin!rows
<1>9. CASE /\ aFaces' = Admin!Reassigned(s, t)
           /\ aMerged' = aMerged \cup {[survivor |-> s, loser |-> t]}
  <2>1. /\ aFaces' \in [Faces -> Subjects]
        /\ \A f \in Faces : aFaces'[f] = IF aFaces[f] = t THEN s ELSE aFaces[f]
    BY <1>2, <1>9 DEF Admin!Reassigned, AdministrationTypes
  <2>2. aRequests'[q] = Admin!Idle /\ \A p \in Requests \ {q} : aRequests'[p] = aRequests[p]
    BY <1>2, <1>7 DEF AdministrationTypes
  <2>3. AdministrationTypes'
    BY <1>2, <1>6, <1>7, <1>9, <2>1 DEF AdministrationTypes
  <2>4. \A p \in Requests : Relies(aRequests'[p], aSubjects', aLinks')
    <3> SUFFICES ASSUME NEW p \in Requests PROVE Relies(aRequests'[p], aSubjects, aLinks)
      BY <1>7
    <3>1. Relies(aRequests[p], aSubjects, aLinks)
      BY DEF AdministrationInv
    <3> QED
      BY <1>6, <2>2, <3>1
  <2>5. Admin!MergeCompletes'
    <3> SUFFICES ASSUME NEW m \in aMerged',
                        \E f \in Faces : aFaces'[f] = m.loser
                 PROVE  /\ aSubjects[m.loser].status = "DISABLED"
                        /\ \E n \in aMerged' : n.survivor = m.loser
      <4>1. Admin!MergeCompletes /\ \A m \in aMerged : aSubjects[m.loser].status = "DISABLED"
        BY DEF AdministrationInv, Admin!MergeCompletes
      <4> QED
        BY <4>1, <1>5, <1>7, <1>9 DEF Admin!MergeCompletes
    <3>1. [survivor |-> s, loser |-> t] \in aMerged'
      BY <1>9
    <3>2. CASE m.loser = s /\ m \in aMerged
      BY <3>1, <3>2 DEF AdministrationInv, Admin!MergeCompletes
    <3>3. CASE m.loser # s /\ m \in aMerged
      <4>1. \E f \in Faces : aFaces[f] = m.loser
        BY <2>1, <3>3
      <4> QED
        BY <3>3, <4>1, <1>9 DEF AdministrationInv, Admin!MergeCompletes
    <3>4. CASE m = [survivor |-> s, loser |-> t]
      BY <2>1, <3>4, <1>5
    <3> QED
      BY <3>2, <3>3, <3>4, <1>9
  <2>6. LinksUnique' /\ Admin!PrincipalsUnique'
    BY <1>7 DEF AdministrationInv, LinksUnique, Admin!PrincipalsUnique, Admin!Holders,
       Admin!Exists
  <2>7. \A p \in Requests : /\ Admin!Resolving(p)' <=> Admin!Resolving(p)
                            /\ Admin!Resolving(p) => aRequests'[p] = aRequests[p]
    BY <1>1, <1>6, <2>2 DEF Admin!Resolving
  <2>8. (\A u \in Subjects \ aDisturbed : Ahead(u))' /\ Admin!ProvenanceOwned'
    BY <1>7, <2>7 DEF AdministrationInv, Ahead, Admin!ProvenanceOwned, Admin!Target
  <2> QED
    BY <2>3, <2>4, <2>5, <2>6, <2>8 DEF AdministrationInv
<1> QED
  BY <1>4, <1>8, <1>9 DEF Admin!Reassign, Admin!Target

\* A recovery gives a subject a principal that nobody else holds.
LEMMA RelinkGood ==
    ASSUME AdministrationInv, NEW q \in Requests, Admin!Relink(q)
    PROVE  AdministrationInv'
<1>1. aRequests[q].step = "RELINK" /\ ~Admin!Resolving(q)
  BY DEF Admin!Relink, Admin!At, Admin!Resolving
<1>2. PICK s \in Subjects, p \in Principals :
        s = Admin!Target(q) /\ p = aRequests[q].principal /\ aSubjects[s] # Admin!Absent
  BY <1>1, OtherShape
<1>3. Admin!Idle \in AllRequests /\ Admin!Idle.step = "IDLE"
          /\ Relies(Admin!Idle, aSubjects, aLinks)
      /\ Relies(Admin!Idle, aSubjects', aLinks)
  BY DEF AllRequests, Admin!Idle, Relies
<1>4. aRequests' = [aRequests EXCEPT ![q] = Admin!Idle]
      /\ UNCHANGED <<aProvenance, aLinks, aFaces, aLinked, aMerged, aWriters, aDisturbed>>
  BY DEF Admin!Relink, Admin!Answer
<1>5. CASE aSubjects' = aSubjects
  BY <1>1, <1>3, <1>4, <1>5, RowsStay DEF Admin!rows
<1>6. CASE Admin!Relinkable(s, p) /\ aSubjects' = [aSubjects EXCEPT ![s].principal = p]
  <2>1. aSubjects[s] \in Rows
    BY <1>2 DEF AdministrationInv, AdministrationTypes
  <2>2. PICK row \in Rows : row = [aSubjects[s] EXCEPT !.principal = p]
    BY <2>1 DEF Rows
  <2>3. row.status = aSubjects[s].status /\ row.principal = p
    BY <2>1, <2>2 DEF Rows
  <2>4. aSubjects' = [aSubjects EXCEPT ![s] = row]
    BY <1>6, <2>2
  <2>5. \A t \in Subjects : aSubjects[t] # Admin!Absent
            /\ aSubjects[t].principal = row.principal => t = s
    BY <1>6, <2>3 DEF Admin!Relinkable, Admin!Holders, Admin!Exists
  <2> QED
    BY <1>1, <1>3, <1>4, <2>3, <2>4, <2>5, RowWritten
<1> QED
  BY <1>2, <1>5, <1>6 DEF Admin!Relink

\* A new subject's principal is nobody else's.
LEMMA MintGood ==
    ASSUME AdministrationInv, NEW s \in Subjects, NEW p \in Principals, NEW e \in Emails,
           Admin!Mint(s, p, e)
    PROVE  AdministrationInv'
<1> DEFINE row == [status |-> "ACTIVE", email |-> e, verified |-> "none", principal |-> p]
<1>1. row \in Rows /\ row.principal = p
  BY DEF Rows, Known, Truths
<1>2. \A t \in Subjects : aSubjects[t] # Admin!Absent
          /\ aSubjects[t].principal = row.principal => t = s
  BY <1>1 DEF Admin!Mint, Admin!Holders, Admin!Exists
<1>3. aSubjects[s].status # "DISABLED"
  BY DEF Admin!Mint, Admin!Exists, Admin!Absent
<1>4. aSubjects' = [aSubjects EXCEPT ![s] = row]
      /\ UNCHANGED <<aRequests, aProvenance, aLinks, aFaces, aLinked, aMerged, aWriters,
             aDisturbed>>
  BY DEF Admin!Mint
<1> HIDE DEF row
<1> QED
  BY <1>1, <1>2, <1>3, <1>4, RowWritten

\* A resolution that dies leaves its subject's claims in doubt, and says so.
LEMMA CrashGood ==
    ASSUME AdministrationInv, NEW q \in Requests, Admin!Crash(q)
    PROVE  AdministrationInv'
<1>1. Admin!Idle \in AllRequests /\ Admin!Idle.step = "IDLE"
          /\ Relies(Admin!Idle, aSubjects, aLinks)
  BY DEF AllRequests, Admin!Idle, Relies
<1>2. aRequests' = [aRequests EXCEPT ![q] = Admin!Idle]
          /\ UNCHANGED <<Admin!rows, aLinked, aMerged, aWriters>>
      /\ aDisturbed \subseteq aDisturbed'
  BY DEF Admin!Crash, Admin!Answer
<1>3. CASE ~Admin!Resolving(q)
  BY <1>1, <1>2, <1>3, RowsStay
<1>4. CASE Admin!Resolving(q)
  <2>1. AdministrationTypes
    BY DEF AdministrationInv
  <2>2. PICK s \in Subjects : s = Admin!Target(q)
    BY <1>4, <2>1, ResolutionShape DEF Admin!Resolving
  <2>3. s \in aDisturbed'
    BY <1>4, <2>2 DEF Admin!Crash
  <2>4. /\ \A p \in Requests : Relies(aRequests'[p], aSubjects', aLinks')
        /\ aRequests' \in [Requests -> AllRequests]
        /\ Admin!PrincipalsUnique' /\ LinksUnique' /\ Admin!MergeCompletes'
    BY <1>1, <1>2, SubjectsStay DEF Admin!rows
  <2>5. AdministrationTypes'
    BY <2>1, <1>2, <2>4 DEF AdministrationTypes, Admin!rows
  <2>6. \A u \in Subjects \ {s} : (u \notin aDisturbed' => Ahead(u)') /\ Owned(u)'
    BY <1>1, <1>2, <2>2, OthersOwned DEF Admin!rows
  <2> QED
    BY <2>3, <2>4, <2>5, <2>6 DEF AdministrationInv, Admin!ProvenanceOwned, Owned
<1> QED
  BY <1>3, <1>4

\* Every step of the administration.
LEMMA AdministrationStep == AdministrationInv /\ [Admin!Next]_Admin!vars => AdministrationInv'
<1> SUFFICES ASSUME AdministrationInv, [Admin!Next]_Admin!vars PROVE AdministrationInv'
  OBVIOUS
<1>1. ASSUME NEW q \in Requests,
             \/ \E a \in Accounts, s \in Subjects, c \in Suggestions : Admin!BeginLink(q, a, s, c)
             \/ Admin!Find(q) \/ Admin!Create(q) \/ Admin!Refind(q) \/ Admin!Linked(q)
      PROVE  AdministrationInv'
  BY <1>1, LinksGood
<1>2. ASSUME NEW q \in Requests,
             \/ \E s, t \in Subjects : Admin!BeginMerge(q, s, t)
             \/ \E s \in Subjects, p \in Principals : Admin!BeginRecovery(q, s, p)
      PROVE  AdministrationInv'
  BY <1>2, BeginningsGood
<1>3. ASSUME NEW q \in Requests, Admin!Decide(q) \/ Admin!Record(q) \/ Admin!Apply(q)
      PROVE  AdministrationInv'
  BY <1>3, DecideGood, RecordGood, ApplyGood
<1>4. ASSUME NEW q \in Requests,
             Admin!Read(q) \/ Admin!Reconcile(q) \/ Admin!Disable(q) \/ Admin!Reassign(q)
      PROVE  AdministrationInv'
  BY <1>4, ReadGood, ReconcileGood, DisableGood, ReassignGood
<1>5. ASSUME NEW q \in Requests, Admin!Relink(q) \/ Admin!Crash(q) PROVE AdministrationInv'
  BY <1>5, RelinkGood, CrashGood
<1>6. ASSUME NEW s \in Subjects, NEW p \in Principals, NEW e \in Emails, Admin!Mint(s, p, e)
      PROVE  AdministrationInv'
  BY <1>6, MintGood
<1>7. CASE UNCHANGED Admin!vars
  BY <1>7 DEF Admin!vars, Admin!rows, AdministrationInv, AdministrationTypes, Relies,
     LinksUnique, Admin!PrincipalsUnique, Admin!Holders, Admin!Exists, Ahead, Admin!Resolving,
     Admin!Target, Admin!ProvenanceOwned, Admin!MergeCompletes
<1> QED
  BY <1>1, <1>2, <1>3, <1>4, <1>5, <1>6, <1>7 DEF Admin!Next

\* The links on record are one to one, and the answered ones are among them.
LEMMA OneToOneOfInv == AdministrationInv => Admin!OneToOne
<1> SUFFICES ASSUME AdministrationInv PROVE Admin!LinkedAsAnswered
  BY DEF Admin!OneToOne, AdministrationInv
<1> QED
  BY DEF AdministrationInv, AdministrationTypes, LinksUnique, Admin!LinkedAsAnswered

-----------------------------------------------------------------------------
(* The signing keys                                                        *)

\* The keys that may be active.
Kids == {"none", "old"} \cup {Ring[i] : i \in DOMAIN Ring}

\* A call that is served, with the key it found or without.
CallShapes ==
    [step : {"IDLE", "LAST", "SEED", "FIRST", "CURRENT", "ACTIVE", "REPLACE"},
     age : 0..MaxStall]
    \cup [step : {"ROTATE", "STAMP"}, age : 0..MaxStall, kid : Kids]

\* What a call that changes keys relies on.
Foreseen(r) ==
    /\ r.step \in {"CURRENT", "ROTATE"} => kRecorded >= Interval + r.age
    /\ r.step = "FIRST" => kActive = "none"
    /\ r.step = "REPLACE" => ~Keys!InRing(kActive)

\* The inductive invariant of the signing keys: while no two calls have crossed and none
\* has died, at most one changes keys, and what it relies on stands.
KeysInv ==
    /\ kRecorded \in 0..Keys!MaxAge /\ kHeld \in 0..Keys!MaxAge
    /\ kActive \in Kids /\ kCalls \in [Calls -> CallShapes]
    /\ ~kCrossed =>
        /\ \A c, d \in Calls : Keys!Changing(c) /\ Keys!Changing(d) => c = d
        /\ \A c \in Calls : Foreseen(kCalls[c])
        /\ (\A c \in Calls : ~Keys!At(c, "STAMP")) => kRecorded =< kHeld + MaxStall

\* Nothing is being changed to begin with.
LEMMA KeysInit == Keys!Init => KeysInv
BY KeysAssumption DEF Keys!Init, KeysInv, Keys!MaxAge, Keys!Idle, CallShapes, Kids, Foreseen,
   Keys!Changing

\* The key after a key is of the ring.
LEMMA NextInRing == \A kid : Keys!NextOf(kid) \in Kids
<1> SUFFICES ASSUME NEW kid PROVE Keys!NextOf(kid) \in Kids
  OBVIOUS
<1> DEFINE found == {i \in DOMAIN Ring : Ring[i] = kid}
           index == IF found = {} THEN 1 ELSE CHOOSE i \in found : TRUE
<1>1. DOMAIN Ring = 1..Len(Ring) /\ Len(Ring) \in Nat \ {0}
  BY KeysAssumption
<1>2. index \in Nat
  <2>1. CASE found = {}
    BY <2>1
  <2>2. CASE found # {}
    <3>1. (CHOOSE i \in found : TRUE) \in found
      BY <2>2
    <3> QED
      BY <1>1, <3>1
  <2> QED
    BY <2>1, <2>2
<1>3. (index % Len(Ring)) + 1 \in DOMAIN Ring
  <2>1. \A n \in Nat, m \in Nat \ {0} : (n % m) + 1 \in 1..m
    OBVIOUS
  <2> HIDE DEF index
  <2> QED
    BY <1>1, <1>2, <2>1
<1> QED
  BY <1>3 DEF Keys!NextOf, Kids

\* The first key is one, too.
LEMMA FirstInRing == Ring[1] \in Kids
BY KeysAssumption DEF Kids

\* The bounds of what is measured.
LEMMA KeysBounds ==
    ASSUME KeysInv, NEW c \in Calls
    PROVE  /\ kCalls[c] \in CallShapes /\ kCalls[c].age \in 0..MaxStall
           /\ MaxStall \in Nat /\ Interval \in Nat /\ Keys!MaxAge = Interval + MaxStall
           /\ kRecorded \in 0..Keys!MaxAge /\ kHeld \in 0..Keys!MaxAge
           /\ Keys!Idle \in CallShapes /\ Keys!Idle.step = "IDLE"
BY KeysAssumption DEF KeysInv, Keys!MaxAge, Keys!Idle, CallShapes

\* A step of a call c, which goes on as r.  When it changes keys, no other call does.
LEMMA KeysMoves ==
    ASSUME KeysInv, NEW c \in Calls, NEW r \in CallShapes, kCalls' = [kCalls EXCEPT ![c] = r],
           kCrossed' = (kCrossed \/ Keys!Crossing), kActive' \in Kids,
           kRecorded' \in 0..Keys!MaxAge, kHeld' \in 0..Keys!MaxAge,
           UNCHANGED <<kActive, kRecorded>> \/ Keys!Changing(c),
           ~kCrossed /\ Foreseen(kCalls[c]) => Foreseen(r)',
           ~kCrossed /\ r.step # "STAMP" /\ (\A d \in Calls : Keys!At(d, "STAMP") => d = c)
                /\ (Keys!At(c, "STAMP") => r.step # "IDLE") /\ Foreseen(kCalls[c])
                /\ (~Keys!At(c, "STAMP") => kRecorded =< kHeld + MaxStall)
             => kRecorded' =< kHeld' + MaxStall
    PROVE  KeysInv'
<1>1. kCalls'[c] = r /\ \A d \in Calls \ {c} : kCalls'[d] = kCalls[d]
  BY DEF KeysInv
<1>2. kCalls' \in [Calls -> CallShapes]
  BY DEF KeysInv
<1>3. ASSUME ~kCrossed'
      PROVE  /\ ~kCrossed
             /\ \A d, e \in Calls : Keys!Changing(d)' /\ Keys!Changing(e)' => d = e
             /\ \A d \in Calls : Keys!At(d, "STAMP") => ~Keys!At(d, "IDLE")'
             /\ \A d, e \in Calls : Keys!Changing(d) /\ Keys!Changing(e) => d = e
             /\ \A d \in Calls : Foreseen(kCalls[d])
             /\ (\A d \in Calls : ~Keys!At(d, "STAMP")) => kRecorded =< kHeld + MaxStall
  BY <1>3 DEF KeysInv, Keys!Crossing
<1>4. ASSUME ~kCrossed', NEW d \in Calls PROVE Foreseen(kCalls[d])'
  <2>1. CASE d = c
    BY <1>1, <1>3, <1>4, <2>1 DEF Foreseen
  <2>2. CASE d # c /\ UNCHANGED <<kActive, kRecorded>>
    BY <1>1, <1>3, <1>4, <2>2 DEF Foreseen, Keys!InRing
  <2>3. CASE d # c /\ Keys!Changing(c)
    BY <1>1, <1>3, <1>4, <2>3 DEF Foreseen, Keys!Changing
  <2> QED
    BY <2>1, <2>2, <2>3
<1>5. ASSUME ~kCrossed', \A d \in Calls : ~Keys!At(d, "STAMP")'
      PROVE  kRecorded' =< kHeld' + MaxStall
  <2>1. \A d \in Calls : Keys!At(d, "STAMP") => d = c
    BY <1>1, <1>5 DEF Keys!At
  <2>2. r.step # "STAMP" /\ (Keys!At(c, "STAMP") => r.step # "IDLE")
    BY <1>1, <1>3, <1>5 DEF Keys!At
  <2> QED
    BY <1>3, <1>5, <2>1, <2>2
<1> QED
  BY <1>2, <1>3, <1>4, <1>5 DEF KeysInv

\* A call that reads, answers or dies.
LEMMA KeysReads ==
    ASSUME KeysInv, NEW c \in Calls, kCrossed' = (kCrossed \/ Keys!Crossing),
           Keys!Begin(c) \/ Keys!Last(c) \/ Keys!Seed(c) \/ Keys!Active(c) \/ Keys!Crash(c)
    PROVE  KeysInv'
<1>1. UNCHANGED <<kActive, kRecorded, kHeld>>
  BY DEF Keys!Begin, Keys!Last, Keys!Seed, Keys!Active, Keys!Crash
<1>2. PICK r \in CallShapes :
               /\ kCalls' = [kCalls EXCEPT ![c] = r] /\ r.step # "STAMP"
               /\ r.step = "CURRENT" => kRecorded >= Interval + r.age
               /\ r.step = "FIRST" => kActive = "none"
               /\ r.step = "REPLACE" => ~Keys!InRing(kActive)
               /\ r.step # "ROTATE"
               /\ Keys!At(c, "STAMP") => r.step = "IDLE"
  <2>1. ASSUME NEW to \in {"LAST", "SEED", "FIRST", "CURRENT", "ACTIVE", "REPLACE"},
               Keys!Goto(c, to),
               ~Keys!At(c, "STAMP"), ~Keys!At(c, "ROTATE"),
               to = "CURRENT" => kRecorded >= Interval + kCalls[c].age,
               to = "FIRST" => kActive = "none", to = "REPLACE" => ~Keys!InRing(kActive)
        PROVE  \E r \in CallShapes :
                    /\ kCalls' = [kCalls EXCEPT ![c] = r] /\ r.step # "STAMP"
                    /\ r.step = "CURRENT" => kRecorded >= Interval + r.age
                    /\ r.step = "FIRST" => kActive = "none"
                    /\ r.step = "REPLACE" => ~Keys!InRing(kActive)
                    /\ r.step # "ROTATE"
                    /\ Keys!At(c, "STAMP") => r.step = "IDLE"
    <3> DEFINE r == [kCalls[c] EXCEPT !.step = to]
    <3>1. r \in CallShapes /\ r.step = to /\ r.age = kCalls[c].age
      BY <2>1, KeysBounds DEF CallShapes, Keys!At
    <3>2. kCalls' = [kCalls EXCEPT ![c] = r]
      BY <2>1 DEF Keys!Goto, KeysInv
    <3> HIDE DEF r
    <3> QED
      BY <2>1, <3>1, <3>2
  <2>2. CASE Keys!Begin(c)
    BY <2>1, <2>2, KeysBounds DEF Keys!Begin, Keys!At
  <2>3. CASE Keys!Last(c)
    <3>1. Keys!Due(c) => kRecorded >= Interval + kCalls[c].age
      BY KeysBounds DEF Keys!Due
    <3> QED
      BY <2>1, <2>3, <3>1 DEF Keys!Last, Keys!At
  <2>4. CASE Keys!Seed(c)
    BY <2>1, <2>4 DEF Keys!Seed, Keys!At
  <2>5. CASE Keys!Answer(c)
    BY <2>5, KeysBounds DEF Keys!Answer
  <2>6. CASE Keys!Active(c) /\ ~Keys!Answer(c)
    BY <2>1, <2>6 DEF Keys!Active, Keys!At
  <2> QED
    BY <2>2, <2>3, <2>4, <2>5, <2>6 DEF Keys!Crash
<1>3. Foreseen(r)'
  BY <1>1, <1>2 DEF Foreseen, Keys!InRing
<1>4. kRecorded' \in 0..Keys!MaxAge /\ kHeld' \in 0..Keys!MaxAge /\ kActive' \in Kids
  BY <1>1, KeysBounds DEF KeysInv
<1>5. Keys!At(c, "STAMP") => r.step = "IDLE"
  BY <1>2
<1> QED
  BY <1>1, <1>2, <1>3, <1>4, <1>5, KeysMoves

\* A call that found the last rotation long ago reads the key to be replaced.
LEMMA KeysCurrent ==
    ASSUME KeysInv, NEW c \in Calls, kCrossed' = (kCrossed \/ Keys!Crossing), Keys!Current(c)
    PROVE  KeysInv'
<1> DEFINE read == [step |-> "ROTATE", age |-> kCalls[c].age,
                    kid |-> IF kActive = "none" THEN Ring[1] ELSE kActive]
<1>1. read \in CallShapes /\ read.step = "ROTATE" /\ read.age = kCalls[c].age
  BY KeysBounds, FirstInRing DEF CallShapes, KeysInv
<1>2. kCalls' = [kCalls EXCEPT ![c] = read] /\ UNCHANGED <<kActive, kRecorded, kHeld>>
  BY DEF Keys!Current, KeysInv
<1> HIDE DEF read
<1>3. PICK r \in CallShapes : /\ kCalls' = [kCalls EXCEPT ![c] = r]
                              /\ r.step = "ROTATE" /\ r.age = kCalls[c].age
  BY <1>1, <1>2
<1>4. Foreseen(kCalls[c]) => Foreseen(r)'
  BY <1>2, <1>3 DEF Foreseen, Keys!Current, Keys!At
<1>5. /\ kRecorded' \in 0..Keys!MaxAge /\ kHeld' \in 0..Keys!MaxAge /\ kActive' \in Kids
      /\ ~Keys!At(c, "STAMP")
  BY <1>2, KeysBounds DEF Keys!Current, Keys!At, KeysInv
<1> QED
  BY <1>2, <1>3, <1>4, <1>5, KeysMoves

\* The next key of the ring is active from now on.
LEMMA KeysRotate ==
    ASSUME KeysInv, NEW c \in Calls, kCrossed' = (kCrossed \/ Keys!Crossing), Keys!Rotate(c)
    PROVE  KeysInv'
<1> DEFINE rotated == [kCalls[c] EXCEPT !.step = "STAMP"]
<1>1. rotated \in CallShapes /\ rotated.step = "STAMP"
  BY KeysBounds DEF CallShapes, Keys!Rotate, Keys!At
<1>2. kCalls' = [kCalls EXCEPT ![c] = rotated]
  BY DEF Keys!Rotate, Keys!Goto, KeysInv
<1> HIDE DEF rotated
<1>3. PICK r \in CallShapes : kCalls' = [kCalls EXCEPT ![c] = r] /\ r.step = "STAMP"
  BY <1>1, <1>2
<1>4. kRecorded' = kRecorded /\ kHeld' = 0 /\ Keys!Changing(c)
  BY DEF Keys!Rotate, Keys!Changing, Keys!At
<1>5. Foreseen(r)'
  BY <1>3 DEF Foreseen
<1>6. kRecorded' \in 0..Keys!MaxAge /\ kHeld' \in 0..Keys!MaxAge /\ kActive' \in Kids
  BY <1>4, KeysBounds, NextInRing DEF Keys!Rotate
<1> QED
  BY <1>3, <1>4, <1>5, <1>6, KeysMoves

\* The rotation is recorded, as old as the call.
LEMMA KeysStamp ==
    ASSUME KeysInv, NEW c \in Calls, kCrossed' = (kCrossed \/ Keys!Crossing), Keys!Stamp(c)
    PROVE  KeysInv'
<1>1. PICK r \in CallShapes : kCalls' = [kCalls EXCEPT ![c] = r] /\ r.step = "ACTIVE"
  <2>1. [step |-> "ACTIVE", age |-> kCalls[c].age] \in CallShapes
    BY KeysBounds DEF CallShapes
  <2>2. kCalls' = [kCalls EXCEPT ![c] = [step |-> "ACTIVE", age |-> kCalls[c].age]]
    BY DEF Keys!Stamp, KeysInv
  <2> QED
    BY <2>1, <2>2
<1>2. UNCHANGED <<kActive, kHeld>> /\ kRecorded' = kCalls[c].age /\ Keys!Changing(c)
  BY DEF Keys!Stamp, Keys!Stamped, Keys!Changing, Keys!At
<1>3. Foreseen(r)'
  BY <1>1 DEF Foreseen
<1>4. /\ kRecorded' \in 0..Keys!MaxAge /\ kHeld' \in 0..Keys!MaxAge /\ kActive' \in Kids
      /\ kRecorded' =< kHeld' + MaxStall
  BY <1>2, KeysBounds DEF KeysInv
<1> QED
  BY <1>1, <1>2, <1>3, <1>4, KeysMoves

\* The first key of the ring replaces none, or one that is not of the ring.
LEMMA KeysReplaced ==
    ASSUME KeysInv, NEW c \in Calls, kCrossed' = (kCrossed \/ Keys!Crossing),
           Keys!First(c) \/ Keys!Replace(c)
    PROVE  KeysInv'
<1>1. PICK r \in CallShapes : kCalls' = [kCalls EXCEPT ![c] = r] /\ r.step \in {"ACTIVE", "IDLE"}
  <2>1. CASE Keys!First(c)
    <3> DEFINE seeded == [kCalls[c] EXCEPT !.step = "ACTIVE"]
    <3>1. seeded \in CallShapes /\ seeded.step = "ACTIVE"
      BY <2>1, KeysBounds DEF CallShapes, Keys!First, Keys!At
    <3>2. kCalls' = [kCalls EXCEPT ![c] = seeded]
      BY <2>1 DEF Keys!First, Keys!Goto, KeysInv
    <3> HIDE DEF seeded
    <3> QED
      BY <3>1, <3>2
  <2>2. CASE Keys!Replace(c)
    BY <2>2, KeysBounds DEF Keys!Replace, Keys!Answer
  <2> QED
    BY <2>1, <2>2
<1>2. kRecorded' = kRecorded /\ kHeld' = Keys!MaxAge /\ kActive' = Ring[1] /\ Keys!Changing(c)
  BY DEF Keys!First, Keys!Replace, Keys!Seeded, Keys!Changing, Keys!At
<1>3. Foreseen(r)'
  BY <1>1 DEF Foreseen
<1>4. /\ kRecorded' \in 0..Keys!MaxAge /\ kHeld' \in 0..Keys!MaxAge /\ kActive' \in Kids
      /\ kRecorded' =< kHeld' + MaxStall
  BY <1>2, KeysBounds, FirstInRing
<1> QED
  BY <1>1, <1>2, <1>3, <1>4, KeysMoves

\* Time passes for the calls and the keys alike.
LEMMA KeysTick ==
    ASSUME KeysInv, kCrossed' = (kCrossed \/ Keys!Crossing), Keys!Tick
    PROVE  KeysInv'
<1>1. ASSUME NEW c \in Calls
      PROVE  /\ kCalls'[c] \in CallShapes /\ kCalls'[c].step = kCalls[c].step
             /\ kCalls'[c].step # "IDLE" =>
                    kCalls'[c].age = kCalls[c].age + 1 /\ kCalls[c].age < MaxStall
  <2>1. kCalls[c] \in CallShapes /\ kCalls[c].age \in 0..MaxStall /\ MaxStall \in Nat
    BY KeysBounds
  <2>2. CASE kCalls[c] = Keys!Idle
    BY <2>1, <2>2 DEF Keys!Tick, Keys!Idle
  <2>3. CASE kCalls[c] # Keys!Idle
    <3>1. kCalls[c].age < MaxStall /\ kCalls'[c] = [kCalls[c] EXCEPT !.age = @ + 1]
      BY <2>3 DEF Keys!Tick
    <3>2. kCalls[c].age + 1 \in 0..MaxStall
      BY <2>1, <3>1
    <3> QED
      BY <2>1, <3>1, <3>2 DEF CallShapes
  <2> QED
    BY <2>2, <2>3
<1>2. kCalls' \in [Calls -> CallShapes]
  BY <1>1 DEF Keys!Tick
<1>3. /\ kRecorded \in 0..Keys!MaxAge /\ kHeld \in 0..Keys!MaxAge
      /\ Keys!MaxAge = Interval + MaxStall
      /\ Interval \in Nat /\ MaxStall \in Nat
  BY KeysAssumption DEF KeysInv, Keys!MaxAge
<1>4. kRecorded' = Keys!Grow(kRecorded) /\ kHeld' = Keys!Grow(kHeld) /\ UNCHANGED kActive
  BY DEF Keys!Tick
<1>5. kRecorded' \in 0..Keys!MaxAge /\ kHeld' \in 0..Keys!MaxAge
  BY <1>3, <1>4 DEF Keys!Grow
<1>6. kRecorded =< kHeld + MaxStall => kRecorded' =< kHeld' + MaxStall
  BY <1>3, <1>4 DEF Keys!Grow
<1>7. ASSUME NEW c \in Calls, Foreseen(kCalls[c]) PROVE Foreseen(kCalls[c])'
  <2>1. CASE kCalls'[c].step \in {"CURRENT", "ROTATE"}
    <3>1. kRecorded >= Interval + kCalls[c].age /\ kCalls[c].age < MaxStall
            /\ kCalls[c].age \in 0..MaxStall
      BY <1>1, <1>7, <2>1, KeysBounds DEF Foreseen
    <3>2. kRecorded' >= Interval + (kCalls[c].age + 1)
      BY <1>3, <1>4, <3>1 DEF Keys!Grow
    <3>3. kCalls'[c].age = kCalls[c].age + 1
      BY <1>1, <2>1
    <3> QED
      BY <2>1, <3>2, <3>3 DEF Foreseen
  <2>2. CASE kCalls'[c].step \notin {"CURRENT", "ROTATE"}
    BY <1>1, <1>4, <1>7, <2>2 DEF Foreseen, Keys!InRing
  <2> QED
    BY <2>1, <2>2
<1>8. ASSUME ~kCrossed'
      PROVE  /\ ~kCrossed
             /\ \A c, d \in Calls : Keys!Changing(c)' /\ Keys!Changing(d)' => c = d
  BY <1>8 DEF Keys!Crossing
<1> QED
  BY <1>1, <1>2, <1>4, <1>5, <1>6, <1>7, <1>8 DEF KeysInv, Keys!At

\* Every step keeps it.
LEMMA KeysStep == KeysInv /\ [Keys!Next]_Keys!vars => KeysInv'
<1> SUFFICES ASSUME KeysInv, [Keys!Next]_Keys!vars PROVE KeysInv'
  OBVIOUS
<1>1. CASE UNCHANGED Keys!vars
  BY <1>1 DEF Keys!vars, KeysInv, Keys!Changing, Keys!At, Foreseen, Keys!InRing
<1>2. CASE Keys!Next
  BY <1>2, KeysReads, KeysCurrent, KeysRotate, KeysStamp, KeysReplaced, KeysTick DEF Keys!Next,
     Keys!Step
<1> QED
  BY <1>1, <1>2

\* A key of the ring that is replaced was active for the interval, less a call's time.
LEMMA IntervalKept == KeysInv /\ [Keys!Next]_Keys!vars => [Keys!KeepsItsInterval]_Keys!vars
<1> SUFFICES ASSUME KeysInv, Keys!Next, kActive' # kActive, Keys!InRing(kActive), ~kCrossed
             PROVE  kHeld >= Interval - MaxStall
  BY DEF Keys!KeepsItsInterval
<1>1. PICK c \in Calls : Keys!First(c) \/ Keys!Rotate(c) \/ Keys!Replace(c)
  BY DEF Keys!Next, Keys!Step, Keys!Tick, Keys!Begin, Keys!Last, Keys!Seed, Keys!Current,
     Keys!Stamp, Keys!Active, Keys!Crash
<1>2. Foreseen(kCalls[c]) /\ \A d \in Calls : Keys!Changing(d) /\ Keys!Changing(c) => d = c
  BY DEF KeysInv
<1>3. ~Keys!InRing("none")
  BY KeysAssumption DEF Keys!InRing
<1>4. Keys!Rotate(c)
  BY <1>1, <1>2, <1>3 DEF Keys!First, Keys!Replace, Foreseen, Keys!At
<1>5. kCalls[c].step = "ROTATE" /\ \A d \in Calls : ~Keys!At(d, "STAMP")
  BY <1>2, <1>4 DEF Keys!Rotate, Keys!At, Keys!Changing
<1>6. kRecorded >= Interval + kCalls[c].age /\ kRecorded =< kHeld + MaxStall
  BY <1>2, <1>5 DEF Foreseen, KeysInv
<1> QED
  BY <1>6, KeysBounds

-----------------------------------------------------------------------------
(* The cached identity context                                             *)

\* A reader with the answer it was given.
ReaderShapes == [step : {"IDLE", "FETCH", "SET"}, value : Cache!Versions, age : 0..Stall]

\* A reader about to store an answer that ended no longer ago than its call began.
Fetched(r) ==
    r.step = "SET" => r.value =< cVersion /\ cRetired[r.value] =< r.age

\* The inductive invariant of the cached context.
CacheInv ==
    /\ cVersion \in Cache!Versions
    /\ cRetired \in [Cache!Versions -> Nat]
    /\ \A v \in Cache!Versions : v >= cVersion => cRetired[v] = 0
    /\ cEntry \in [value : Cache!Versions, age : 0..TTL] /\ cEntry.value =< cVersion
    /\ cEntry # Cache!NoEntry => cRetired[cEntry.value] =< Stall + cEntry.age
    /\ cReaders \in [Readers -> ReaderShapes]
    /\ \A r \in Readers : Fetched(cReaders[r])
    /\ Cache!StalenessBounded

\* Nothing is cached to begin with.
LEMMA CacheInit == Cache!Init => CacheInv
BY CacheAssumption DEF Cache!Init, CacheInv, Cache!Versions, Cache!NoEntry, Cache!Idle,
   ReaderShapes, Fetched, Cache!StalenessBounded

\* What is served ended no longer ago than this.
LEMMA ServesBounded ==
    ASSUME CacheInv, NEW v \in Cache!Versions, cRetired[v] =< TTL + Stall, Cache!Serve(v)
    PROVE  Cache!StalenessBounded'
BY DEF CacheInv, Cache!StalenessBounded, Cache!Serve

\* A read from the cache, or the way to the platform.
LEMMA CacheGet ==
    ASSUME CacheInv, NEW r \in Readers, Cache!Get(r)
    PROVE  CacheInv'
<1> USE CacheAssumption DEF CacheInv, Cache!Get
<1>1. CASE cEntry # Cache!NoEntry
  <2>1. cEntry.value \in Cache!Versions /\ cRetired[cEntry.value] \in Nat /\ cEntry.age \in 0..TTL
    OBVIOUS
  <2>2. cRetired[cEntry.value] =< TTL + Stall
    BY <2>1, <1>1
  <2> QED
    BY <1>1, <2>1, <2>2, ServesBounded DEF Fetched
<1>2. CASE cEntry = Cache!NoEntry
  <2>1. cReaders' = [cReaders EXCEPT ![r] = [step |-> "FETCH", value |-> 0, age |-> 0]]
    BY <1>2 DEF Cache!Idle
  <2>2. cReaders' \in [Readers -> ReaderShapes]
    BY <2>1 DEF ReaderShapes, Cache!Versions
  <2>3. \A p \in Readers : Fetched(cReaders'[p])
    BY <2>1 DEF Fetched
  <2> QED
    BY <1>2, <2>2, <2>3 DEF Fetched, Cache!StalenessBounded
<1> QED
  BY <1>1, <1>2

\* The platform's answer is the current one.
LEMMA CacheFetch ==
    ASSUME CacheInv, NEW r \in Readers, Cache!Fetch(r)
    PROVE  CacheInv'
<1> USE CacheAssumption DEF CacheInv, Cache!Fetch
<1>1. cReaders' \in [Readers -> ReaderShapes]
  BY DEF ReaderShapes
<1>2. cVersion >= cVersion /\ cRetired[cVersion] = 0
  BY DEF Cache!Versions
<1>3. \A p \in Readers : Fetched(cReaders'[p])
  BY <1>2 DEF Fetched, Cache!Versions
<1> QED
  BY <1>1, <1>3 DEF Fetched, Cache!StalenessBounded

\* An answer is cached no later than a call takes after it was the platform's.
LEMMA CacheSet ==
    ASSUME CacheInv, NEW r \in Readers, Cache!Set(r)
    PROVE  CacheInv'
<1> USE CacheAssumption DEF CacheInv, Cache!Set
<1> DEFINE v == cReaders[r].value
<1>1. cReaders[r] \in ReaderShapes /\ Fetched(cReaders[r])
  OBVIOUS
<1>2. v \in Cache!Versions /\ v =< cVersion /\ cRetired[v] =< Stall /\ cRetired[v] \in Nat
  <2>1. v \in Cache!Versions /\ cReaders[r].age \in 0..Stall
    BY <1>1 DEF ReaderShapes
  <2> QED
    BY <1>1, <2>1 DEF Fetched
<1>3. Cache!StalenessBounded'
  <2>1. cRetired[v] =< TTL + Stall
    BY <1>2
  <2> QED
    BY <1>2, <2>1, ServesBounded
<1>4. cEntry'.value = v /\ cEntry'.age = 0 /\ cEntry' \in [value : Cache!Versions, age : 0..TTL]
  BY <1>2 DEF Cache!Stored
<1>5. cReaders' \in [Readers -> ReaderShapes] /\ \A p \in Readers : Fetched(cReaders'[p])
  BY DEF Cache!Idle, ReaderShapes, Cache!Versions, Fetched
<1> QED
  BY <1>2, <1>3, <1>4, <1>5 DEF Fetched

\* A call that fails leaves no answer, and an invalidation removes the one there is.
LEMMA CacheEmptied ==
    ASSUME CacheInv,
           \/ \E r \in Readers : Cache!Fails(r)
           \/ \E c \in Resolutions : Cache!Invalidate(c)
    PROVE  CacheInv'
<1> USE CacheAssumption DEF CacheInv
<1>1. ASSUME NEW r \in Readers, Cache!Fails(r) PROVE CacheInv'
  <2>1. cReaders' \in [Readers -> ReaderShapes] /\ \A p \in Readers : Fetched(cReaders'[p])
    BY <1>1 DEF Cache!Fails, Cache!Idle, ReaderShapes, Cache!Versions, Fetched
  <2> QED
    BY <1>1, <2>1 DEF Cache!Fails, Fetched, Cache!StalenessBounded
<1>2. ASSUME NEW c \in Resolutions, Cache!Invalidate(c) PROVE CacheInv'
  <2>1. cEntry' \in [value : Cache!Versions, age : 0..TTL] /\ cEntry'.value =< cVersion
    BY <1>2 DEF Cache!Invalidate, Cache!NoEntry, Cache!Versions
  <2> QED
    BY <1>2, <2>1 DEF Cache!Invalidate, Fetched, Cache!StalenessBounded
<1> QED
  BY <1>1, <1>2

\* A new answer of the platform has ended nowhere yet, and the old one only now.
LEMMA CacheChange ==
    ASSUME CacheInv, NEW c \in Resolutions, Cache!Change(c)
    PROVE  CacheInv'
<1> USE CacheAssumption DEF CacheInv, Cache!Change
<1>1. cVersion' \in Cache!Versions /\ cVersion =< cVersion'
  BY DEF Cache!Versions
<1>2. \A v \in Cache!Versions : v =< cVersion => v =< cVersion'
  BY <1>1 DEF Cache!Versions
<1>3. \A v \in Cache!Versions : v >= cVersion' => cRetired[v] = 0
  BY <1>1 DEF Cache!Versions
<1>4. \A p \in Readers : Fetched(cReaders[p])'
  <2> SUFFICES ASSUME NEW p \in Readers, cReaders[p].step = "SET"
               PROVE  cReaders[p].value =< cVersion'
                          /\ cRetired[cReaders[p].value] =< cReaders[p].age
    BY DEF Fetched
  <2>1. cReaders[p].value \in Cache!Versions
    BY DEF ReaderShapes
  <2> QED
    BY <2>1, <1>2 DEF Fetched
<1> QED
  BY <1>1, <1>2, <1>3, <1>4 DEF Cache!StalenessBounded

\* Answers grow older as fast as the time since they ended.
LEMMA CacheTick ==
    ASSUME CacheInv, Cache!Tick
    PROVE  CacheInv'
<1> USE CacheAssumption DEF CacheInv, Cache!Tick
<1>1. \A v \in Cache!Versions : cRetired'[v] \in Nat /\ cRetired'[v] =< cRetired[v] + 1
  <2> SUFFICES ASSUME NEW v \in Cache!Versions
               PROVE  cRetired'[v] \in Nat /\ cRetired'[v] =< cRetired[v] + 1
    OBVIOUS
  <2>1. cRetired[v] \in Nat /\ Cache!MaxAge \in Nat
    BY DEF Cache!MaxAge
  <2>2. cRetired'[v] = IF v < cVersion THEN Cache!Grow(cRetired[v]) ELSE 0
    OBVIOUS
  <2> QED
    BY <2>1, <2>2 DEF Cache!Grow
<1>2. cRetired' \in [Cache!Versions -> Nat] /\ \A v \in Cache!Versions : v >= cVersion' =>
          cRetired'[v] = 0
  <2>1. cRetired' = [v \in Cache!Versions |-> IF v < cVersion THEN Cache!Grow(cRetired[v]) ELSE 0]
    OBVIOUS
  <2>2. \A v \in Cache!Versions : v >= cVersion => ~(v < cVersion)
    BY DEF Cache!Versions
  <2> QED
    BY <2>1, <2>2, <1>1
<1>3. /\ cEntry' \in [value : Cache!Versions, age : 0..TTL] /\ cEntry'.value =< cVersion'
      /\ cEntry' # Cache!NoEntry => cRetired'[cEntry'.value] =< Stall + cEntry'.age
  <2>1. PICK v \in Cache!Versions, a \in 0..TTL : cEntry = [value |-> v, age |-> a]
    OBVIOUS
  <2>2. CASE a + 1 >= TTL
    <3>1. cEntry' = Cache!NoEntry
      BY <2>1, <2>2
    <3> QED
      BY <3>1 DEF Cache!NoEntry, Cache!Versions
  <2>3. CASE ~(a + 1 >= TTL)
    <3>1. cEntry' = [value |-> v, age |-> a + 1] /\ cEntry # Cache!NoEntry
      BY <2>1, <2>3 DEF Cache!NoEntry
    <3>2. cRetired[v] =< Stall + a /\ v =< cVersion /\ cRetired[v] \in Nat
      BY <2>1, <3>1
    <3> QED
      BY <2>3, <3>1, <3>2, <1>1
  <2> QED
    BY <2>2, <2>3
<1>4. ASSUME NEW r \in Readers PROVE cReaders'[r] \in ReaderShapes /\ Fetched(cReaders[r])'
  <2>1. CASE cReaders[r].step = "SET"
    <3>1. PICK v \in Cache!Versions, a \in 0..Stall :
            cReaders[r] = [step |-> "SET", value |-> v, age |-> a]
      BY <2>1 DEF ReaderShapes
    <3>2. a < Stall /\ cReaders'[r] = [step |-> "SET", value |-> v, age |-> a + 1]
      BY <2>1, <3>1
    <3>3. v =< cVersion /\ cRetired[v] =< a /\ cRetired[v] \in Nat
      BY <3>1 DEF Fetched
    <3> QED
      BY <3>2, <3>3, <1>1 DEF ReaderShapes, Fetched
  <2>2. CASE cReaders[r].step # "SET"
    BY <2>2 DEF Fetched
  <2> QED
    BY <2>1, <2>2
<1>5. cReaders' \in [Readers -> ReaderShapes]
  <2>1. \A r \in Readers : cReaders'[r] \in ReaderShapes
    BY <1>4
  <2> QED
    BY <2>1
<1>6. Cache!StalenessBounded'
  BY DEF Cache!StalenessBounded
<1> QED
  BY <1>2, <1>3, <1>4, <1>5, <1>6

\* Every step of the cache.
LEMMA CacheStep == CacheInv /\ [Cache!Next]_Cache!vars => CacheInv'
<1> SUFFICES ASSUME CacheInv, [Cache!Next]_Cache!vars PROVE CacheInv'
  OBVIOUS
<1>1. CASE UNCHANGED Cache!vars
  BY <1>1 DEF Cache!vars, CacheInv, Fetched, Cache!StalenessBounded
<1> QED
  BY <1>1, CacheGet, CacheFetch, CacheSet, CacheEmptied, CacheChange, CacheTick DEF Cache!Next

-----------------------------------------------------------------------------
(* The issuance of tokens                                                  *)

\* The endpoints.
Kinds == DOMAIN Issuance!Program

\* The last steps of the programs.
Answers == {"code", "sign", "answer"}

\* What a passed step has looked at.
Looked(step, method) ==
    CASE step \in {"client", "redirect", "application", "tenant"} -> {step}
      [] step = "allowed" -> {"application", method}
      [] step \in {"principal", "subject"} -> {"subject"}
      [] OTHER -> {}

\* What a request of this kind and method may be barred by.
Bars(kind, method) ==
    {"client", "application", "tenant", method}
        \cup (IF kind \in {"authorize", "login"} THEN {"redirect"} ELSE {})
        \cup (IF method = "HAPI_EMAIL" THEN {"subject"} ELSE {})

\* The program of a kind up to its step pc.
Before(kind, pc) == {Issuance!Program[kind][i] : i \in 1..(pc - 1)}

\* Request q is served, and the step it is at.
Active(q) == iRequests[q] # Issuance!Idle
At(q) == Issuance!Program[iRequests[q].kind][iRequests[q].pc]

-----------------------------------------------------------------------------
(* The programs.                                                           *)

\* POST /authorize answers at its end, after all it has to look at.
LEMMA AuthorizeSteps ==
    /\ Len(Issuance!Authorize) = 21
    /\ \A i \in 1..20 : Issuance!Authorize[i] \notin Answers
    /\ Issuance!Authorize[21] = "code"
    /\ Issuance!Authorize[2] = "client" /\ Issuance!Authorize[5] = "redirect"
    /\ Issuance!Authorize[12] = "allowed" /\ Issuance!Authorize[13] = "tenant"
    /\ Issuance!Authorize[17] = "principal"
<1> USE DEF Issuance!Authorize, Issuance!EmailAuthority, Issuance!Registered,
    Issuance!WithMethod
<1>1. Len(Issuance!Authorize) = 21
  OBVIOUS
<1>2. /\ Issuance!Authorize[1] = "limit" /\ Issuance!Authorize[2] = "client"
      /\ Issuance!Authorize[3] = "application"
      /\ Issuance!Authorize[4] = "tenant" /\ Issuance!Authorize[5] = "redirect"
      /\ Issuance!Authorize[6] = "input"
      /\ Issuance!Authorize[7] = "client" /\ Issuance!Authorize[8] = "application"
      /\ Issuance!Authorize[9] = "tenant"
      /\ Issuance!Authorize[10] = "input"
  OBVIOUS
<1>3. /\ Issuance!Authorize[11] = "client" /\ Issuance!Authorize[12] = "allowed"
      /\ Issuance!Authorize[13] = "tenant"
      /\ Issuance!Authorize[14] = "client" /\ Issuance!Authorize[15] = "allowed"
      /\ Issuance!Authorize[16] = "tenant"
      /\ Issuance!Authorize[17] = "principal" /\ Issuance!Authorize[18] = "client"
      /\ Issuance!Authorize[19] = "allowed" /\ Issuance!Authorize[20] = "tenant"
      /\ Issuance!Authorize[21] = "code"
  OBVIOUS
<1> HIDE DEF Issuance!Authorize
<1> QED
  BY <1>1, <1>2, <1>3 DEF Answers

\* So does the e-mail form.
LEMMA LoginSteps ==
    /\ Len(Issuance!Login) = 20
    /\ \A i \in 1..19 : Issuance!Login[i] \notin Answers
    /\ Issuance!Login[20] = "code"
    /\ Issuance!Login[2] = "client" /\ Issuance!Login[3] = "allowed"
    /\ Issuance!Login[4] = "tenant"
    /\ Issuance!Login[11] = "redirect" /\ Issuance!Login[16] = "principal"
<1> USE DEF Issuance!Login, Issuance!EmailAuthority, Issuance!ClientStillValid,
    Issuance!Registered, Issuance!WithMethod
<1>1. Len(Issuance!Login) = 20
  OBVIOUS
<1>2. /\ Issuance!Login[1] = "limit" /\ Issuance!Login[2] = "client"
      /\ Issuance!Login[3] = "allowed"
      /\ Issuance!Login[4] = "tenant" /\ Issuance!Login[5] = "client"
      /\ Issuance!Login[6] = "allowed"
      /\ Issuance!Login[7] = "tenant" /\ Issuance!Login[8] = "client"
      /\ Issuance!Login[9] = "application"
      /\ Issuance!Login[10] = "tenant"
  OBVIOUS
<1>3. /\ Issuance!Login[11] = "redirect" /\ Issuance!Login[12] = "client"
      /\ Issuance!Login[13] = "application"
      /\ Issuance!Login[14] = "tenant" /\ Issuance!Login[15] = "input"
      /\ Issuance!Login[16] = "principal"
      /\ Issuance!Login[17] = "client" /\ Issuance!Login[18] = "allowed"
      /\ Issuance!Login[19] = "tenant"
      /\ Issuance!Login[20] = "code"
  OBVIOUS
<1> HIDE DEF Issuance!Login
<1> QED
  BY <1>1, <1>2, <1>3 DEF Answers

\* So do the callback of a face login, POST /token and /userinfo.
LEMMA OtherSteps ==
    /\ Len(Issuance!Callback) = 4 /\ Issuance!Callback[4] = "code"
    /\ \A i \in 1..3 : Issuance!Callback[i] \notin Answers
    /\ Issuance!Callback[1] = "client" /\ Issuance!Callback[2] = "allowed"
    /\ Issuance!Callback[3] = "tenant"
    /\ Len(Issuance!Token) = 14 /\ Issuance!Token[14] = "sign"
    /\ \A i \in 1..13 : Issuance!Token[i] \notin Answers
    /\ Issuance!Token[2] = "client" /\ Issuance!Token[6] = "allowed"
    /\ Issuance!Token[7] = "tenant"
    /\ Issuance!Token[9] = "subject" /\ Issuance!Token[10] = "claims"
    /\ Len(Issuance!UserInfo) = 5 /\ Issuance!UserInfo[5] = "answer"
    /\ \A i \in 1..4 : Issuance!UserInfo[i] \notin Answers
    /\ Issuance!UserInfo[4] = "claims"
<1> USE DEF Issuance!Callback, Issuance!Token, Issuance!UserInfo, Issuance!Registered,
    Issuance!WithMethod
<1>1. /\ Len(Issuance!Callback) = 4 /\ Issuance!Callback[1] = "client"
      /\ Issuance!Callback[2] = "allowed"
      /\ Issuance!Callback[3] = "tenant" /\ Issuance!Callback[4] = "code"
  OBVIOUS
<1>2. /\ Len(Issuance!Token) = 14
      /\ Issuance!Token[1] = "input" /\ Issuance!Token[2] = "client"
      /\ Issuance!Token[3] = "application"
      /\ Issuance!Token[4] = "tenant" /\ Issuance!Token[5] = "client"
      /\ Issuance!Token[6] = "allowed"
      /\ Issuance!Token[7] = "tenant" /\ Issuance!Token[8] = "input"
      /\ Issuance!Token[9] = "subject"
      /\ Issuance!Token[10] = "claims" /\ Issuance!Token[11] = "limit"
      /\ Issuance!Token[12] = "access"
      /\ Issuance!Token[13] = "refresh" /\ Issuance!Token[14] = "sign"
  OBVIOUS
<1>3. /\ Len(Issuance!UserInfo) = 5 /\ Issuance!UserInfo[1] = "limit"
      /\ Issuance!UserInfo[2] = "record"
      /\ Issuance!UserInfo[3] = "limit" /\ Issuance!UserInfo[4] = "claims"
      /\ Issuance!UserInfo[5] = "answer"
  OBVIOUS
<1> HIDE DEF Issuance!Callback, Issuance!Token, Issuance!UserInfo
<1> QED
  BY <1>1, <1>2, <1>3 DEF Answers

\* Every kind of request has one of these programs.
LEMMA ProgramOf ==
    /\ Kinds = {"authorize", "login", "callback", "token", "userinfo"}
    /\ Issuance!Program["authorize"] = Issuance!Authorize
    /\ Issuance!Program["login"] = Issuance!Login
    /\ Issuance!Program["callback"] = Issuance!Callback
    /\ Issuance!Program["token"] = Issuance!Token
    /\ Issuance!Program["userinfo"] = Issuance!UserInfo
BY DEF Kinds, Issuance!Program

\* A program answers in its last step and nowhere else.
LEMMA AnswersLast ==
    ASSUME NEW kind \in Kinds, NEW pc \in 1..Len(Issuance!Program[kind])
    PROVE  /\ Issuance!Program[kind][pc] \in Answers <=> pc = Len(Issuance!Program[kind])
           /\ Len(Issuance!Program[kind]) \in Nat
<1>1. CASE kind = "authorize"
  BY <1>1, ProgramOf, AuthorizeSteps DEF Answers
<1>2. CASE kind = "login"
  BY <1>2, ProgramOf, LoginSteps DEF Answers
<1>3. CASE kind = "callback"
  BY <1>3, ProgramOf, OtherSteps DEF Answers
<1>4. CASE kind = "token"
  BY <1>4, ProgramOf, OtherSteps DEF Answers
<1>5. CASE kind = "userinfo"
  BY <1>5, ProgramOf, OtherSteps DEF Answers
<1> QED
  BY <1>1, <1>2, <1>3, <1>4, <1>5, ProgramOf

\* A code is issued only after all the request may be barred by was looked at, and
\* tokens are signed only after that and the claims.
LEMMA AnswersLookedAt ==
    ASSUME NEW kind \in Kinds, NEW pc \in 1..Len(Issuance!Program[kind]),
           NEW method \in Issuance!Methods,
           kind \in {"authorize", "login"} => method = "HAPI_EMAIL",
           kind = "callback" => method = "PRIVATEID_FACE"
    PROVE  /\ Issuance!Program[kind][pc] \in {"code", "sign"} =>
                \A b \in Bars(kind, method) :
                  \E step \in Before(kind, pc) : b \in Looked(step, method)
           /\ Issuance!Program[kind][pc] \in {"sign", "answer"} => "claims" \in Before(kind, pc)
<1>1. pc \in Nat /\ (Issuance!Program[kind][pc] \in Answers <=> pc = Len(Issuance!Program[kind]))
  BY AnswersLast
<1>2. CASE kind = "authorize"
  <2>1. Bars(kind, method) \subseteq
          {"client", "application", "tenant", method, "redirect", "subject"}
    BY DEF Bars
  <2>2. CASE pc = 21
    <3>1. {"client", "redirect", "allowed", "tenant", "principal"} \subseteq Before(kind, pc)
      BY <1>2, <2>2, ProgramOf, AuthorizeSteps DEF Before
    <3>2. Issuance!Program[kind][pc] = "code"
      BY <1>2, <2>2, ProgramOf, AuthorizeSteps
    <3> QED
      BY <2>1, <3>1, <3>2 DEF Looked
  <2> QED
    BY <1>1, <1>2, <2>2, ProgramOf, AuthorizeSteps DEF Answers
<1>3. CASE kind = "login"
  <2>1. Bars(kind, method) \subseteq
          {"client", "application", "tenant", method, "redirect", "subject"}
    BY DEF Bars
  <2>2. CASE pc = 20
    <3>1. {"client", "redirect", "allowed", "tenant", "principal"} \subseteq Before(kind, pc)
      BY <1>3, <2>2, ProgramOf, LoginSteps DEF Before
    <3>2. Issuance!Program[kind][pc] = "code"
      BY <1>3, <2>2, ProgramOf, LoginSteps
    <3> QED
      BY <2>1, <3>1, <3>2 DEF Looked
  <2> QED
    BY <1>1, <1>3, <2>2, ProgramOf, LoginSteps DEF Answers
<1>4. CASE kind = "callback"
  <2>1. Bars(kind, method) \subseteq {"client", "application", "tenant", method}
    BY <1>4 DEF Bars
  <2>2. CASE pc = 4
    <3>1. {"client", "allowed", "tenant"} \subseteq Before(kind, pc)
      BY <1>4, <2>2, ProgramOf, OtherSteps DEF Before
    <3>2. Issuance!Program[kind][pc] = "code"
      BY <1>4, <2>2, ProgramOf, OtherSteps
    <3> QED
      BY <2>1, <3>1, <3>2 DEF Looked
  <2> QED
    BY <1>1, <1>4, <2>2, ProgramOf, OtherSteps DEF Answers
<1>5. CASE kind = "token"
  <2>1. Bars(kind, method) \subseteq {"client", "application", "tenant", method, "subject"}
    BY <1>5 DEF Bars
  <2>2. CASE pc = 14
    <3>1. {"client", "allowed", "tenant", "subject", "claims"} \subseteq Before(kind, pc)
      BY <1>5, <2>2, ProgramOf, OtherSteps DEF Before
    <3> QED
      BY <2>1, <3>1 DEF Looked
  <2> QED
    BY <1>1, <1>5, <2>2, ProgramOf, OtherSteps DEF Answers
<1>6. CASE kind = "userinfo"
  <2>1. CASE pc = 5
    <3>1. "claims" \in Before(kind, pc) /\ Issuance!Program[kind][pc] = "answer"
      BY <1>6, <2>1, ProgramOf, OtherSteps DEF Before
    <3> QED
      BY <3>1
  <2> QED
    BY <1>1, <1>6, <2>1, ProgramOf, OtherSteps DEF Answers
<1> QED
  BY <1>2, <1>3, <1>4, <1>5, <1>6, ProgramOf

-----------------------------------------------------------------------------
(* The inductive invariant.                                                *)

\* A request is at a step of its program, with the method its kind can have.
RequestOk(q) ==
    /\ iRequests[q] = [kind |-> iRequests[q].kind, pc |-> iRequests[q].pc,
                      method |-> iRequests[q].method, code |-> iRequests[q].code,
                      claims |-> iRequests[q].claims]
    /\ iRequests[q].kind \in Kinds
    /\ iRequests[q].pc \in 1..Len(Issuance!Program[iRequests[q].kind])
    /\ iRequests[q].method \in Issuance!Methods
    /\ iRequests[q].code \in Codes
    /\ iRequests[q].kind \in {"authorize", "login"} => iRequests[q].method = "HAPI_EMAIL"
    /\ iRequests[q].kind = "callback" => iRequests[q].method = "PRIVATEID_FACE"

\* What bars a request is withdrawn now, and no step the request has passed looked at it.
BarredOk(q) ==
    /\ iBarred[q] \subseteq Bars(iRequests[q].kind, iRequests[q].method)
    /\ \A p \in iBarred[q] \cap Issuance!Parts : ~iStanding[p]
    /\ "subject" \in iBarred[q] => ~Issuance!EligibleRow(iSubject)
    /\ \A step \in Before(iRequests[q].kind, iRequests[q].pc) :
          Looked(step, iRequests[q].method) \cap iBarred[q] = {}

\* The claims of now are among those seen, and so are those that were read.
SeenOk(q) ==
    /\ Issuance!ClaimsOf(iSubject) \in iSeen[q]
    /\ "claims" \in Before(iRequests[q].kind, iRequests[q].pc) => iRequests[q].claims \in iSeen[q]

\* What holds of every request.
RequestGood(q) == iRequests[q] # Issuance!Idle => RequestOk(q) /\ BarredOk(q) /\ SeenOk(q)
RequestsGood == \A q \in Requests : RequestGood(q)

\* The shapes of the variables of the issuance.
Shapes ==
    /\ iRequests = [q \in Requests |-> iRequests[q]]
    /\ iBarred = [q \in Requests |-> iBarred[q]]
    /\ iSeen = [q \in Requests |-> iSeen[q]]
    /\ iStanding \in [Issuance!Parts -> BOOLEAN]
    /\ iCodes = [x \in Codes |-> iCodes[x]]
    /\ \A x \in Codes : iCodes[x] # Issuance!Unissued =>
          /\ iCodes[x] = [state |-> iCodes[x].state, method |-> iCodes[x].method,
                         claims |-> iCodes[x].claims]
          /\ iCodes[x].method \in Issuance!Methods
    /\ \A q \in Requests : iRequests[q] # Issuance!Idle /\ iRequests[q].kind = "token" =>
          iCodes[iRequests[q].code] # Issuance!Unissued

\* The inductive invariant of the issuance.
JustifiedInv == Shapes /\ RequestsGood /\ Issuance!AnswersJustified

\* Before the first request.
LEMMA InitJustified == Issuance!Init => JustifiedInv
<1> SUFFICES ASSUME Issuance!Init PROVE JustifiedInv
  OBVIOUS
<1> USE DEF Issuance!Init
<1>1. Shapes
  BY DEF Shapes
<1>2. RequestsGood
  BY DEF RequestsGood, RequestGood
<1>3. Issuance!AnswersJustified
  BY DEF Issuance!AnswersJustified, Issuance!WithdrawnStaysOut, Issuance!ClaimsAreLive
<1> QED
  BY <1>1, <1>2, <1>3 DEF JustifiedInv

\* What a step leaves alone stays good.
LEMMA GoodKept ==
    ASSUME NEW q \in Requests, RequestGood(q), iRequests'[q] = iRequests[q],
           iBarred'[q] = iBarred[q], iSeen'[q] = iSeen[q], iStanding' = iStanding,
           iSubject' = iSubject
    PROVE  RequestGood(q)'
BY DEF RequestGood, RequestOk, BarredOk, SeenOk, Issuance!EligibleRow, Issuance!ClaimsOf

\* The program of a request one step on.
LEMMA BeforeNext ==
    ASSUME NEW kind \in Kinds, NEW pc \in 1..Len(Issuance!Program[kind]),
           Issuance!Program[kind][pc] \notin Answers
    PROVE  /\ pc + 1 \in 1..Len(Issuance!Program[kind])
           /\ Before(kind, pc + 1) = Before(kind, pc) \cup {Issuance!Program[kind][pc]}
<1>1. pc \in Nat /\ pc # Len(Issuance!Program[kind]) /\ Len(Issuance!Program[kind]) \in Nat
          /\ pc >= 1
  BY AnswersLast
<1>2. pc + 1 \in 1..Len(Issuance!Program[kind])
  BY <1>1
<1>3. 1..((pc + 1) - 1) = (1..(pc - 1)) \cup {pc}
  BY <1>1
<1> QED
  BY <1>2, <1>3 DEF Before

\* A request that passes a step which nothing that bars it withstands stays good.
LEMMA GoodPassing ==
    ASSUME NEW q \in Requests, RequestGood(q), iRequests[q] # Issuance!Idle, At(q) \notin Answers,
           Looked(At(q), iRequests[q].method) \cap iBarred[q] = {},
           NEW c, At(q) = "claims" => c \in iSeen[q],
           At(q) # "claims" => c = iRequests[q].claims,
           iRequests'[q] = [kind |-> iRequests[q].kind, pc |-> iRequests[q].pc + 1,
                           method |-> iRequests[q].method, code |-> iRequests[q].code,
                           claims |-> c],
           iBarred'[q] = iBarred[q], iSeen'[q] = iSeen[q], iStanding' = iStanding,
           iSubject' = iSubject
    PROVE  RequestGood(q)'
<1> DEFINE kind == iRequests[q].kind
           pc == iRequests[q].pc
<1>1. RequestOk(q) /\ BarredOk(q) /\ SeenOk(q)
  BY DEF RequestGood
<1>2. kind \in Kinds /\ pc \in 1..Len(Issuance!Program[kind])
  BY <1>1 DEF RequestOk
<1>3. /\ pc + 1 \in 1..Len(Issuance!Program[kind])
      /\ Before(kind, pc + 1) = Before(kind, pc) \cup {At(q)}
  BY <1>2, BeforeNext DEF At
<1>4. /\ iRequests'[q].kind = kind /\ iRequests'[q].pc = pc + 1
      /\ iRequests'[q].method = iRequests[q].method /\ iRequests'[q].code = iRequests[q].code
      /\ iRequests'[q].claims = c
  OBVIOUS
<1>5. RequestOk(q)'
  BY <1>1, <1>3, <1>4 DEF RequestOk
<1>6. BarredOk(q)'
  <2>1. Before(iRequests'[q].kind, iRequests'[q].pc) = Before(kind, pc) \cup {At(q)}
    BY <1>3, <1>4
  <2> QED
    BY <1>1, <1>4, <2>1 DEF BarredOk, Issuance!EligibleRow
<1>7. SeenOk(q)'
  <2>1. Before(iRequests'[q].kind, iRequests'[q].pc) = Before(kind, pc) \cup {At(q)}
    BY <1>3, <1>4
  <2> QED
    BY <1>1, <1>4, <2>1 DEF SeenOk, Issuance!ClaimsOf
<1> QED
  BY <1>5, <1>6, <1>7 DEF RequestGood

\* A request that begins is barred by what is withdrawn, and has passed nothing.
LEMMA GoodBeginning ==
    ASSUME NEW q \in Requests, NEW kind \in Kinds, NEW method \in Issuance!Methods,
           NEW x \in Codes,
           kind \in {"authorize", "login"} => method = "HAPI_EMAIL",
           kind = "callback" => method = "PRIVATEID_FACE",
           Shapes, Issuance!Begin(q, kind, method, x)
    PROVE  RequestGood(q)' /\ iRequests'[q].kind = kind /\ iRequests'[q].code = x
<1>1. iRequests'[q] = [kind |-> kind, pc |-> 1, method |-> method, code |-> x,
                      claims |-> Issuance!NoClaims]
  BY DEF Issuance!Begin, Shapes
<1>2. /\ iBarred'[q] = Issuance!Withdrawn(kind, method, iSubject)
      /\ iSeen'[q] = {Issuance!ClaimsOf(iSubject)}
      /\ iStanding' = iStanding /\ iSubject' = iSubject
  BY DEF Issuance!Begin, Shapes
<1>3. 1 \in 1..Len(Issuance!Program[kind]) /\ Before(kind, 1) = {}
  <2>1. Len(Issuance!Program[kind]) \in {21, 20, 4, 14, 5}
    <3>1. CASE kind = "authorize"
      BY <3>1, ProgramOf, AuthorizeSteps
    <3>2. CASE kind = "login"
      BY <3>2, ProgramOf, LoginSteps
    <3>3. CASE kind = "callback" \/ kind = "token"
      BY <3>3, ProgramOf, OtherSteps
    <3>4. CASE kind = "userinfo"
      BY <3>4, ProgramOf, OtherSteps
    <3> QED
      BY <3>1, <3>2, <3>3, <3>4, ProgramOf
  <2>2. 1 \in 1..Len(Issuance!Program[kind])
    <3>1. \A n \in {21, 20, 4, 14, 5} : 1 \in 1..n
      OBVIOUS
    <3> QED
      BY <2>1, <3>1, Zenon
  <2>3. 1..(1 - 1) = {}
    OBVIOUS
  <2> QED
    BY <2>2, <2>3 DEF Before
<1>4. RequestOk(q)'
  BY <1>1, <1>3 DEF RequestOk
<1>5. BarredOk(q)'
  <2>1. iBarred'[q] \subseteq Bars(kind, method)
    BY <1>2 DEF Issuance!Withdrawn, Bars
  <2>2. \A p \in iBarred'[q] \cap Issuance!Parts : ~iStanding[p]
    BY <1>2 DEF Issuance!Withdrawn, Issuance!Parts, Issuance!Methods
  <2>3. "subject" \in iBarred'[q] => ~Issuance!EligibleRow(iSubject)
    BY <1>2 DEF Issuance!Withdrawn, Issuance!Methods
  <2> QED
    BY <1>1, <1>2, <1>3, <2>1, <2>2, <2>3 DEF BarredOk, Issuance!EligibleRow
<1>6. SeenOk(q)'
  BY <1>1, <1>2, <1>3 DEF SeenOk, Issuance!ClaimsOf
<1> QED
  BY <1>1, <1>4, <1>5, <1>6 DEF RequestGood

-----------------------------------------------------------------------------
(* One lemma for each operation.                                           *)

\* Beginning a request, of whatever kind, leaves the other requests alone.
LEMMA BeginKeeps ==
    ASSUME NEW q \in Requests, NEW kind \in Kinds, NEW method \in Issuance!Methods,
           NEW x \in Codes,
           kind \in {"authorize", "login"} => method = "HAPI_EMAIL",
           kind = "callback" => method = "PRIVATEID_FACE",
           kind = "token" => iCodes[x] # Issuance!Unissued,
           \A y \in Codes : iCodes'[y] = iCodes[y] \/ (iCodes[y] # Issuance!Unissued
                /\ iCodes'[y] = [iCodes[y] EXCEPT !.state = "consumed"]),
           iCodes' = [y \in Codes |-> iCodes'[y]],
           JustifiedInv, Issuance!Begin(q, kind, method, x)
    PROVE  JustifiedInv'
<1>1. RequestGood(q)' /\ iRequests'[q].kind = kind /\ iRequests'[q].code = x
  BY GoodBeginning DEF JustifiedInv
<1>2. /\ iRequests' = [r \in Requests |-> iRequests'[r]]
      /\ iBarred' = [r \in Requests |-> iBarred'[r]] /\ iSeen' = [r \in Requests |-> iSeen'[r]]
      /\ iStanding' = iStanding /\ iSubject' = iSubject /\ iAnswered' = iAnswered
      /\ \A r \in Requests \ {q} :
            iRequests'[r] = iRequests[r] /\ iBarred'[r] = iBarred[r] /\ iSeen'[r] = iSeen[r]
  BY DEF JustifiedInv, Shapes, Issuance!Begin
<1>3. \A r \in Requests \ {q} : RequestGood(r)'
  BY <1>2, GoodKept DEF JustifiedInv, RequestsGood
<1>4. \A y \in Codes : iCodes[y] # Issuance!Unissued =>
         iCodes'[y] # Issuance!Unissued /\ iCodes'[y] = [state |-> iCodes'[y].state,
            method |-> iCodes[y].method, claims |-> iCodes[y].claims]
  BY DEF JustifiedInv, Shapes, Issuance!Unissued
<1>5. Shapes'
  <2>1. \A y \in Codes : iCodes'[y] # Issuance!Unissued =>
          /\ iCodes'[y] = [state |-> iCodes'[y].state, method |-> iCodes'[y].method,
                          claims |-> iCodes'[y].claims]
          /\ iCodes'[y].method \in Issuance!Methods
    <3> SUFFICES ASSUME NEW y \in Codes, iCodes'[y] # Issuance!Unissued
                 PROVE  /\ iCodes'[y] = [state |-> iCodes'[y].state,
                             method |-> iCodes'[y].method, claims |-> iCodes'[y].claims]
                        /\ iCodes'[y].method \in Issuance!Methods
      OBVIOUS
    <3>1. iCodes[y] # Issuance!Unissued
      OBVIOUS
    <3> QED
      BY <1>4, <3>1 DEF JustifiedInv, Shapes
  <2>2. \A r \in Requests : iRequests'[r] # Issuance!Idle /\ iRequests'[r].kind = "token" =>
          iCodes'[iRequests'[r].code] # Issuance!Unissued
    <3> SUFFICES ASSUME NEW r \in Requests, iRequests'[r] # Issuance!Idle,
                        iRequests'[r].kind = "token"
                 PROVE  iCodes'[iRequests'[r].code] # Issuance!Unissued
      OBVIOUS
    <3>1. CASE r = q
      BY <1>1, <1>4, <3>1
    <3>2. CASE r # q
      <4>1. iRequests'[r] = iRequests[r] /\ iRequests[r].code \in Codes
        BY <1>2, <3>2 DEF JustifiedInv, RequestsGood, RequestGood, RequestOk
      <4> QED
        BY <1>4, <4>1 DEF JustifiedInv, Shapes
    <3> QED
      BY <3>1, <3>2
  <2> QED
    BY <1>2, <2>1, <2>2 DEF Shapes, JustifiedInv
<1>6. Issuance!AnswersJustified'
  BY <1>2 DEF JustifiedInv, Issuance!AnswersJustified, Issuance!WithdrawnStaysOut,
     Issuance!ClaimsAreLive
<1> QED
  BY <1>1, <1>3, <1>5, <1>6 DEF JustifiedInv, RequestsGood

\* Any of the five endpoints may be called.
LEMMA BeginsJustified ==
    ASSUME JustifiedInv, NEW q \in Requests, NEW x \in Codes,
           Issuance!BeginAuthorize(q, x) \/ Issuance!BeginToken(q, x)
               \/ Issuance!BeginUserInfo(q, x)
    PROVE  JustifiedInv'
<1>1. iCodes = [y \in Codes |-> iCodes[y]]
  BY DEF JustifiedInv, Shapes
<1>2. CASE Issuance!BeginAuthorize(q, x)
  <2>1. iCodes' = iCodes
    BY <1>2 DEF Issuance!BeginAuthorize
  <2>2. ASSUME NEW kind \in {"authorize", "login"}, Issuance!Begin(q, kind, "HAPI_EMAIL", x)
        PROVE  JustifiedInv'
    <3>1. kind \in Kinds /\ kind # "token" /\ kind # "callback"
              /\ "HAPI_EMAIL" \in Issuance!Methods
      BY ProgramOf DEF Issuance!Methods
    <3> QED
      BY <1>1, <2>1, <2>2, <3>1, BeginKeeps
  <2>3. ASSUME Issuance!Begin(q, "callback", "PRIVATEID_FACE", x) PROVE JustifiedInv'
    <3>1. "callback" \in Kinds /\ "PRIVATEID_FACE" \in Issuance!Methods
      BY ProgramOf DEF Issuance!Methods
    <3> QED
      BY <1>1, <2>1, <2>3, <3>1, BeginKeeps
  <2> QED
    BY <1>2, <2>2, <2>3 DEF Issuance!BeginAuthorize
<1>3. CASE Issuance!BeginToken(q, x)
  <2>1. iCodes[x] # Issuance!Unissued /\ iCodes[x].method \in Issuance!Methods
    BY <1>3 DEF Issuance!BeginToken, JustifiedInv, Shapes, Issuance!Unissued
  <2>2. PICK method \in Issuance!Methods : method = iCodes[x].method
    BY <2>1
  <2>3. iCodes' = [iCodes EXCEPT ![x].state = "consumed"] /\ Issuance!Begin(q, "token", method, x)
    BY <1>3, <2>2 DEF Issuance!BeginToken
  <2>4. /\ iCodes' = [y \in Codes |-> iCodes'[y]]
        /\ \A y \in Codes : iCodes'[y] = iCodes[y] \/ (iCodes[y] # Issuance!Unissued
              /\ iCodes'[y] = [iCodes[y] EXCEPT !.state = "consumed"])
    BY <1>1, <2>1, <2>3
  <2>5. "token" \in Kinds
    BY ProgramOf
  <2> QED
    BY <2>1, <2>3, <2>4, <2>5, BeginKeeps
<1>4. CASE Issuance!BeginUserInfo(q, x)
  <2>1. iCodes[x] # Issuance!Unissued /\ iCodes[x].method \in Issuance!Methods
    BY <1>4 DEF Issuance!BeginUserInfo, JustifiedInv, Shapes, Issuance!Unissued
  <2>2. PICK method \in Issuance!Methods : method = iCodes[x].method
    BY <2>1
  <2>3. iCodes' = iCodes /\ Issuance!Begin(q, "userinfo", method, x) /\ "userinfo" \in Kinds
    BY <1>4, <2>2, ProgramOf DEF Issuance!BeginUserInfo
  <2> QED
    BY <1>1, <2>3, BeginKeeps
<1> QED
  BY <1>2, <1>3, <1>4

\* A request that passes a step, with what that step read, and changes no code.
LEMMA AdvanceKeeps ==
    ASSUME JustifiedInv, NEW q \in Requests, iRequests[q] # Issuance!Idle, At(q) \notin Answers,
           Looked(At(q), iRequests[q].method) \cap iBarred[q] = {},
           iRequests' = [iRequests EXCEPT ![q] = iRequests'[q]],
           iRequests'[q] = [kind |-> iRequests[q].kind, pc |-> iRequests[q].pc + 1,
                           method |-> iRequests[q].method, code |-> iRequests[q].code,
                           claims |-> iRequests'[q].claims],
           At(q) = "claims" => iRequests'[q].claims = Issuance!ClaimsOf(iSubject),
           At(q) # "claims" => iRequests'[q].claims = iRequests[q].claims,
           UNCHANGED <<iStanding, iSubject, iCodes, iBarred, iSeen, iAnswered>>
    PROVE  JustifiedInv'
<1>1. RequestGood(q)'
  <2>1. PICK c : c = iRequests'[q].claims
    OBVIOUS
  <2>2. Issuance!ClaimsOf(iSubject) \in iSeen[q]
    BY DEF JustifiedInv, RequestsGood, RequestGood, SeenOk
  <2>3. RequestGood(q)
    BY DEF JustifiedInv, RequestsGood
  <2>4. iBarred'[q] = iBarred[q] /\ iSeen'[q] = iSeen[q] /\ iStanding' = iStanding
        /\ iSubject' = iSubject
    OBVIOUS
  <2>5. At(q) = "claims" => c \in iSeen[q]
    BY <2>1, <2>2
  <2>6. At(q) # "claims" => c = iRequests[q].claims
    BY <2>1
  <2>7. iRequests'[q] = [kind |-> iRequests[q].kind, pc |-> iRequests[q].pc + 1,
                        method |-> iRequests[q].method, code |-> iRequests[q].code,
                        claims |-> c]
    BY <2>1
  <2> QED
    BY <2>3, <2>4, <2>5, <2>6, <2>7, GoodPassing
<1>2. /\ iRequests' = [r \in Requests |-> iRequests'[r]]
      /\ \A r \in Requests \ {q} : iRequests'[r] = iRequests[r]
  BY DEF JustifiedInv, Shapes
<1>3. \A r \in Requests \ {q} : RequestGood(r)'
  BY <1>2, GoodKept DEF JustifiedInv, RequestsGood
<1>4. Shapes'
  <2>1. /\ iRequests'[q].kind = iRequests[q].kind /\ iRequests'[q].code = iRequests[q].code
    OBVIOUS
  <2>2. \A r \in Requests : iRequests'[r] # Issuance!Idle /\ iRequests'[r].kind = "token" =>
          iCodes[iRequests'[r].code] # Issuance!Unissued
    BY <1>2, <2>1 DEF JustifiedInv, Shapes
  <2> QED
    BY <1>2, <2>2 DEF JustifiedInv, Shapes
<1>5. Issuance!AnswersJustified'
  BY DEF JustifiedInv, Issuance!AnswersJustified, Issuance!WithdrawnStaysOut,
     Issuance!ClaimsAreLive
<1> QED
  BY <1>1, <1>3, <1>4, <1>5 DEF JustifiedInv, RequestsGood

\* What a read finds standing does not bar the request.
LEMMA ChecksJustified ==
    ASSUME JustifiedInv, NEW q \in Requests, Issuance!Check(q)
    PROVE  JustifiedInv'
<1>1. iRequests[q] # Issuance!Idle /\ Issuance!Step(q) = At(q) /\ At(q) \in Issuance!Checks
          /\ Issuance!Holds(q)
  BY DEF Issuance!Check, Issuance!Step, At, Issuance!Checks
<1>2. /\ At(q) \notin Answers /\ At(q) # "claims"
  BY <1>1 DEF Issuance!Checks, Answers
<1>3. RequestOk(q) /\ BarredOk(q)
  BY <1>1 DEF JustifiedInv, RequestsGood, RequestGood
<1>4. Looked(At(q), iRequests[q].method) \cap iBarred[q] = {}
  <2>1. CASE At(q) \in {"client", "redirect", "application", "tenant"}
    <3>1. iStanding[At(q)] /\ At(q) \in Issuance!Parts
      BY <1>1, <2>1 DEF Issuance!Holds, Issuance!Parts
    <3> QED
      BY <1>3, <2>1, <3>1 DEF Looked, BarredOk
  <2>2. CASE At(q) = "allowed"
    <3>1. iStanding["application"] /\ iStanding[iRequests[q].method]
      BY <1>1, <2>2 DEF Issuance!Holds, Issuance!Method
    <3>2. "application" \in Issuance!Parts /\ iRequests[q].method \in Issuance!Parts
      BY <1>3 DEF Issuance!Parts, RequestOk
    <3> QED
      BY <1>3, <2>2, <3>1, <3>2 DEF Looked, BarredOk
  <2>3. CASE At(q) \in {"principal", "subject"}
    <3>1. Looked(At(q), iRequests[q].method) = {"subject"}
      BY <2>3 DEF Looked
    <3>2. iRequests[q].method = "HAPI_EMAIL" => Issuance!EligibleRow(iSubject)
      BY <1>1, <2>3 DEF Issuance!Holds, Issuance!Eligible, Issuance!Method
    <3>3. iRequests[q].method # "HAPI_EMAIL" => "subject" \notin iBarred[q]
      BY <1>3 DEF BarredOk, Bars, RequestOk, Issuance!Methods
    <3> QED
      BY <1>3, <3>1, <3>2, <3>3 DEF BarredOk
  <2> QED
    BY <1>1, <2>1, <2>2, <2>3 DEF Looked
<1>5. iRequests' = [iRequests EXCEPT ![q].pc = @ + 1]
  BY DEF Issuance!Check, Issuance!Advance
<1>6. /\ iRequests' = [iRequests EXCEPT ![q] = iRequests'[q]]
      /\ iRequests'[q] = [kind |-> iRequests[q].kind, pc |-> iRequests[q].pc + 1,
                         method |-> iRequests[q].method, code |-> iRequests[q].code,
                         claims |-> iRequests'[q].claims]
      /\ iRequests'[q].claims = iRequests[q].claims
  BY <1>3, <1>5 DEF RequestOk, JustifiedInv, Shapes
<1> QED
  BY <1>1, <1>2, <1>4, <1>6, AdvanceKeeps DEF Issuance!Check

\* The claims that are read are the registry's.
LEMMA ReadsJustified ==
    ASSUME JustifiedInv, NEW q \in Requests, Issuance!Claims(q) \/ Issuance!Store(q)
    PROVE  JustifiedInv'
<1>1. /\ iRequests[q] # Issuance!Idle /\ Issuance!Step(q) = At(q)
      /\ At(q) \in {"claims", "access", "refresh"}
  BY DEF Issuance!Claims, Issuance!Store, Issuance!Step, At
<1>2. At(q) \notin Answers /\ Looked(At(q), iRequests[q].method) = {}
  BY <1>1 DEF Answers, Looked
<1>3. RequestOk(q)
  BY <1>1 DEF JustifiedInv, RequestsGood, RequestGood
<1>4. CASE Issuance!Claims(q)
  <2>1. At(q) = "claims"
    BY <1>1, <1>4 DEF Issuance!Claims
  <2>2. iRequests' = [iRequests EXCEPT ![q].claims = Issuance!ClaimsOf(iSubject), ![q].pc = @ + 1]
    BY <1>4 DEF Issuance!Claims, Issuance!CurrentClaims
  <2>3. /\ iRequests' = [iRequests EXCEPT ![q] = iRequests'[q]]
        /\ iRequests'[q] = [kind |-> iRequests[q].kind, pc |-> iRequests[q].pc + 1,
                           method |-> iRequests[q].method, code |-> iRequests[q].code,
                           claims |-> iRequests'[q].claims]
        /\ iRequests'[q].claims = Issuance!ClaimsOf(iSubject)
    BY <1>3, <2>2 DEF RequestOk, JustifiedInv, Shapes
  <2> QED
    BY <1>1, <1>2, <1>4, <2>1, <2>3, AdvanceKeeps DEF Issuance!Claims
<1>5. CASE Issuance!Store(q)
  <2>1. At(q) # "claims"
    BY <1>1, <1>5 DEF Issuance!Store
  <2>2. iRequests' = [iRequests EXCEPT ![q].pc = @ + 1]
    BY <1>5 DEF Issuance!Store, Issuance!Advance
  <2>3. /\ iRequests' = [iRequests EXCEPT ![q] = iRequests'[q]]
        /\ iRequests'[q] = [kind |-> iRequests[q].kind, pc |-> iRequests[q].pc + 1,
                           method |-> iRequests[q].method, code |-> iRequests[q].code,
                           claims |-> iRequests'[q].claims]
        /\ iRequests'[q].claims = iRequests[q].claims
    BY <1>3, <2>2 DEF RequestOk, JustifiedInv, Shapes
  <2> QED
    BY <1>1, <1>2, <1>5, <2>1, <2>3, AdvanceKeeps DEF Issuance!Store
<1> QED
  BY <1>4, <1>5

\* Only POST /token signs.
LEMMA OnlyTokenSigns ==
    ASSUME NEW kind \in Kinds, NEW pc \in 1..Len(Issuance!Program[kind]),
           Issuance!Program[kind][pc] = "sign"
    PROVE  kind = "token"
<1>1. Issuance!Program[kind][Len(Issuance!Program[kind])] = "sign"
  BY AnswersLast DEF Answers
<1>2. kind # "authorize"
  BY <1>1, ProgramOf, AuthorizeSteps
<1>3. kind # "login"
  BY <1>1, ProgramOf, LoginSteps
<1>4. kind # "callback" /\ kind # "userinfo"
  BY <1>1, ProgramOf, OtherSteps
<1> QED
  BY <1>2, <1>3, <1>4, ProgramOf

\* The request that answers with a code or with tokens is barred by nothing.
LEMMA NothingBars ==
    ASSUME JustifiedInv, NEW q \in Requests, iRequests[q] # Issuance!Idle,
           At(q) \in {"code", "sign"}
    PROVE  iBarred[q] = {}
<1>1. RequestOk(q) /\ BarredOk(q)
  BY DEF JustifiedInv, RequestsGood, RequestGood
<1>2. \A b \in Bars(iRequests[q].kind, iRequests[q].method) :
         \E step \in Before(iRequests[q].kind, iRequests[q].pc) :
            b \in Looked(step, iRequests[q].method)
  <2>1. PICK kind \in Kinds : kind = iRequests[q].kind
    BY <1>1 DEF RequestOk
  <2>2. PICK pc \in 1..Len(Issuance!Program[kind]) : pc = iRequests[q].pc
    BY <1>1, <2>1 DEF RequestOk
  <2>3. PICK method \in Issuance!Methods : method = iRequests[q].method
    BY <1>1 DEF RequestOk
  <2>4. /\ kind \in {"authorize", "login"} => method = "HAPI_EMAIL"
        /\ kind = "callback" => method = "PRIVATEID_FACE"
        /\ Issuance!Program[kind][pc] \in {"code", "sign"}
    BY <1>1, <2>1, <2>2, <2>3 DEF RequestOk, At
  <2> QED
    BY <2>1, <2>2, <2>3, <2>4, AnswersLookedAt
<1>3. ASSUME NEW b \in iBarred[q] PROVE FALSE
  <2>1. PICK step \in Before(iRequests[q].kind, iRequests[q].pc) :
            b \in Looked(step, iRequests[q].method)
    BY <1>1, <1>2 DEF BarredOk
  <2> QED
    BY <1>1, <2>1 DEF BarredOk
<1> QED
  BY <1>3

\* What POST /token signs and /userinfo sends was among the claims seen.
LEMMA AnswersLive ==
    ASSUME JustifiedInv, NEW q \in Requests, iRequests[q] # Issuance!Idle,
           At(q) \in {"sign", "answer"}
    PROVE  iRequests[q].claims \in iSeen[q]
<1>1. RequestOk(q) /\ SeenOk(q)
  BY DEF JustifiedInv, RequestsGood, RequestGood
<1>2. "claims" \in Before(iRequests[q].kind, iRequests[q].pc)
  <2>1. PICK kind \in Kinds : kind = iRequests[q].kind
    BY <1>1 DEF RequestOk
  <2>2. PICK pc \in 1..Len(Issuance!Program[kind]) : pc = iRequests[q].pc
    BY <1>1, <2>1 DEF RequestOk
  <2>3. PICK method \in Issuance!Methods : method = iRequests[q].method
    BY <1>1 DEF RequestOk
  <2>4. /\ kind \in {"authorize", "login"} => method = "HAPI_EMAIL"
        /\ kind = "callback" => method = "PRIVATEID_FACE"
        /\ Issuance!Program[kind][pc] \in {"sign", "answer"}
    BY <1>1, <2>1, <2>2, <2>3 DEF RequestOk, At
  <2> QED
    BY <2>1, <2>2, <2>3, <2>4, AnswersLookedAt
<1> QED
  BY <1>1, <1>2 DEF SeenOk

\* A request that ends leaves the others alone; no code becomes unissued.
LEMMA EndKeeps ==
    ASSUME JustifiedInv, NEW q \in Requests, Issuance!Answer(q),
           UNCHANGED <<iStanding, iSubject, iBarred, iSeen>>,
           iCodes' = [x \in Codes |-> iCodes'[x]],
           \A x \in Codes : iCodes'[x] # Issuance!Unissued =>
              /\ iCodes'[x] = [state |-> iCodes'[x].state, method |-> iCodes'[x].method,
                              claims |-> iCodes'[x].claims]
              /\ iCodes'[x].method \in Issuance!Methods,
           \A x \in Codes : iCodes[x] # Issuance!Unissued => iCodes'[x] # Issuance!Unissued,
           \A a \in iAnswered' \ iAnswered : a.barred = {} /\ a.live
    PROVE  JustifiedInv'
<1>1. iRequests' = [iRequests EXCEPT ![q] = Issuance!Idle]
  BY DEF Issuance!Answer
<1>2. /\ iRequests' = [r \in Requests |-> iRequests'[r]]
      /\ iRequests'[q] = Issuance!Idle
      /\ \A r \in Requests \ {q} : iRequests'[r] = iRequests[r]
  BY <1>1 DEF JustifiedInv, Shapes
<1>3. RequestGood(q)'
  BY <1>2 DEF RequestGood, Issuance!Idle
<1>4. \A r \in Requests \ {q} : RequestGood(r)'
  BY <1>2, GoodKept DEF JustifiedInv, RequestsGood
<1>5. \A r \in Requests : iRequests'[r] # Issuance!Idle /\ iRequests'[r].kind = "token" =>
        iCodes'[iRequests'[r].code] # Issuance!Unissued
  <2> SUFFICES ASSUME NEW r \in Requests, iRequests'[r] # Issuance!Idle,
                          iRequests'[r].kind = "token"
               PROVE  iCodes'[iRequests'[r].code] # Issuance!Unissued
    OBVIOUS
  <2>1. iRequests'[r] = iRequests[r] /\ iRequests[r].code \in Codes
    BY <1>2 DEF JustifiedInv, RequestsGood, RequestGood, RequestOk
  <2>2. iCodes[iRequests[r].code] # Issuance!Unissued
    BY <2>1 DEF JustifiedInv, Shapes
  <2> QED
    BY <2>1, <2>2
<1>6. Shapes'
  BY <1>2, <1>5 DEF Shapes, JustifiedInv
<1>7. Issuance!AnswersJustified'
  BY DEF JustifiedInv, Issuance!AnswersJustified, Issuance!WithdrawnStaysOut,
     Issuance!ClaimsAreLive
<1> QED
  BY <1>3, <1>4, <1>6, <1>7 DEF JustifiedInv, RequestsGood

\* A refusal, and the death of a request, answer nothing.
LEMMA RefusalsJustified ==
    ASSUME JustifiedInv, NEW q \in Requests, Issuance!Refuse(q) \/ Issuance!Crash(q)
    PROVE  JustifiedInv'
<1>1. Issuance!Answer(q) /\ UNCHANGED <<iStanding, iSubject, iCodes, iBarred, iSeen, iAnswered>>
  BY DEF Issuance!Refuse, Issuance!Crash
<1> QED
  BY <1>1, EndKeeps DEF JustifiedInv, Shapes

\* A code is issued to a request that nothing bars.
LEMMA CodesJustified ==
    ASSUME JustifiedInv, NEW q \in Requests, Issuance!IssueCode(q)
    PROVE  JustifiedInv'
<1>1. iRequests[q] # Issuance!Idle /\ At(q) = "code"
  BY DEF Issuance!IssueCode, Issuance!Step, At
<1>2. iBarred[q] = {} /\ RequestOk(q) /\ Issuance!ClaimsOf(iSubject) \in iSeen[q]
  BY <1>1, NothingBars DEF JustifiedInv, RequestsGood, RequestGood, SeenOk
<1>3. \A a \in iAnswered' \ iAnswered : a.barred = {} /\ a.live
  <2>1. (Issuance!ClaimsOf(iSubject) \in iSeen[q]) = TRUE
    BY <1>2, Zenon
  <2>2. iAnswered' = iAnswered \cup
            {[kind |-> iRequests[q].kind, barred |-> iBarred[q], live |-> TRUE]}
    BY <2>1, Zenon DEF Issuance!IssueCode, Issuance!Record
  <2> QED
    BY <1>2, <2>2
<1>4. iCodes' = [iCodes EXCEPT ![iRequests[q].code] =
            [state |-> "issued", method |-> iRequests[q].method,
                claims |-> Issuance!ClaimsOf(iSubject)]]
  BY DEF Issuance!IssueCode, Issuance!Method
<1>5. iCodes = [x \in Codes |-> iCodes[x]]
  BY DEF JustifiedInv, Shapes
<1>6. ASSUME NEW x \in Codes
      PROVE  \/ iCodes'[x] = iCodes[x]
             \/ iCodes'[x] = [state |-> "issued", method |-> iRequests[q].method,
                             claims |-> Issuance!ClaimsOf(iSubject)]
  BY <1>4, <1>5
<1>7. ASSUME NEW x \in Codes
      PROVE  /\ iCodes'[x] # Issuance!Unissued =>
                  /\ iCodes'[x] = [state |-> iCodes'[x].state, method |-> iCodes'[x].method,
                                  claims |-> iCodes'[x].claims]
                  /\ iCodes'[x].method \in Issuance!Methods
             /\ iCodes[x] # Issuance!Unissued => iCodes'[x] # Issuance!Unissued
  BY <1>2, <1>6 DEF JustifiedInv, Shapes, RequestOk, Issuance!Unissued
<1>8. iCodes' = [x \in Codes |-> iCodes'[x]]
  BY <1>4, <1>5
<1>9. Issuance!Answer(q) /\ UNCHANGED <<iStanding, iSubject, iBarred, iSeen>>
  BY DEF Issuance!IssueCode
<1> QED
  BY <1>3, <1>7, <1>8, <1>9, EndKeeps

\* Tokens are signed for a request that nothing bars, with claims it has seen.
LEMMA SignsJustified ==
    ASSUME JustifiedInv, NEW q \in Requests, Issuance!Sign(q)
    PROVE  JustifiedInv'
<1>1. iRequests[q] # Issuance!Idle /\ At(q) = "sign"
  BY DEF Issuance!Sign, Issuance!Step, At
<1>2. iBarred[q] = {} /\ RequestOk(q) /\ iRequests[q].claims \in iSeen[q]
  BY <1>1, NothingBars, AnswersLive DEF JustifiedInv, RequestsGood, RequestGood
<1>3. \A a \in iAnswered' \ iAnswered : a.barred = {} /\ a.live
  <2>1. (iRequests[q].claims \in iSeen[q]) = TRUE
    BY <1>2, Zenon
  <2>2. iAnswered' = iAnswered \cup
            {[kind |-> iRequests[q].kind, barred |-> iBarred[q], live |-> TRUE]}
    BY <2>1, Zenon DEF Issuance!Sign, Issuance!Record
  <2> QED
    BY <1>2, <2>2
<1>4. iRequests[q].kind = "token"
  BY <1>1, <1>2, OnlyTokenSigns DEF RequestOk, At
<1>5. /\ iCodes = [x \in Codes |-> iCodes[x]]
      /\ iCodes[iRequests[q].code] # Issuance!Unissued
  BY <1>1, <1>4 DEF JustifiedInv, Shapes
<1>6. iCodes' = [iCodes EXCEPT ![iRequests[q].code].state = "answered"]
  BY DEF Issuance!Sign
<1>7. ASSUME NEW x \in Codes, iCodes'[x] # iCodes[x]
      PROVE  /\ iCodes[x] # Issuance!Unissued
             /\ iCodes'[x] = [iCodes[x] EXCEPT !.state = "answered"]
  BY <1>5, <1>6, <1>7
<1>8. ASSUME NEW x \in Codes, iCodes[x] # Issuance!Unissued
      PROVE  iCodes'[x] # Issuance!Unissued
  <2>1. CASE iCodes'[x] = iCodes[x]
    BY <1>8, <2>1
  <2>2. CASE iCodes'[x] # iCodes[x]
    <3>1. iCodes[x] = [state |-> iCodes[x].state, method |-> iCodes[x].method,
                      claims |-> iCodes[x].claims]
      BY <1>8 DEF JustifiedInv, Shapes
    <3>2. iCodes'[x] = [iCodes[x] EXCEPT !.state = "answered"]
      BY <1>7, <2>2
    <3>3. iCodes'[x].state = "answered"
      BY <3>1, <3>2
    <3> QED
      BY <3>3 DEF Issuance!Unissued
  <2> QED
    BY <2>1, <2>2
<1>9. ASSUME NEW x \in Codes, iCodes'[x] # Issuance!Unissued
      PROVE  /\ iCodes'[x] = [state |-> iCodes'[x].state, method |-> iCodes'[x].method,
                             claims |-> iCodes'[x].claims]
             /\ iCodes'[x].method \in Issuance!Methods
  BY <1>7, <1>9 DEF JustifiedInv, Shapes, Issuance!Unissued
<1>10. iCodes' = [x \in Codes |-> iCodes'[x]]
  BY <1>5, <1>6
<1>11. Issuance!Answer(q) /\ UNCHANGED <<iStanding, iSubject, iBarred, iSeen>>
  BY DEF Issuance!Sign
<1> QED
  BY <1>3, <1>8, <1>9, <1>10, <1>11, EndKeeps

\* So does /userinfo answer with claims it has seen.
LEMMA UserInfoJustified ==
    ASSUME JustifiedInv, NEW q \in Requests, Issuance!AnswerUserInfo(q)
    PROVE  JustifiedInv'
<1>1. iRequests[q] # Issuance!Idle /\ At(q) = "answer"
  BY DEF Issuance!AnswerUserInfo, Issuance!Step, At
<1>2. iRequests[q].claims \in iSeen[q]
  BY <1>1, AnswersLive
<1>3. \A a \in iAnswered' \ iAnswered : a.barred = {} /\ a.live
  <2>1. (iRequests[q].claims \in iSeen[q]) = TRUE
    BY <1>2, Zenon
  <2>2. iAnswered' = iAnswered \cup {[kind |-> "userinfo", barred |-> {}, live |-> TRUE]}
    BY <2>1, Zenon DEF Issuance!AnswerUserInfo
  <2> QED
    BY <2>2
<1>4. Issuance!Answer(q) /\ UNCHANGED <<iStanding, iSubject, iCodes, iBarred, iSeen>>
  BY DEF Issuance!AnswerUserInfo
<1> QED
  BY <1>3, <1>4, EndKeeps DEF JustifiedInv, Shapes

\* What becomes active again bars no request any more.
LEMMA ChangesJustified ==
    ASSUME JustifiedInv, NEW p \in Issuance!Parts, Issuance!Change(p)
    PROVE  JustifiedInv'
<1>1. /\ iStanding' = [iStanding EXCEPT ![p] = ~@]
      /\ UNCHANGED <<iSubject, iCodes, iRequests, iSeen, iAnswered>>
  BY DEF Issuance!Change
<1>2. \A r \in Requests :
         /\ iBarred'[r] \subseteq iBarred[r]
         /\ p \in iBarred'[r] => ~iStanding'[p] \/ iStanding[p]
  BY <1>1 DEF Issuance!Change, JustifiedInv, Shapes
<1>3. \A b \in Issuance!Parts \ {p} : iStanding'[b] = iStanding[b]
  BY <1>1 DEF JustifiedInv, Shapes
<1>4. ASSUME NEW r \in Requests PROVE RequestGood(r)'
  <2> SUFFICES ASSUME iRequests[r] # Issuance!Idle
               PROVE  RequestOk(r)' /\ BarredOk(r)' /\ SeenOk(r)'
    BY <1>1 DEF RequestGood
  <2>1. RequestOk(r) /\ BarredOk(r) /\ SeenOk(r)
    BY DEF JustifiedInv, RequestsGood, RequestGood
  <2>2. RequestOk(r)' /\ SeenOk(r)'
    BY <1>1, <2>1 DEF RequestOk, SeenOk, Issuance!ClaimsOf
  <2>3. \A b \in iBarred'[r] \cap Issuance!Parts : ~iStanding'[b]
    <3> SUFFICES ASSUME NEW b \in iBarred'[r] \cap Issuance!Parts PROVE ~iStanding'[b]
      OBVIOUS
    <3>1. ~iStanding[b]
      BY <1>2, <2>1 DEF BarredOk
    <3> QED
      BY <1>2, <1>3, <3>1
  <2>4. BarredOk(r)'
    BY <1>1, <1>2, <2>1, <2>3 DEF BarredOk, Issuance!EligibleRow
  <2> QED
    BY <2>2, <2>4
<1>5. Shapes'
  <2>1. iStanding' \in [Issuance!Parts -> BOOLEAN]
    BY <1>1 DEF JustifiedInv, Shapes
  <2>2. iBarred' = [r \in Requests |-> iBarred'[r]]
    BY DEF Issuance!Change, JustifiedInv, Shapes
  <2> QED
    BY <1>1, <2>1, <2>2 DEF JustifiedInv, Shapes
<1>6. Issuance!AnswersJustified'
  BY <1>1 DEF JustifiedInv, Issuance!AnswersJustified, Issuance!WithdrawnStaysOut,
     Issuance!ClaimsAreLive
<1> QED
  BY <1>4, <1>5, <1>6 DEF JustifiedInv, RequestsGood

\* The subject's new claims are seen by every request that is being served.
LEMMA SubjectChangesJustified ==
    ASSUME JustifiedInv, Issuance!ChangeSubject
    PROVE  JustifiedInv'
<1>1. /\ iSeen' = [q \in Requests |-> IF iRequests[q] = Issuance!Idle THEN iSeen[q]
                                   ELSE iSeen[q] \cup {Issuance!ClaimsOf(iSubject')}]
      /\ iBarred' = IF Issuance!EligibleRow(iSubject')
                   THEN [q \in Requests |-> iBarred[q] \ {"subject"}] ELSE iBarred
      /\ UNCHANGED <<iStanding, iCodes, iRequests, iAnswered>>
  BY DEF Issuance!ChangeSubject
<1>2. ASSUME NEW r \in Requests PROVE RequestGood(r)'
  <2> SUFFICES ASSUME iRequests[r] # Issuance!Idle
               PROVE  RequestOk(r)' /\ BarredOk(r)' /\ SeenOk(r)'
    BY <1>1 DEF RequestGood
  <2>1. RequestOk(r) /\ BarredOk(r) /\ SeenOk(r)
    BY DEF JustifiedInv, RequestsGood, RequestGood
  <2>2. RequestOk(r)'
    BY <1>1, <2>1 DEF RequestOk
  <2>3. iSeen'[r] = iSeen[r] \cup {Issuance!ClaimsOf(iSubject)'}
    BY <1>1 DEF Issuance!ClaimsOf
  <2>4. SeenOk(r)'
    BY <1>1, <2>1, <2>3 DEF SeenOk
  <2>5. /\ iBarred'[r] \subseteq iBarred[r]
        /\ "subject" \in iBarred'[r] => ~Issuance!EligibleRow(iSubject)'
    BY <1>1 DEF Issuance!EligibleRow
  <2>6. BarredOk(r)'
    BY <1>1, <2>1, <2>5 DEF BarredOk
  <2> QED
    BY <2>2, <2>4, <2>6
<1>3. Shapes'
  <2>1. iBarred' = [r \in Requests |-> iBarred'[r]] /\ iSeen' = [r \in Requests |-> iSeen'[r]]
    BY <1>1 DEF JustifiedInv, Shapes
  <2> QED
    BY <1>1, <2>1 DEF JustifiedInv, Shapes
<1>4. Issuance!AnswersJustified'
  BY <1>1 DEF JustifiedInv, Issuance!AnswersJustified, Issuance!WithdrawnStaysOut,
     Issuance!ClaimsAreLive
<1> QED
  BY <1>2, <1>3, <1>4 DEF JustifiedInv, RequestsGood

\* What leaves standing, subject, codes, requests and answers alone.
LEMMA NothingChanges ==
    ASSUME JustifiedInv,
           UNCHANGED <<iStanding, iSubject, iCodes, iRequests, iBarred, iSeen, iAnswered>>
    PROVE  JustifiedInv'
<1>1. \A r \in Requests : RequestGood(r)'
  BY GoodKept DEF JustifiedInv, RequestsGood
<1>2. Shapes'
  BY DEF JustifiedInv, Shapes
<1>3. Issuance!AnswersJustified'
  BY DEF JustifiedInv, Issuance!AnswersJustified, Issuance!WithdrawnStaysOut,
     Issuance!ClaimsAreLive
<1> QED
  BY <1>1, <1>2, <1>3 DEF JustifiedInv, RequestsGood

\* Every step keeps it.
LEMMA JustifiedStep == JustifiedInv /\ [Issuance!Next]_Issuance!vars => JustifiedInv'
<1> SUFFICES ASSUME JustifiedInv, [Issuance!Next]_Issuance!vars PROVE JustifiedInv'
  OBVIOUS
<1>1. ASSUME NEW q \in Requests, NEW x \in Codes,
             Issuance!BeginAuthorize(q, x) \/ Issuance!BeginToken(q, x)
                 \/ Issuance!BeginUserInfo(q, x)
      PROVE  JustifiedInv'
  BY <1>1, BeginsJustified
<1>2. ASSUME NEW q \in Requests, Issuance!Check(q) PROVE JustifiedInv'
  BY <1>2, ChecksJustified
<1>3. ASSUME NEW q \in Requests, Issuance!Refuse(q) \/ Issuance!Crash(q) PROVE JustifiedInv'
  BY <1>3, RefusalsJustified
<1>4. ASSUME NEW q \in Requests, Issuance!IssueCode(q) PROVE JustifiedInv'
  BY <1>4, CodesJustified
<1>5. ASSUME NEW q \in Requests, Issuance!Claims(q) \/ Issuance!Store(q) PROVE JustifiedInv'
  BY <1>5, ReadsJustified
<1>6. ASSUME NEW q \in Requests, Issuance!Sign(q) PROVE JustifiedInv'
  BY <1>6, SignsJustified
<1>7. ASSUME NEW q \in Requests, Issuance!AnswerUserInfo(q) PROVE JustifiedInv'
  BY <1>7, UserInfoJustified
<1>8. CASE Issuance!ExpireToken
  BY <1>8, NothingChanges DEF Issuance!ExpireToken
<1>9. ASSUME NEW p \in Issuance!Parts, Issuance!Change(p) PROVE JustifiedInv'
  BY <1>9, ChangesJustified
<1>10. CASE Issuance!ChangeSubject
  BY <1>10, SubjectChangesJustified
<1>11. CASE UNCHANGED Issuance!vars
  BY <1>11, NothingChanges DEF Issuance!vars
<1> QED
  BY <1>1, <1>2, <1>3, <1>4, <1>5, <1>6, <1>7, <1>8, <1>9, <1>10, <1>11 DEF Issuance!Next

-----------------------------------------------------------------------------
(* The seed of a start                                                     *)

\* A start under way, the rows of its tables, and the registry of them.
Seeding == [step : {"SCHEMA", "TENANT", "READ", "APPLICATION", "CLIENT", "BACKFILL", "MIGRATE"},
            conf : Configurations, read : Startup!Statuses, quiet : BOOLEAN, calm : BOOLEAN]
Applications == {Startup!Absent} \cup [status : Startup!Statuses, face : BOOLEAN]
Clients == {Startup!Absent} \cup [status : Startup!Statuses, conf : Configurations]
Registries ==
    [tenant : {"absent"} \cup Startup!Statuses, application : Applications, client : Clients,
     filed : [Members -> {"absent", "null", "seeded"}],
     mirror : [Accounts -> Members \cup {"none"}], audits : [Accounts -> Nat]]

\* The types of the seed.
StartupTypes ==
    /\ sInstalled \in BOOLEAN /\ sLinks \in [Accounts -> Members \cup {"none"}]
    /\ sRegistry \in Registries
    /\ sStarts \in [Processes -> {Startup!Down, Startup!Up} \cup Seeding]
    /\ sDecided \in [application : Startup!Statuses, client : Startup!Statuses]
    /\ sCrossed \in BOOLEAN /\ sSettled \in Configurations \cup {"no"}

\* The status that a row has for administrators, who found it active.
Standing(row) == IF row.status = "absent" THEN "active" ELSE row.status

\* The writes of a seed, as they stand in registry r.
HasTenant(r) == r.tenant = "active"
HasApplication(r) == r.application.status # "absent" /\ r.application.face = FALSE
HasClient(r, c) == c # "none" => r.client.status # "absent" /\ r.client.conf = c
HasFiled(r) == \A s \in Members : r.filed[s] # "null"
Seeded(r, l, c) ==
    HasTenant(r) /\ HasApplication(r) /\ HasClient(r, c) /\ HasFiled(r) /\ r.mirror = l

\* Start s is about to write the status that the application has.
ReadsNow(r, s) == s.step = "APPLICATION" => s.read = Standing(r.application)

\* What start s wrote stands.
Stands(r, s) ==
    /\ s.step \in {"READ", "APPLICATION", "CLIENT", "BACKFILL", "MIGRATE"} => HasTenant(r)
    /\ s.step \in {"CLIENT", "BACKFILL", "MIGRATE"} => HasApplication(r)
    /\ s.step \in {"BACKFILL", "MIGRATE"} => HasClient(r, s.conf)
    /\ s.step = "MIGRATE" => HasFiled(r)

\* While nothing disturbs it, what a start wrote stands; a calm one finds all in place.
StartGood(r, l, i, s) ==
    s.step \notin {"DOWN", "UP"} =>
        /\ s.quiet => Stands(r, s) /\ ReadsNow(r, s)
        /\ s.calm => i /\ Seeded(r, l, s.conf) /\ ReadsNow(r, s)

\* The inductive invariant of the seed.
StartupInv ==
    /\ StartupTypes /\ Startup!AuditedOnce
    /\ \A a \in Accounts : sRegistry.mirror[a] \in {"none", sLinks[a]}
    /\ sDecided.client = Standing(sRegistry.client)
    /\ ~sCrossed => sDecided.application = Standing(sRegistry.application)
    /\ sRegistry.application.status = "absent" => sDecided.application = "active"
    /\ ~sCrossed => \A p \in Processes :
            sStarts[p].step = "APPLICATION" => sStarts[p].read = sDecided.application
    /\ \A p \in Processes : StartGood(sRegistry, sLinks, sInstalled, sStarts[p])
    /\ sSettled # "no" => sInstalled /\ Seeded(sRegistry, sLinks, sSettled)

\* The schema is not there yet, and nothing has been written.
LEMMA StartupInit == Startup!Init => StartupInv
<1> SUFFICES ASSUME Startup!Init PROVE StartupInv
  OBVIOUS
<1> USE StartupAssumption DEF Startup!Init
<1>1. StartupTypes
  BY DEF StartupTypes, Registries, Applications, Clients, Startup!Statuses
<1>2. Startup!AuditedOnce
  BY DEF Startup!AuditedOnce
<1> QED
  BY <1>1, <1>2 DEF StartupInv, StartGood, Standing, Startup!Absent, Startup!Down

\* A row that is not there is one whose status says so.
LEMMA AbsentByStatus ==
    /\ \A x \in Applications \cup Clients : x = Startup!Absent <=> x.status = "absent"
    /\ \A s \in {Startup!Down, Startup!Up} \cup Seeding : s \in {Startup!Down, Startup!Up} <=>
           s.step \in {"DOWN", "UP"}
    /\ \A s \in {Startup!Down, Startup!Up} \cup Seeding : s.step \notin {"DOWN", "UP"} =>
           s \in Seeding
BY DEF Applications, Clients, Startup!Absent, Startup!Statuses, Startup!Down, Startup!Up,
   Seeding

\* A step of somebody leaves the starts of the others where they are, and disturbs them
\* when it changes what is seeded.
LEMMA OthersStand ==
    ASSUME StartupInv, NEW p, NEW after, Startup!Takes(p, after), NEW q \in Processes, q # p,
           sInstalled' \in {sInstalled, TRUE},
           sRegistry' = sRegistry => sLinks' = sLinks \/ ~sInstalled
    PROVE  /\ sStarts'[q] \in {Startup!Down, Startup!Up} \cup Seeding
           /\ sStarts'[q].step = sStarts[q].step
           /\ sStarts[q].step = "APPLICATION" => sStarts'[q].read = sStarts[q].read
           /\ StartGood(sRegistry', sLinks', sInstalled', sStarts'[q])
<1> DEFINE s == sStarts[q]
<1>1. s \in {Startup!Down, Startup!Up} \cup Seeding /\ StartGood(sRegistry, sLinks, sInstalled, s)
  BY DEF StartupInv, StartupTypes
<1>2. sStarts'[q] = IF s \in {Startup!Down, Startup!Up} \/ sRegistry' = sRegistry THEN s
                   ELSE [s EXCEPT !.quiet = FALSE, !.calm = FALSE]
  BY DEF Startup!Takes
<1>3. CASE s \in {Startup!Down, Startup!Up}
  BY <1>1, <1>2, <1>3 DEF StartGood, Startup!Down, Startup!Up
<1>4. CASE s \notin {Startup!Down, Startup!Up} /\ sRegistry' = sRegistry
  <2>1. s.step \notin {"DOWN", "UP"} /\ s.calm =>
            sInstalled' /\ Seeded(sRegistry', sLinks', s.conf) /\ ReadsNow(sRegistry', s)
    BY <1>1, <1>4 DEF StartGood
  <2> QED
    BY <1>1, <1>2, <1>4, <2>1 DEF StartGood
<1>5. CASE s \notin {Startup!Down, Startup!Up} /\ sRegistry' # sRegistry
  <2>1. s \in Seeding /\ sStarts'[q] = [s EXCEPT !.quiet = FALSE, !.calm = FALSE]
    BY <1>1, <1>2, <1>5
  <2> QED
    BY <2>1 DEF Seeding, StartGood
<1> QED
  BY <1>3, <1>4, <1>5

\* So do all of them, when the step is a start's own.
LEMMA StartsStand ==
    ASSUME StartupInv, NEW p, NEW after, Startup!Takes(p, after),
           after \in {Startup!Down, Startup!Up} \cup Seeding,
           sInstalled' \in {sInstalled, TRUE},
           sRegistry' = sRegistry => sLinks' = sLinks \/ ~sInstalled,
           p \in Processes => StartGood(sRegistry', sLinks', sInstalled', after)
    PROVE  /\ sStarts' \in [Processes -> {Startup!Down, Startup!Up} \cup Seeding]
           /\ \A q \in Processes : StartGood(sRegistry', sLinks', sInstalled', sStarts'[q])
           /\ \A q \in Processes : q # p =>
                /\ sStarts'[q].step = sStarts[q].step
                /\ sStarts[q].step = "APPLICATION" => sStarts'[q].read = sStarts[q].read
           /\ p \in Processes => sStarts'[p] = after
<1>1. \A q \in Processes : q # p =>
          /\ sStarts'[q] \in {Startup!Down, Startup!Up} \cup Seeding
          /\ sStarts'[q].step = sStarts[q].step
          /\ sStarts[q].step = "APPLICATION" => sStarts'[q].read = sStarts[q].read
          /\ StartGood(sRegistry', sLinks', sInstalled', sStarts'[q])
  BY OthersStand
<1>2. p \in Processes => sStarts'[p] = after
  BY DEF Startup!Takes
<1>3. DOMAIN sStarts' = Processes /\ sStarts' = [q \in Processes |-> sStarts'[q]]
  BY DEF Startup!Takes
<1> QED
  BY <1>1, <1>2, <1>3

\* A start that begins has written nothing; whether its seed is complete it has found.
LEMMA StartupBegin ==
    ASSUME StartupInv, NEW p \in Processes, NEW c \in Configurations, Startup!Begin(p, c)
    PROVE  StartupInv'
<1> DEFINE s == [step |-> "SCHEMA", conf |-> c, read |-> "active", quiet |-> TRUE,
                 calm |-> sSettled = c]
<1>1. s \in Seeding
  BY DEF Seeding, Startup!Statuses
<1>2. sStarts' = [sStarts EXCEPT ![p] = s]
        /\ UNCHANGED <<sInstalled, sLinks, sRegistry, sDecided, sCrossed, sSettled, sChanges>>
  BY DEF Startup!Begin
<1>3. s.step = "SCHEMA" /\ s.conf = c /\ (s.calm <=> sSettled = c)
  OBVIOUS
<1> HIDE DEF s
<1>4. StartGood(sRegistry, sLinks, sInstalled, s)
  BY <1>3, StartupAssumption DEF StartupInv, StartGood, Stands, ReadsNow
<1>5. StartupTypes'
  BY <1>1, <1>2 DEF StartupInv, StartupTypes
<1>6. \A q \in Processes : StartGood(sRegistry, sLinks, sInstalled, sStarts'[q])
  BY <1>2, <1>4 DEF StartupInv, StartupTypes
<1>7. ~sCrossed => \A q \in Processes :
            sStarts'[q].step = "APPLICATION" => sStarts'[q].read = sDecided.application
  BY <1>2, <1>3 DEF StartupInv, StartupTypes
<1> QED
  BY <1>2, <1>5, <1>6, <1>7 DEF StartupInv, Startup!AuditedOnce

\* A start whose step changes nothing that is seeded, nor the links.
LEMMA StartupGoes ==
    ASSUME StartupInv, NEW p \in Processes, NEW after \in {Startup!Down, Startup!Up} \cup Seeding,
           sStarts' = [sStarts EXCEPT ![p] = after], sInstalled' \in {sInstalled, TRUE},
           UNCHANGED <<sLinks, sRegistry, sDecided, sCrossed, sSettled>>,
           StartGood(sRegistry, sLinks, sInstalled', after),
           after.step = "APPLICATION" => after.read = Standing(sRegistry.application)
    PROVE  StartupInv'
<1>1. StartupTypes'
  BY DEF StartupInv, StartupTypes
<1>2. \A q \in Processes : StartGood(sRegistry, sLinks, sInstalled', sStarts'[q])
  BY DEF StartupInv, StartupTypes, StartGood
<1>3. ~sCrossed => \A q \in Processes :
            sStarts'[q].step = "APPLICATION" => sStarts'[q].read = sDecided.application
  BY DEF StartupInv, StartupTypes
<1>4. sSettled # "no" => sInstalled' /\ Seeded(sRegistry, sLinks, sSettled)
  BY DEF StartupInv
<1> QED
  BY <1>1, <1>2, <1>3, <1>4 DEF StartupInv, Startup!AuditedOnce

\* The schema is installed or not.
LEMMA StartupSchema ==
    ASSUME StartupInv, NEW p \in Processes, Startup!Schema(p)
    PROVE  StartupInv'
<1> DEFINE s == [sStarts[p] EXCEPT !.step = "TENANT", !.read = "active"]
<1>1. sStarts[p] \in Seeding /\ sStarts[p].step = "SCHEMA"
        /\ StartGood(sRegistry, sLinks, sInstalled, sStarts[p])
  BY AbsentByStatus DEF StartupInv, StartupTypes, Startup!Schema, Startup!Goes, Startup!At
<1>2. s \in Seeding /\ s.step = "TENANT" /\ s.conf = sStarts[p].conf
        /\ s.quiet = sStarts[p].quiet /\ s.calm = sStarts[p].calm
  BY <1>1 DEF Seeding, Startup!Statuses
<1>3. UNCHANGED <<sLinks, sRegistry, sDecided, sCrossed, sSettled>>
          /\ sInstalled' \in {sInstalled, TRUE}
  BY DEF Startup!Schema
<1>4. sStarts' = [sStarts EXCEPT ![p] = s]
  BY <1>3 DEF StartupInv, StartupTypes, Startup!Schema, Startup!Goes, Startup!Takes
<1> HIDE DEF s
<1>5. StartGood(sRegistry, sLinks, sInstalled', s)
  BY <1>1, <1>2, <1>3 DEF StartGood, Stands, ReadsNow
<1> QED
  BY <1>2, <1>3, <1>4, <1>5, StartupGoes

\* The status of the application is read.
LEMMA StartupReadApplication ==
    ASSUME StartupInv, NEW p \in Processes, Startup!ReadApplication(p)
    PROVE  StartupInv'
<1> DEFINE s == [sStarts[p] EXCEPT !.step = "APPLICATION",
                    !.read = Standing(sRegistry.application)]
<1>1. sStarts[p] \in Seeding /\ sStarts[p].step = "READ"
        /\ StartGood(sRegistry, sLinks, sInstalled, sStarts[p])
  BY AbsentByStatus DEF StartupInv, StartupTypes, Startup!ReadApplication, Startup!At
<1>2. Standing(sRegistry.application) \in Startup!Statuses
  BY DEF StartupInv, StartupTypes, Registries, Applications, Standing, Startup!Absent,
     Startup!Statuses
<1>3. s \in Seeding /\ s.step = "APPLICATION" /\ s.conf = sStarts[p].conf
        /\ s.quiet = sStarts[p].quiet /\ s.calm = sStarts[p].calm
        /\ s.read = Standing(sRegistry.application)
  BY <1>1, <1>2 DEF Seeding
<1>4. sStarts' = [sStarts EXCEPT ![p] = s]
        /\ UNCHANGED <<sInstalled, sLinks, sRegistry, sDecided, sCrossed, sSettled>>
  BY <1>1 DEF StartupInv, StartupTypes, Startup!ReadApplication, Standing, Seeding
<1> HIDE DEF s
<1>5. StartGood(sRegistry, sLinks, sInstalled, s)
  BY <1>1, <1>3 DEF StartGood, Stands, ReadsNow
<1> QED
  BY <1>3, <1>4, <1>5, StartupGoes

\* A start is given up or dies.
LEMMA StartupEnds ==
    ASSUME StartupInv, NEW p \in Processes, Startup!Fail(p) \/ Startup!Crash(p)
    PROVE  StartupInv'
<1>1. PICK after \in {Startup!Down, Startup!Up} : sStarts' = [sStarts EXCEPT ![p] = after]
  BY DEF Startup!Fail, Startup!Crash
<1>2. StartGood(sRegistry, sLinks, sInstalled, after) /\ after.step # "APPLICATION"
  BY DEF StartGood, Startup!Down, Startup!Up
<1>3. UNCHANGED <<sInstalled, sLinks, sRegistry, sDecided, sCrossed, sSettled>>
  BY DEF Startup!Fail, Startup!Crash
<1> QED
  BY <1>1, <1>2, <1>3, StartupGoes

\* Any step that may change what is seeded.
LEMMA StartupTakes ==
    ASSUME StartupInv, NEW p, NEW after \in {Startup!Down, Startup!Up} \cup Seeding,
           Startup!Takes(p, after),
           after.step # "APPLICATION",
           p \in Processes => StartGood(sRegistry', sLinks', sInstalled', after),
           sInstalled' = sInstalled, sLinks' \in [Accounts -> Members \cup {"none"}],
           sRegistry' = sRegistry => sLinks' = sLinks \/ ~sInstalled,
           sRegistry' \in Registries, Startup!AuditedOnce',
           \A a \in Accounts : sRegistry'.mirror[a] \in {"none", sLinks'[a]},
           sDecided' \in [application : Startup!Statuses, client : Startup!Statuses],
           sCrossed' \in BOOLEAN,
           sDecided'.client = Standing(sRegistry'.client),
           ~sCrossed' => sDecided'.application = Standing(sRegistry'.application),
           sRegistry'.application.status = "absent" => sDecided'.application = "active",
           ~sCrossed' => \/ ~sCrossed /\ sDecided'.application = sDecided.application
                         \/ \A q \in Processes : sStarts[q].step # "APPLICATION",
           sSettled' \in Configurations \cup {"no"},
           sSettled' # "no" => sInstalled /\ Seeded(sRegistry', sLinks', sSettled')
    PROVE  StartupInv'
<1>1. /\ sStarts' \in [Processes -> {Startup!Down, Startup!Up} \cup Seeding]
      /\ \A q \in Processes : StartGood(sRegistry', sLinks', sInstalled', sStarts'[q])
      /\ \A q \in Processes : q # p =>
            /\ sStarts'[q].step = sStarts[q].step
            /\ sStarts[q].step = "APPLICATION" => sStarts'[q].read = sStarts[q].read
      /\ p \in Processes => sStarts'[p] = after
  BY StartsStand
<1>2. StartupTypes'
  BY <1>1 DEF StartupInv, StartupTypes
<1>3. ~sCrossed' => \A q \in Processes :
            sStarts'[q].step = "APPLICATION" => sStarts'[q].read = sDecided'.application
  BY <1>1 DEF StartupInv
<1> QED
  BY <1>1, <1>2, <1>3 DEF StartupInv

\* The seed that was complete is, unless something changed.
LEMMA SettledStands ==
    ASSUME StartupInv, Startup!Unsettled, sInstalled' = sInstalled,
           sRegistry' = sRegistry => sLinks' = sLinks \/ ~sInstalled
    PROVE  /\ sSettled' \in Configurations \cup {"no"}
           /\ sSettled' # "no" => sInstalled /\ Seeded(sRegistry', sLinks', sSettled')
BY DEF StartupInv, StartupTypes, Startup!Unsettled

\* A write of a start, to the registry r.
LEMMA StartupWrites ==
    ASSUME StartupInv, NEW p \in Processes, NEW from, NEW to, NEW r,
           Startup!Writes(p, from, to, r), from \notin {"DOWN", "UP"},
           to \in {"READ", "CLIENT", "BACKFILL", "MIGRATE"},
           r \in Registries, r.mirror = sRegistry.mirror, r.audits = sRegistry.audits,
           Standing(r.client) = Standing(sRegistry.client),
           ~sCrossed => Standing(r.application) = Standing(sRegistry.application),
           sRegistry.application.status # "absent" => r.application.status # "absent",
           \A s \in Seeding : Stands(sRegistry, sStarts[p]) /\ s.conf = sStarts[p].conf
                /\ s.step = to => Stands(r, s),
           Seeded(sRegistry, sLinks, sStarts[p].conf) => Seeded(r, sLinks, sStarts[p].conf)
    PROVE  StartupInv'
<1>1. sStarts[p] \in Seeding /\ sStarts[p].step = from
        /\ StartGood(sRegistry, sLinks, sInstalled, sStarts[p])
  BY AbsentByStatus DEF StartupInv, StartupTypes, Startup!Writes, Startup!At
<1> DEFINE s == [sStarts[p] EXCEPT !.step = to, !.read = "active"]
<1>2. s \in Seeding /\ s.step = to /\ s.conf = sStarts[p].conf
        /\ s.quiet = sStarts[p].quiet /\ s.calm = sStarts[p].calm
  BY <1>1 DEF Seeding, Startup!Statuses
<1>3. sRegistry' = r /\ UNCHANGED <<sInstalled, sLinks, sDecided, sCrossed>>
          /\ Startup!Takes(p, s) /\ Startup!Unsettled
  BY DEF Startup!Writes, Startup!Goes
<1> HIDE DEF s
<1>4. StartGood(sRegistry', sLinks', sInstalled', s)
  BY <1>1, <1>2, <1>3 DEF StartGood, ReadsNow
<1>5. /\ sSettled' \in Configurations \cup {"no"}
      /\ sSettled' # "no" => sInstalled /\ Seeded(sRegistry', sLinks', sSettled')
  BY <1>3, SettledStands
<1>6. Startup!AuditedOnce' /\ \A a \in Accounts : sRegistry'.mirror[a] \in {"none", sLinks'[a]}
  BY <1>3 DEF StartupInv, Startup!AuditedOnce
<1>7. /\ sDecided'.client = Standing(sRegistry'.client)
      /\ ~sCrossed' => sDecided'.application = Standing(sRegistry'.application)
      /\ sRegistry'.application.status = "absent" => sDecided'.application = "active"
      /\ ~sCrossed' => \/ ~sCrossed /\ sDecided'.application = sDecided.application
                       \/ \A q \in Processes : sStarts[q].step # "APPLICATION"
  BY <1>3 DEF StartupInv
<1>8. sLinks' \in [Accounts -> Members \cup {"none"}] /\ sCrossed' \in BOOLEAN
        /\ sDecided' \in [application : Startup!Statuses, client : Startup!Statuses]
  BY <1>3 DEF StartupInv, StartupTypes
<1>9. /\ s \in {Startup!Down, Startup!Up} \cup Seeding /\ s.step # "APPLICATION"
      /\ Startup!Takes(p, s)
      /\ p \in Processes => StartGood(sRegistry', sLinks', sInstalled', s)
      /\ sInstalled' = sInstalled /\ sRegistry' \in Registries
      /\ sRegistry' = sRegistry => sLinks' = sLinks \/ ~sInstalled
  BY <1>2, <1>3, <1>4
<1> QED
  BY <1>5, <1>6, <1>7, <1>8, <1>9, StartupTakes

\* The tenant is active.
LEMMA StartupUpsertTenant ==
    ASSUME StartupInv, NEW p \in Processes, Startup!UpsertTenant(p)
    PROVE  StartupInv'
<1> DEFINE r == [sRegistry EXCEPT !.tenant = "active"]
<1>1. sRegistry \in Registries
  BY DEF StartupInv, StartupTypes
<1>2. r \in Registries /\ r.tenant = "active" /\ r.application = sRegistry.application
        /\ r.client = sRegistry.client /\ r.filed = sRegistry.filed
        /\ r.mirror = sRegistry.mirror /\ r.audits = sRegistry.audits
  BY <1>1 DEF Registries, Startup!Statuses
<1>3. Startup!Writes(p, "TENANT", "READ", r)
  BY DEF Startup!UpsertTenant
<1> HIDE DEF r
<1>4. Seeded(sRegistry, sLinks, sStarts[p].conf) => Seeded(r, sLinks, sStarts[p].conf)
  BY <1>2 DEF Seeded, HasTenant, HasApplication, HasClient, HasFiled
<1>5. \A s \in Seeding : s.step = "READ" => Stands(r, s)
  BY <1>2 DEF Stands, HasTenant
<1> QED
  BY <1>2, <1>3, <1>4, <1>5, StartupWrites

\* The application has the status that was read, and its methods again.
LEMMA StartupUpsertApplication ==
    ASSUME StartupInv, NEW p \in Processes, Startup!UpsertApplication(p)
    PROVE  StartupInv'
<1> DEFINE app == [status |-> Startup!Status(p), face |-> FALSE]
           r == [sRegistry EXCEPT !.application = app]
<1>1. sRegistry \in Registries /\ sStarts[p] \in Seeding /\ sStarts[p].step = "APPLICATION"
  BY AbsentByStatus DEF StartupInv, StartupTypes, Startup!UpsertApplication, Startup!Writes,
     Startup!At
<1>2. app \in [status : Startup!Statuses, face : BOOLEAN] /\ app.status = sStarts[p].read
        /\ app.face = FALSE /\ app.status # "absent"
  BY <1>1 DEF Startup!Status, Seeding, Startup!Statuses
<1>3. Startup!Writes(p, "APPLICATION", "CLIENT", r)
  BY DEF Startup!UpsertApplication
<1> HIDE DEF app
<1>4. r \in Registries /\ r.tenant = sRegistry.tenant /\ r.application = app
        /\ r.client = sRegistry.client /\ r.filed = sRegistry.filed
        /\ r.mirror = sRegistry.mirror /\ r.audits = sRegistry.audits
  BY <1>1, <1>2 DEF Registries, Applications
<1> HIDE DEF r
<1>5. Seeded(sRegistry, sLinks, sStarts[p].conf) => Seeded(r, sLinks, sStarts[p].conf)
  BY <1>2, <1>4 DEF Seeded, HasTenant, HasApplication, HasClient, HasFiled
<1>6. \A s \in Seeding : Stands(sRegistry, sStarts[p]) /\ s.step = "CLIENT" => Stands(r, s)
  BY <1>1, <1>2, <1>4 DEF Stands, HasTenant, HasApplication
<1>7. ~sCrossed => Standing(r.application) = Standing(sRegistry.application)
  <2>1. Standing(app) = sStarts[p].read
    BY <1>2 DEF Standing
  <2> QED
    BY <1>1, <1>4, <2>1 DEF StartupInv
<1> QED
  BY <1>2, <1>3, <1>4, <1>5, <1>6, <1>7, StartupWrites

\* The client has the settings of the deployment, and the status it had.
LEMMA StartupUpsertClient ==
    ASSUME StartupInv, NEW p \in Processes, Startup!UpsertClient(p)
    PROVE  StartupInv'
<1> DEFINE client == Startup!SeededClient(p)
           r == [sRegistry EXCEPT !.client = client]
<1>1. sRegistry \in Registries /\ sStarts[p] \in Seeding /\ sStarts[p].step = "CLIENT"
  BY AbsentByStatus DEF StartupInv, StartupTypes, Startup!UpsertClient, Startup!Writes,
     Startup!At
<1>2. CASE sStarts[p].conf = "none"
  <2>1. Startup!Writes(p, "CLIENT", "BACKFILL", sRegistry)
    BY <1>2 DEF Startup!UpsertClient
  <2>2. \A s \in Seeding : Stands(sRegistry, sStarts[p]) /\ s.conf = sStarts[p].conf
            /\ s.step = "BACKFILL" => Stands(sRegistry, s)
    BY <1>1, <1>2 DEF Stands, HasClient
  <2> QED
    BY <1>1, <2>1, <2>2, StartupWrites
<1>3. CASE sStarts[p].conf # "none"
  <2>1. Startup!Writes(p, "CLIENT", "BACKFILL", r)
    BY <1>3 DEF Startup!UpsertClient
  <2>2. sRegistry.client \in Clients
    BY <1>1 DEF Registries
  <2>3. /\ client \in [status : Startup!Statuses, conf : Configurations]
        /\ client.status = Standing(sRegistry.client) /\ client.conf = sStarts[p].conf
        /\ client.status # "absent"
    <3>1. client = [status |-> Standing(sRegistry.client), conf |-> sStarts[p].conf]
      BY <2>2, AbsentByStatus DEF Startup!SeededClient, Standing
    <3>2. Standing(sRegistry.client) \in Startup!Statuses
      BY <2>2 DEF Clients, Startup!Absent, Standing, Startup!Statuses
    <3> QED
      BY <3>1, <3>2, <1>1 DEF Seeding, Startup!Statuses
  <2> HIDE DEF client
  <2>4. r \in Registries /\ r.tenant = sRegistry.tenant /\ r.application = sRegistry.application
            /\ r.client = client /\ r.filed = sRegistry.filed
            /\ r.mirror = sRegistry.mirror /\ r.audits = sRegistry.audits
    BY <1>1, <2>3 DEF Registries, Clients
  <2> HIDE DEF r
  <2>5. Seeded(sRegistry, sLinks, sStarts[p].conf) => Seeded(r, sLinks, sStarts[p].conf)
    BY <2>3, <2>4 DEF Seeded, HasTenant, HasApplication, HasClient, HasFiled
  <2>6. \A s \in Seeding : Stands(sRegistry, sStarts[p]) /\ s.conf = sStarts[p].conf
            /\ s.step = "BACKFILL" => Stands(r, s)
    BY <1>1, <2>3, <2>4 DEF Stands, HasTenant, HasApplication, HasClient
  <2>7. Standing(r.client) = Standing(sRegistry.client)
    BY <2>3, <2>4 DEF Standing
  <2> QED
    BY <2>1, <2>4, <2>5, <2>6, <2>7, StartupWrites
<1> QED
  BY <1>2, <1>3

\* No subject is left without an application.
LEMMA StartupBackfill ==
    ASSUME StartupInv, NEW p \in Processes, Startup!Backfill(p)
    PROVE  StartupInv'
<1> DEFINE r == [sRegistry EXCEPT !.filed = Startup!Filed]
<1>1. sRegistry \in Registries /\ sStarts[p] \in Seeding /\ sStarts[p].step = "BACKFILL"
  BY AbsentByStatus DEF StartupInv, StartupTypes, Startup!Backfill, Startup!Writes, Startup!At
<1>2. Startup!Filed \in [Members -> {"absent", "null", "seeded"}]
        /\ \A s \in Members : Startup!Filed[s] # "null"
  BY <1>1 DEF Startup!Filed, Registries
<1>3. r \in Registries /\ r.tenant = sRegistry.tenant /\ r.application = sRegistry.application
          /\ r.client = sRegistry.client /\ r.filed = Startup!Filed
          /\ r.mirror = sRegistry.mirror /\ r.audits = sRegistry.audits
  BY <1>1, <1>2 DEF Registries
<1>4. Startup!Writes(p, "BACKFILL", "MIGRATE", r)
  BY DEF Startup!Backfill
<1> HIDE DEF r
<1>5. Seeded(sRegistry, sLinks, sStarts[p].conf) => Seeded(r, sLinks, sStarts[p].conf)
  BY <1>2, <1>3 DEF Seeded, HasTenant, HasApplication, HasClient, HasFiled
<1>6. \A s \in Seeding : Stands(sRegistry, sStarts[p]) /\ s.conf = sStarts[p].conf
          /\ s.step = "MIGRATE" => Stands(r, s)
  BY <1>1, <1>2, <1>3 DEF Stands, HasTenant, HasApplication, HasClient, HasFiled
<1> QED
  BY <1>3, <1>4, <1>5, <1>6, StartupWrites

\* What the migration copies is what the application did not know.
LEMMA MigratedLinks ==
    ASSUME StartupInv
    PROVE  /\ Startup!Migrated \in Registries /\ Startup!Migrated.mirror = sLinks
           /\ \A a \in Accounts : Startup!Migrated.audits[a] = IF sLinks[a] = "none" THEN 0 ELSE 1
           /\ Startup!Migrated.tenant = sRegistry.tenant
           /\ Startup!Migrated.client = sRegistry.client
           /\ Startup!Migrated.application = sRegistry.application
           /\ Startup!Migrated.filed = sRegistry.filed
           /\ sRegistry.mirror = sLinks => Startup!Migrated = sRegistry
<1> DEFINE copied(a) == sRegistry.mirror[a] = "none" /\ sLinks[a] # "none"
           mirror == [a \in Accounts |-> IF copied(a) THEN sLinks[a] ELSE sRegistry.mirror[a]]
           audits == [a \in Accounts |-> IF copied(a) THEN sRegistry.audits[a] + 1
                                         ELSE sRegistry.audits[a]]
<1>1. sRegistry \in Registries /\ sLinks \in [Accounts -> Members \cup {"none"}]
        /\ Startup!AuditedOnce /\ \A a \in Accounts : sRegistry.mirror[a] \in {"none", sLinks[a]}
  BY DEF StartupInv, StartupTypes
<1>2. sRegistry.mirror \in [Accounts -> Members \cup {"none"}]
        /\ sRegistry.audits \in [Accounts -> Nat]
  BY <1>1 DEF Registries
<1>3. Startup!Migrated = [sRegistry EXCEPT !.mirror = mirror, !.audits = audits]
  BY <1>1 DEF Startup!Migrated, Registries
<1>4. mirror = sLinks
  <2>1. \A a \in Accounts : mirror[a] = sLinks[a]
    BY <1>1
  <2> QED
    BY <1>1, <2>1
<1>5. audits \in [Accounts -> Nat]
        /\ \A a \in Accounts : audits[a] = IF sLinks[a] = "none" THEN 0 ELSE 1
  BY <1>1, <1>2 DEF Startup!AuditedOnce
<1>6. sRegistry.mirror = sLinks => audits = sRegistry.audits
  BY <1>2
<1> HIDE DEF mirror, audits
<1>7. Startup!Migrated \in Registries /\ Startup!Migrated.mirror = mirror
          /\ Startup!Migrated.audits = audits
        /\ Startup!Migrated.tenant = sRegistry.tenant
        /\ Startup!Migrated.client = sRegistry.client
        /\ Startup!Migrated.application = sRegistry.application
        /\ Startup!Migrated.filed = sRegistry.filed
  BY <1>1, <1>3, <1>4, <1>5 DEF Registries
<1>8. sRegistry.mirror = sLinks => Startup!Migrated = sRegistry
  BY <1>1, <1>3, <1>4, <1>6 DEF Registries
<1> QED
  BY <1>4, <1>5, <1>7, <1>8

\* The legacy links are copied, and the seed of a start that nothing disturbed is complete.
LEMMA StartupMigrate ==
    ASSUME StartupInv, NEW p \in Processes, Startup!Migrate(p)
    PROVE  StartupInv'
<1>1. sStarts[p] \in Seeding /\ sStarts[p].step = "MIGRATE"
        /\ StartGood(sRegistry, sLinks, sInstalled, sStarts[p])
  BY AbsentByStatus DEF StartupInv, StartupTypes, Startup!Migrate, Startup!At
<1>2. sRegistry' = Startup!Migrated /\ Startup!Takes(p, Startup!Up)
          /\ UNCHANGED <<sInstalled, sLinks, sDecided, sCrossed>>
        /\ sInstalled
  BY DEF Startup!Migrate
<1>3. sRegistry' \in Registries /\ sRegistry'.mirror = sLinks'
        /\ sRegistry'.tenant = sRegistry.tenant /\ sRegistry'.client = sRegistry.client
        /\ sRegistry'.application = sRegistry.application /\ sRegistry'.filed = sRegistry.filed
  BY <1>2, MigratedLinks
<1>4. Startup!AuditedOnce' /\ \A a \in Accounts : sRegistry'.mirror[a] \in {"none", sLinks'[a]}
  BY <1>2, MigratedLinks DEF Startup!AuditedOnce
<1>5. /\ sSettled' \in Configurations \cup {"no"}
      /\ sSettled' # "no" => sInstalled /\ Seeded(sRegistry', sLinks', sSettled')
  <2>1. CASE sStarts[p].quiet
    <3>1. sSettled' = sStarts[p].conf /\ Stands(sRegistry, sStarts[p])
      BY <1>1, <2>1 DEF Startup!Migrate, StartGood
    <3>2. Seeded(sRegistry', sLinks', sSettled')
      BY <1>1, <1>3, <3>1
          DEF Stands, Seeded, HasTenant, HasApplication, HasClient, HasFiled
    <3> QED
      BY <1>1, <1>2, <3>1, <3>2 DEF Seeding
  <2>2. CASE ~sStarts[p].quiet
    BY <1>2, <2>2, SettledStands DEF Startup!Migrate, Startup!Unsettled
  <2> QED
    BY <2>1, <2>2
<1>6. /\ sDecided'.client = Standing(sRegistry'.client)
      /\ ~sCrossed' => sDecided'.application = Standing(sRegistry'.application)
      /\ sRegistry'.application.status = "absent" => sDecided'.application = "active"
      /\ ~sCrossed' => \/ ~sCrossed /\ sDecided'.application = sDecided.application
                       \/ \A q \in Processes : sStarts[q].step # "APPLICATION"
  BY <1>2, <1>3 DEF StartupInv
<1>7. sLinks' \in [Accounts -> Members \cup {"none"}] /\ sCrossed' \in BOOLEAN
        /\ sDecided' \in [application : Startup!Statuses, client : Startup!Statuses]
  BY <1>2 DEF StartupInv, StartupTypes
<1>8. /\ Startup!Up \in {Startup!Down, Startup!Up} \cup Seeding /\ Startup!Up.step # "APPLICATION"
      /\ p \in Processes => StartGood(sRegistry', sLinks', sInstalled', Startup!Up)
      /\ sInstalled' = sInstalled
      /\ sRegistry' = sRegistry => sLinks' = sLinks \/ ~sInstalled
  BY <1>2 DEF Startup!Up, StartGood
<1> QED
  BY <1>2, <1>3, <1>4, <1>5, <1>6, <1>7, <1>8, StartupTakes

\* A step of somebody else.
LEMMA StartupElse ==
    ASSUME StartupInv, Startup!Takes("nobody", Startup!Down), Startup!Unsettled,
           UNCHANGED sInstalled,
           sLinks' \in [Accounts -> Members \cup {"none"}],
           sRegistry' = sRegistry => sLinks' = sLinks \/ ~sInstalled,
           sRegistry' \in Registries, Startup!AuditedOnce',
           \A a \in Accounts : sRegistry'.mirror[a] \in {"none", sLinks'[a]},
           sDecided' \in [application : Startup!Statuses, client : Startup!Statuses],
           sCrossed' \in BOOLEAN,
           sDecided'.client = Standing(sRegistry'.client),
           ~sCrossed' => sDecided'.application = Standing(sRegistry'.application),
           sRegistry'.application.status = "absent" => sDecided'.application = "active",
           ~sCrossed' => \/ ~sCrossed /\ sDecided'.application = sDecided.application
                         \/ \A q \in Processes : sStarts[q].step # "APPLICATION"
    PROVE  StartupInv'
<1>1. /\ Startup!Down \in {Startup!Down, Startup!Up} \cup Seeding
      /\ Startup!Down.step # "APPLICATION"
      /\ "nobody" \in Processes => StartGood(sRegistry', sLinks', sInstalled', Startup!Down)
  BY DEF Startup!Down, StartGood
<1>2. /\ sSettled' \in Configurations \cup {"no"}
      /\ sSettled' # "no" => sInstalled /\ Seeded(sRegistry', sLinks', sSettled')
  BY SettledStands
<1> QED
  BY <1>1, <1>2, StartupTakes

\* Bookwrm links an account; with the schema installed the application knows.
LEMMA StartupLink ==
    ASSUME StartupInv, NEW a \in Accounts, NEW s \in Members, Startup!Link(a, s)
    PROVE  StartupInv'
<1>1. /\ sLinks[a] = "none" /\ sLinks' = [sLinks EXCEPT ![a] = s] /\ s # "none"
      /\ Startup!Takes("nobody", Startup!Down) /\ Startup!Unsettled
      /\ UNCHANGED <<sInstalled, sDecided, sCrossed>>
  BY StartupAssumption DEF Startup!Link
<1>2. sRegistry \in Registries /\ sLinks \in [Accounts -> Members \cup {"none"}]
        /\ Startup!AuditedOnce /\ \A b \in Accounts : sRegistry.mirror[b] \in {"none", sLinks[b]}
  BY DEF StartupInv, StartupTypes
<1>3. sRegistry.mirror \in [Accounts -> Members \cup {"none"}]
        /\ sRegistry.audits \in [Accounts -> Nat]
  BY <1>2 DEF Registries
<1>4. /\ sRegistry' \in Registries /\ Startup!AuditedOnce'
      /\ \A b \in Accounts : sRegistry'.mirror[b] \in {"none", sLinks'[b]}
      /\ sRegistry' = sRegistry => ~sInstalled
      /\ sRegistry'.client = sRegistry.client /\ sRegistry'.application = sRegistry.application
  <2>1. CASE sInstalled
    <3> DEFINE mirror == [sRegistry.mirror EXCEPT ![a] = s]
               audits == [sRegistry.audits EXCEPT ![a] = sRegistry.audits[a] + 1]
    <3>1. sRegistry' = [sRegistry EXCEPT !.mirror = mirror, !.audits = audits]
      BY <2>1, <1>2 DEF Startup!Link, Startup!Mirrors, Registries
    <3>2. sRegistry.mirror[a] = "none" /\ sRegistry.audits[a] = 0
      BY <1>1, <1>2 DEF Startup!AuditedOnce
    <3>3. mirror \in [Accounts -> Members \cup {"none"}] /\ audits \in [Accounts -> Nat]
            /\ mirror[a] # sRegistry.mirror[a]
      BY <1>1, <1>3, <3>2
    <3>4. \A b \in Accounts : audits[b] = IF mirror[b] = "none" THEN 0 ELSE 1
      BY <1>1, <1>2, <1>3, <3>2 DEF Startup!AuditedOnce
    <3>5. \A b \in Accounts : mirror[b] \in {"none", sLinks'[b]}
      BY <1>1, <1>2, <1>3
    <3> HIDE DEF mirror, audits
    <3>6. sRegistry' \in Registries /\ sRegistry'.mirror = mirror /\ sRegistry'.audits = audits
            /\ sRegistry'.client = sRegistry.client
            /\ sRegistry'.application = sRegistry.application
      BY <1>2, <3>1, <3>3 DEF Registries
    <3> QED
      BY <3>3, <3>4, <3>5, <3>6 DEF Startup!AuditedOnce
  <2>2. CASE ~sInstalled
    BY <1>1, <1>2, <2>2 DEF Startup!Link, Startup!Mirrors, Startup!AuditedOnce
  <2> QED
    BY <2>1, <2>2 DEF StartupInv, StartupTypes
<1>5. sLinks' \in [Accounts -> Members \cup {"none"}] /\ sCrossed' \in BOOLEAN
        /\ sDecided' \in [application : Startup!Statuses, client : Startup!Statuses]
  BY <1>1, <1>2 DEF StartupInv, StartupTypes
<1>6. /\ sDecided'.client = Standing(sRegistry'.client)
      /\ ~sCrossed' => sDecided'.application = Standing(sRegistry'.application)
      /\ sRegistry'.application.status = "absent" => sDecided'.application = "active"
      /\ ~sCrossed' => \/ ~sCrossed /\ sDecided'.application = sDecided.application
                       \/ \A q \in Processes : sStarts[q].step # "APPLICATION"
  BY <1>1, <1>4 DEF StartupInv
<1>7. UNCHANGED sInstalled /\ (sRegistry' = sRegistry => sLinks' = sLinks \/ ~sInstalled)
  BY <1>1, <1>4
<1> QED
  BY <1>1, <1>4, <1>5, <1>6, <1>7, StartupElse

\* The other decision.
LEMMA FlipOfStatus == \A s \in Startup!Statuses : Startup!Flip(s) \in Startup!Statuses
BY DEF Startup!Flip, Startup!Statuses

\* An administrator decides about the tenant or the client, or a subject is created.
LEMMA StartupChange ==
    ASSUME StartupInv,
           Startup!ChangeTenant \/ Startup!ChangeClient \/ \E s \in Members : Startup!Mint(s)
    PROVE  StartupInv'
<1>1. sRegistry \in Registries /\ StartupTypes /\ Startup!AuditedOnce
        /\ \A b \in Accounts : sRegistry.mirror[b] \in {"none", sLinks[b]}
  BY DEF StartupInv, StartupTypes
<1>2. /\ sRegistry' \in Registries /\ sRegistry'.application = sRegistry.application
      /\ sRegistry'.mirror = sRegistry.mirror /\ sRegistry'.audits = sRegistry.audits
      /\ sDecided'.client = Standing(sRegistry'.client)
      /\ sDecided' \in [application : Startup!Statuses, client : Startup!Statuses]
      /\ sDecided'.application = sDecided.application
      /\ UNCHANGED <<sInstalled, sLinks, sCrossed>> /\ Startup!Takes("nobody", Startup!Down)
      /\ Startup!Unsettled
  <2>1. CASE Startup!ChangeTenant
    <3>1. sRegistry' = [sRegistry EXCEPT !.tenant = Startup!Flip(sRegistry.tenant)]
            /\ sRegistry.tenant \in Startup!Statuses /\ UNCHANGED sDecided
      BY <1>1, <2>1 DEF Startup!ChangeTenant, Startup!Changed, Registries
    <3> QED
      BY <1>1, <2>1, <3>1, FlipOfStatus
          DEF Startup!ChangeTenant, Startup!Changed, Registries, StartupInv, StartupTypes
  <2>2. CASE Startup!ChangeClient
    <3>1. sRegistry.client \in [status : Startup!Statuses, conf : Configurations]
            /\ sRegistry' =
                [sRegistry EXCEPT !.client.status = Startup!Flip(sRegistry.client.status)]
            /\ sDecided' = [sDecided EXCEPT !.client = sRegistry'.client.status]
      BY <1>1, <2>2 DEF Startup!ChangeClient, Startup!Changed, Registries, Clients
    <3>2. PICK c \in [status : Startup!Statuses, conf : Configurations] :
            /\ c = [sRegistry.client EXCEPT !.status = Startup!Flip(sRegistry.client.status)]
            /\ c.status \in Startup!Statuses
      <4> DEFINE c == [sRegistry.client EXCEPT !.status = Startup!Flip(sRegistry.client.status)]
      <4>1. c \in [status : Startup!Statuses, conf : Configurations]
                /\ c.status \in Startup!Statuses
        BY <3>1, FlipOfStatus
      <4> QED
        BY <4>1
    <3>3. sRegistry' = [sRegistry EXCEPT !.client = c]
      BY <1>1, <3>1, <3>2 DEF Registries
    <3>4. sRegistry'.client = c /\ sRegistry' \in Registries
            /\ sRegistry'.application = sRegistry.application
            /\ sRegistry'.mirror = sRegistry.mirror /\ sRegistry'.audits = sRegistry.audits
      BY <1>1, <3>3 DEF Registries, Clients
    <3>5. Standing(c) = c.status
      BY <3>2 DEF Standing, Startup!Statuses
    <3>6. sDecided' \in [application : Startup!Statuses, client : Startup!Statuses]
            /\ sDecided'.application = sDecided.application /\ sDecided'.client = c.status
      BY <1>1, <3>1, <3>2, <3>4 DEF StartupTypes
    <3> QED
      BY <2>2, <3>4, <3>5, <3>6 DEF Startup!ChangeClient, Startup!Changed
  <2>3. CASE \E s \in Members : Startup!Mint(s)
    <3>1. PICK s \in Members : sRegistry' = [sRegistry EXCEPT !.filed[s] = "null"]
            /\ Startup!Mint(s)
      BY <2>3 DEF Startup!Mint, Startup!Changed
    <3>2. [sRegistry.filed EXCEPT ![s] = "null"] \in [Members -> {"absent", "null", "seeded"}]
      BY <1>1 DEF Registries
    <3>3. sRegistry' = [sRegistry EXCEPT !.filed = [sRegistry.filed EXCEPT ![s] = "null"]]
      BY <1>1, <3>1 DEF Registries
    <3>4. sRegistry' \in Registries /\ sRegistry'.application = sRegistry.application
            /\ sRegistry'.mirror = sRegistry.mirror /\ sRegistry'.audits = sRegistry.audits
            /\ sRegistry'.client = sRegistry.client
      BY <1>1, <3>2, <3>3 DEF Registries
    <3> QED
      BY <1>1, <3>1, <3>4 DEF Startup!Mint, Startup!Changed, StartupInv, StartupTypes
  <2> QED
    BY <2>1, <2>2, <2>3
<1>3. Startup!AuditedOnce' /\ \A b \in Accounts : sRegistry'.mirror[b] \in {"none", sLinks'[b]}
  BY <1>1, <1>2 DEF Startup!AuditedOnce
<1>4. /\ ~sCrossed' => sDecided'.application = Standing(sRegistry'.application)
      /\ sRegistry'.application.status = "absent" => sDecided'.application = "active"
      /\ ~sCrossed' => \/ ~sCrossed /\ sDecided'.application = sDecided.application
                       \/ \A q \in Processes : sStarts[q].step # "APPLICATION"
      /\ sLinks' \in [Accounts -> Members \cup {"none"}] /\ sCrossed' \in BOOLEAN
  BY <1>2 DEF StartupInv, StartupTypes
<1>5. UNCHANGED sInstalled /\ (sRegistry' = sRegistry => sLinks' = sLinks \/ ~sInstalled)
  BY <1>2
<1> QED
  BY <1>2, <1>3, <1>4, <1>5, StartupElse

\* An administrator decides about the application, or allows it face logins.
LEMMA StartupChangeApplication ==
    ASSUME StartupInv, Startup!ChangeApplication
    PROVE  StartupInv'
<1>1. /\ sRegistry \in Registries /\ StartupTypes /\ Startup!AuditedOnce
      /\ \A b \in Accounts : sRegistry.mirror[b] \in {"none", sLinks[b]}
      /\ sRegistry.application \in [status : Startup!Statuses, face : BOOLEAN]
  BY DEF StartupInv, StartupTypes, Startup!ChangeApplication, Registries, Applications
<1>2. PICK x \in [status : Startup!Statuses, face : BOOLEAN] :
        /\ sRegistry' = [sRegistry EXCEPT !.application = x]
        /\ \/ /\ sDecided' = [sDecided EXCEPT !.application = x.status]
              /\ sCrossed' = \E p \in Processes : Startup!At(p, "APPLICATION")
           \/ x.status = sRegistry.application.status /\ UNCHANGED <<sDecided, sCrossed>>
  <2>1. ASSUME sRegistry' = [sRegistry EXCEPT !.application.status = Startup!Flip(@)],
               sDecided' = [sDecided EXCEPT !.application = sRegistry'.application.status],
               sCrossed' = \E p \in Processes : Startup!At(p, "APPLICATION")
        PROVE  \E x \in [status : Startup!Statuses, face : BOOLEAN] :
                /\ sRegistry' = [sRegistry EXCEPT !.application = x]
                /\ sDecided' = [sDecided EXCEPT !.application = x.status]
                /\ sCrossed' = \E p \in Processes : Startup!At(p, "APPLICATION")
    <3> DEFINE x ==
            [sRegistry.application EXCEPT !.status = Startup!Flip(sRegistry.application.status)]
    <3>1. x \in [status : Startup!Statuses, face : BOOLEAN]
      BY <1>1, FlipOfStatus
    <3>2. sRegistry' = [sRegistry EXCEPT !.application = x]
      BY <1>1, <2>1 DEF Registries
    <3> HIDE DEF x
    <3>3. sRegistry'.application = x
      BY <1>1, <3>2 DEF Registries
    <3> QED
      BY <2>1, <3>1, <3>2, <3>3
  <2>2. ASSUME sRegistry' = [sRegistry EXCEPT !.application.face = TRUE],
               UNCHANGED <<sDecided, sCrossed>>
        PROVE  \E x \in [status : Startup!Statuses, face : BOOLEAN] :
                /\ sRegistry' = [sRegistry EXCEPT !.application = x]
                /\ x.status = sRegistry.application.status /\ UNCHANGED <<sDecided, sCrossed>>
    <3> DEFINE x == [sRegistry.application EXCEPT !.face = TRUE]
    <3>1. x \in [status : Startup!Statuses, face : BOOLEAN]
              /\ x.status = sRegistry.application.status
      BY <1>1
    <3>2. sRegistry' = [sRegistry EXCEPT !.application = x]
      BY <1>1, <2>2 DEF Registries
    <3> HIDE DEF x
    <3> QED
      BY <2>2, <3>1, <3>2
  <2> QED
    BY <2>1, <2>2 DEF Startup!ChangeApplication, Startup!Changed
<1>3. sRegistry' \in Registries /\ sRegistry'.application = x
        /\ sRegistry'.mirror = sRegistry.mirror /\ sRegistry'.audits = sRegistry.audits
        /\ sRegistry'.client = sRegistry.client
  BY <1>1, <1>2 DEF Registries, Applications
<1>4. x.status \in Startup!Statuses /\ Standing(x) = x.status /\ x.status # "absent"
        /\ Standing(sRegistry.application) = sRegistry.application.status
  BY <1>1 DEF Standing, Startup!Statuses
<1>5. /\ sDecided' \in [application : Startup!Statuses, client : Startup!Statuses]
      /\ sDecided'.client = sDecided.client /\ sCrossed' \in BOOLEAN
  BY <1>1, <1>2, <1>4 DEF StartupTypes
<1>6. ~sCrossed' => sDecided'.application = x.status
  BY <1>1, <1>2, <1>4 DEF StartupInv, StartupTypes
<1>7. ~sCrossed' => \/ ~sCrossed /\ sDecided'.application = sDecided.application
                    \/ \A q \in Processes : sStarts[q].step # "APPLICATION"
  BY <1>2 DEF Startup!At
<1>8. UNCHANGED <<sInstalled, sLinks>> /\ Startup!Takes("nobody", Startup!Down)
          /\ Startup!Unsettled
  BY DEF Startup!ChangeApplication, Startup!Changed
<1>9. /\ sDecided'.client = Standing(sRegistry'.client)
      /\ ~sCrossed' => sDecided'.application = Standing(sRegistry'.application)
      /\ sRegistry'.application.status = "absent" => sDecided'.application = "active"
  BY <1>3, <1>4, <1>5, <1>6 DEF StartupInv
<1>10. /\ Startup!AuditedOnce'
       /\ \A b \in Accounts : sRegistry'.mirror[b] \in {"none", sLinks'[b]}
       /\ sLinks' \in [Accounts -> Members \cup {"none"}]
       /\ UNCHANGED sInstalled /\ (sRegistry' = sRegistry => sLinks' = sLinks \/ ~sInstalled)
  BY <1>1, <1>3, <1>8 DEF Startup!AuditedOnce, StartupTypes
<1> QED
  BY <1>3, <1>5, <1>7, <1>8, <1>9, <1>10, StartupElse

\* Every step keeps it.
LEMMA StartupStep == StartupInv /\ [Startup!Next]_Startup!vars => StartupInv'
<1> SUFFICES ASSUME StartupInv, [Startup!Next]_Startup!vars PROVE StartupInv'
  OBVIOUS
<1>1. CASE UNCHANGED Startup!vars
  BY <1>1 DEF Startup!vars, StartupInv, StartupTypes, Startup!AuditedOnce
<1>2. CASE Startup!Next
  BY <1>2, StartupBegin, StartupSchema, StartupUpsertTenant, StartupReadApplication,
      StartupUpsertApplication, StartupUpsertClient, StartupBackfill, StartupMigrate,
      StartupEnds, StartupLink, StartupChange, StartupChangeApplication DEF Startup!Next
<1> QED
  BY <1>1, <1>2

\* What a start that is calm writes is there.
LEMMA CalmWritesNothing ==
    ASSUME StartupInv, NEW p \in Processes, sStarts[p].step \notin {"DOWN", "UP"},
           sStarts[p].calm,
           \/ Startup!UpsertTenant(p) \/ Startup!UpsertApplication(p) \/ Startup!UpsertClient(p)
           \/ Startup!Backfill(p) \/ Startup!Migrate(p)
    PROVE  sRegistry' = sRegistry
<1>1. sStarts[p] \in Seeding /\ Seeded(sRegistry, sLinks, sStarts[p].conf)
        /\ ReadsNow(sRegistry, sStarts[p]) /\ sRegistry \in Registries
  BY AbsentByStatus DEF StartupInv, StartupTypes, StartGood
<1>2. sRegistry.application \in Applications /\ sRegistry.client \in Clients
        /\ sRegistry.filed \in [Members -> {"absent", "null", "seeded"}]
  BY <1>1 DEF Registries
<1>3. CASE Startup!UpsertTenant(p)
  <2>1. sRegistry' = [sRegistry EXCEPT !.tenant = "active"] /\ sRegistry.tenant = "active"
    BY <1>1, <1>3 DEF Startup!UpsertTenant, Startup!Writes, Seeded, HasTenant
  <2> QED
    BY <1>1, <2>1 DEF Registries
<1>4. CASE Startup!UpsertApplication(p)
  <2>1. sStarts[p].step = "APPLICATION"
    BY <1>4 DEF Startup!UpsertApplication, Startup!Writes, Startup!At
  <2>2. sRegistry.application \in [status : Startup!Statuses, face : BOOLEAN]
          /\ sRegistry.application.face = FALSE
          /\ sStarts[p].read = sRegistry.application.status
    BY <1>1, <1>2, <2>1
        DEF Seeded, HasApplication, ReadsNow, Standing, Applications, Startup!Absent
  <2>3. [status |-> Startup!Status(p), face |-> FALSE] = sRegistry.application
    BY <2>2 DEF Startup!Status
  <2>4. sRegistry' = [sRegistry EXCEPT !.application = sRegistry.application]
    BY <1>4, <2>3 DEF Startup!UpsertApplication, Startup!Writes
  <2> QED
    BY <1>1, <2>4 DEF Registries
<1>5. CASE Startup!UpsertClient(p)
  <2>1. CASE sStarts[p].conf = "none"
    BY <1>5, <2>1 DEF Startup!UpsertClient, Startup!Writes
  <2>2. CASE sStarts[p].conf # "none"
    <3>1. sRegistry.client \in [status : Startup!Statuses, conf : Configurations]
            /\ sRegistry.client.conf = sStarts[p].conf
      BY <1>1, <1>2, <2>2 DEF Seeded, HasClient, Clients, Startup!Absent
    <3>2. Startup!SeededClient(p) = [status |-> sRegistry.client.status, conf |-> sStarts[p].conf]
      BY <1>2, <3>1, AbsentByStatus DEF Startup!SeededClient, Startup!Statuses
    <3>3. Startup!SeededClient(p) = sRegistry.client
      BY <3>1, <3>2
    <3>4. sRegistry' = [sRegistry EXCEPT !.client = sRegistry.client]
      BY <1>5, <2>2, <3>3 DEF Startup!UpsertClient, Startup!Writes
    <3> QED
      BY <1>1, <3>4 DEF Registries
  <2> QED
    BY <2>1, <2>2
<1>6. CASE Startup!Backfill(p)
  <2>1. Startup!Filed = sRegistry.filed
    BY <1>1, <1>2 DEF Startup!Filed, Seeded, HasFiled
  <2>2. sRegistry' = [sRegistry EXCEPT !.filed = sRegistry.filed]
    BY <1>6, <2>1 DEF Startup!Backfill, Startup!Writes
  <2> QED
    BY <1>1, <2>2 DEF Registries
<1>7. CASE Startup!Migrate(p)
  <2>1. sRegistry.mirror = sLinks /\ sRegistry' = Startup!Migrated
    BY <1>1, <1>7 DEF Seeded, Startup!Migrate
  <2> QED
    BY <2>1, MigratedLinks
<1> QED
  BY <1>3, <1>4, <1>5, <1>6, <1>7

\* A step that takes a start further is its own.
LEMMA StartupOwnStep ==
    ASSUME StartupInv, Startup!Next, NEW p \in Processes,
           sStarts[p] \notin {Startup!Down, Startup!Up},
           sStarts'[p].step # sStarts[p].step, sRegistry' # sRegistry
    PROVE  \/ Startup!UpsertTenant(p) \/ Startup!UpsertApplication(p) \/ Startup!UpsertClient(p)
           \/ Startup!Backfill(p) \/ Startup!Migrate(p)
<1>1. ASSUME NEW q, NEW after, Startup!Takes(q, after) PROVE q = p
  <2>1. sStarts[p] \in Seeding
    BY AbsentByStatus DEF StartupInv, StartupTypes
  <2> SUFFICES ASSUME q # p PROVE sStarts'[p].step = sStarts[p].step
    OBVIOUS
  <2>2. sStarts'[p] = sStarts[p]
            \/ sStarts'[p] = [sStarts[p] EXCEPT !.quiet = FALSE, !.calm = FALSE]
    BY <1>1 DEF Startup!Takes
  <2> QED
    BY <2>1, <2>2 DEF Seeding
<1>2. ~Startup!Takes("nobody", Startup!Down)
  BY <1>1, StartupAssumption
<1>3. ASSUME NEW q \in Processes,
             \/ Startup!UpsertTenant(q) \/ Startup!UpsertApplication(q) \/ Startup!UpsertClient(q)
             \/ Startup!Backfill(q) \/ Startup!Migrate(q)
      PROVE  q = p
  BY <1>1, <1>3 DEF Startup!UpsertTenant, Startup!UpsertApplication, Startup!UpsertClient,
     Startup!Backfill, Startup!Migrate, Startup!Writes, Startup!Goes
<1> QED
  BY <1>2, <1>3 DEF Startup!Next, Startup!Begin, Startup!Schema, Startup!ReadApplication,
     Startup!Fail, Startup!Crash, Startup!Link, Startup!Mint, Startup!ChangeTenant,
     Startup!ChangeApplication, Startup!ChangeClient, Startup!Changed

\* A start whose seed is complete changes nothing.
LEMMA StartupIdempotent == StartupInv /\ [Startup!Next]_Startup!vars =>
                               [Startup!Idempotent]_Startup!vars
<1> SUFFICES ASSUME StartupInv, Startup!Next, NEW p \in Processes,
sStarts[p] \notin {Startup!Down, Startup!Up},
                    sStarts'[p].step # sStarts[p].step, sStarts[p].calm
             PROVE  sRegistry' = sRegistry
  BY DEF Startup!Idempotent
<1>1. sStarts[p].step \notin {"DOWN", "UP"}
  BY AbsentByStatus DEF StartupInv, StartupTypes
<1> QED
  BY <1>1, StartupOwnStep, CalmWritesNothing

\* The links of a complete seed are the legacy links, and what administrators decided
\* is what stands.
LEMMA StartupHolds == StartupInv => Startup!LinksMigrated /\ Startup!DecisionsStand
<1> SUFFICES ASSUME StartupInv PROVE Startup!LinksMigrated /\ Startup!DecisionsStand
  OBVIOUS
<1>1. sRegistry.application \in Applications /\ sRegistry.client \in Clients
  BY DEF StartupInv, StartupTypes, Registries
<1>2. Startup!LinksMigrated
  BY DEF StartupInv, Startup!LinksMigrated, Startup!LinksMirrored, Seeded
<1>3. Startup!DecisionsStand
  BY <1>1, AbsentByStatus DEF StartupInv, Startup!DecisionsStand, Standing
<1> QED
  BY <1>2, <1>3

\* Once the application has every link it has those that are made later.
LEMMA StartupMirrors ==
    ASSUME StartupInv, Startup!Next, sInstalled, sRegistry.mirror = sLinks
    PROVE  sInstalled' /\ sRegistry'.mirror = sLinks'
<1>1. sRegistry \in Registries /\ sLinks \in [Accounts -> Members \cup {"none"}]
  BY DEF StartupInv, StartupTypes
<1>2. ASSUME NEW p \in Processes, Startup!Migrate(p)
      PROVE  sInstalled' /\ sRegistry'.mirror = sLinks'
  BY <1>2, MigratedLinks DEF Startup!Migrate
<1>3. ASSUME NEW p \in Processes, NEW from, NEW to, NEW r, Startup!Writes(p, from, to, r),
             r.mirror = sRegistry.mirror
      PROVE  sInstalled' /\ sRegistry'.mirror = sLinks'
  BY <1>3 DEF Startup!Writes
<1>4. ASSUME NEW r, Startup!Changed(r), r.mirror = sRegistry.mirror
      PROVE  sInstalled' /\ sRegistry'.mirror = sLinks'
  BY <1>4 DEF Startup!Changed
<1>5. ASSUME NEW p \in Processes,
             Startup!UpsertTenant(p) \/ Startup!UpsertApplication(p)
                 \/ Startup!UpsertClient(p) \/ Startup!Backfill(p)
      PROVE  sInstalled' /\ sRegistry'.mirror = sLinks'
  <2>1. /\ [sRegistry EXCEPT !.tenant = "active"].mirror = sRegistry.mirror
        /\ [sRegistry EXCEPT !.application = [status |-> Startup!Status(p),
               face |-> FALSE]].mirror
                = sRegistry.mirror
        /\ [sRegistry EXCEPT !.client = Startup!SeededClient(p)].mirror = sRegistry.mirror
        /\ [sRegistry EXCEPT !.filed = Startup!Filed].mirror = sRegistry.mirror
    BY <1>1 DEF Registries
  <2> QED
    BY <1>5, <1>3, <2>1 DEF Startup!UpsertTenant, Startup!UpsertApplication,
       Startup!UpsertClient, Startup!Backfill
<1>6. ASSUME Startup!ChangeTenant \/ Startup!ChangeApplication \/ Startup!ChangeClient
                 \/ \E s \in Members : Startup!Mint(s)
      PROVE  sInstalled' /\ sRegistry'.mirror = sLinks'
  <2>1. /\ [sRegistry EXCEPT !.tenant = Startup!Flip(@)].mirror = sRegistry.mirror
        /\ [sRegistry EXCEPT !.application.status = Startup!Flip(@)].mirror = sRegistry.mirror
        /\ [sRegistry EXCEPT !.application.face = TRUE].mirror = sRegistry.mirror
        /\ [sRegistry EXCEPT !.client.status = Startup!Flip(@)].mirror = sRegistry.mirror
        /\ \A s \in Members : [sRegistry EXCEPT !.filed[s] = "null"].mirror = sRegistry.mirror
    BY <1>1 DEF Registries
  <2> QED
    BY <1>6, <1>4, <2>1 DEF Startup!ChangeTenant, Startup!ChangeApplication,
       Startup!ChangeClient, Startup!Mint
<1>7. ASSUME NEW a \in Accounts, NEW s \in Members, Startup!Link(a, s)
      PROVE  sInstalled' /\ sRegistry'.mirror = sLinks'
  <2>1. sRegistry' = [sRegistry EXCEPT !.mirror = [sRegistry.mirror EXCEPT ![a] = s],
                        !.audits[a] = @ + 1]
            /\ sLinks' = [sLinks EXCEPT ![a] = s] /\ UNCHANGED sInstalled
    BY <1>1, <1>7 DEF Startup!Link, Startup!Mirrors, Registries
  <2> QED
    BY <1>1, <2>1 DEF Registries
<1> QED
  BY <1>2, <1>5, <1>6, <1>7 DEF Startup!Next, Startup!Begin, Startup!Schema,
     Startup!ReadApplication, Startup!Fail, Startup!Crash

-----------------------------------------------------------------------------
(* The rate limiter                                                        *)

\* A request with what the counter answered it; `live` while that counter lasts.
Counted == [step : {"EXPIRE", "DECIDE"}, count : Nat, live : BOOLEAN]

\* The requests that are about to be admitted by this counter.
Admissible ==
    {q \in Requests :
        bRequests[q] # Limiter!Idle /\ bRequests[q].live /\ bRequests[q].count =< Limit}

\* The types of the limiter.
LimiterTypes ==
    /\ bCount \in 0..Limiter!Bound /\ bLifetime \in 0..Window /\ bAdmitted \in Nat
    /\ bTorn \in BOOLEAN /\ bRequests \in [Requests -> {Limiter!Idle} \cup Counted]

\* The inductive invariant of the limiter: those admitted and those that may be are no
\* more than have been counted, and no more than the limit; a counter without a lifetime
\* has a request that will give it one.
LimiterInv ==
    /\ LimiterTypes
    /\ IsFiniteSet(Admissible)
    /\ bAdmitted + Cardinality(Admissible) =< bCount
    /\ bAdmitted + Cardinality(Admissible) =< Limit
    /\ bCount > 0 /\ bLifetime = 0 =>
        bTorn \/ \E q \in Requests :
            bRequests[q] # Limiter!Idle /\ bRequests[q].step = "EXPIRE" /\ bRequests[q].live

\* Before the first request.
LEMMA LimiterInit == Limiter!Init => LimiterInv
<1> SUFFICES ASSUME Limiter!Init PROVE LimiterInv
  OBVIOUS
<1> USE LimiterAssumption DEF Limiter!Init
<1>1. Admissible = {}
  BY DEF Admissible
<1>2. IsFiniteSet(Admissible) /\ Cardinality(Admissible) = 0
  BY <1>1, FS_EmptySet
<1>3. LimiterTypes
  <2>1. bRequests \in [Requests -> {Limiter!Idle} \cup Counted]
    OBVIOUS
  <2>2. bCount \in 0..Limiter!Bound /\ bLifetime \in 0..Window /\ bAdmitted \in Nat
    BY DEF Limiter!Bound
  <2> QED
    BY <2>1, <2>2 DEF LimiterTypes
<1> QED
  BY <1>2, <1>3 DEF LimiterInv

\* A request is counted.
LEMMA LimiterIncrement ==
    ASSUME LimiterInv, NEW q \in Requests, Limiter!Increment(q)
    PROVE  LimiterInv'
<1> USE LimiterAssumption DEF LimiterInv, LimiterTypes, Limiter!Bound
<1> DEFINE n == IF bCount < Limiter!Bound THEN bCount + 1 ELSE Limiter!Bound
           r == [step |-> IF Limiter!SetsLifetime(n) THEN "EXPIRE" ELSE "DECIDE",
                 count |-> n, live |-> TRUE]
<1>1. /\ bRequests[q] = Limiter!Idle /\ bCount' = n
      /\ bRequests' = [bRequests EXCEPT ![q] = r]
      /\ bLifetime' = bLifetime /\ bAdmitted' = bAdmitted /\ bTorn' = bTorn
  BY DEF Limiter!Increment
<1>2. n \in 1..Limiter!Bound /\ (n =< Limit => n = bCount + 1) /\ n >= bCount
  OBVIOUS
<1>3. r \in Counted /\ r # Limiter!Idle /\ r.live /\ r.count = n
  BY <1>2 DEF Counted, Limiter!Idle
<1> HIDE DEF n, r
<1>4. LimiterTypes'
  BY <1>1, <1>2, <1>3
<1>5. q \notin Admissible
  BY <1>1 DEF Admissible
<1>6. bRequests'[q] = r /\ \A p \in Requests \ {q} : bRequests'[p] = bRequests[p]
  BY <1>1
<1>7. Admissible' = IF n =< Limit THEN Admissible \cup {q} ELSE Admissible
  BY <1>1, <1>3, <1>5, <1>6 DEF Admissible
<1>8. /\ IsFiniteSet(Admissible') /\ Cardinality(Admissible) \in Nat
      /\ Cardinality(Admissible') = Cardinality(Admissible) + (IF n =< Limit THEN 1 ELSE 0)
  BY <1>5, <1>7, FS_AddElement, FS_CardinalityType
<1>9. /\ bAdmitted' + Cardinality(Admissible') =< bCount'
      /\ bAdmitted' + Cardinality(Admissible') =< Limit
  BY <1>1, <1>2, <1>8
<1>10. bCount' > 0 /\ bLifetime' = 0 =>
        bTorn' \/ \E p \in Requests :
            bRequests'[p] # Limiter!Idle /\ bRequests'[p].step = "EXPIRE" /\ bRequests'[p].live
  <2>1. CASE bCount > 0
    BY <2>1, <1>1, <1>6
  <2>2. CASE bCount = 0
    <3>1. n = 1
      BY <2>2, <1>2 DEF n
    <3>2. r.step = "EXPIRE"
      BY <3>1 DEF r, Limiter!SetsLifetime
    <3> QED
      BY <3>2, <1>3, <1>6
  <2> QED
    BY <2>1, <2>2
<1> QED
  BY <1>4, <1>8, <1>9, <1>10

\* The request that made the counter gives it its lifetime.
LEMMA LimiterExpire ==
    ASSUME LimiterInv, NEW q \in Requests, Limiter!Expire(q)
    PROVE  LimiterInv'
<1> USE LimiterAssumption DEF LimiterInv, LimiterTypes, Limiter!Bound
<1>1. /\ bRequests[q].step = "EXPIRE"
      /\ bRequests' = [bRequests EXCEPT ![q].step = "DECIDE"]
      /\ bLifetime' = (IF bCount > 0 THEN Window ELSE 0)
      /\ bCount' = bCount /\ bAdmitted' = bAdmitted /\ bTorn' = bTorn
  BY DEF Limiter!Expire
<1>2. bRequests[q] \in Counted
  BY <1>1 DEF Limiter!Idle
<1>3. /\ [bRequests[q] EXCEPT !.step = "DECIDE"] \in Counted
      /\ [bRequests[q] EXCEPT !.step = "DECIDE"] # Limiter!Idle
      /\ [bRequests[q] EXCEPT !.step = "DECIDE"].live = bRequests[q].live
      /\ [bRequests[q] EXCEPT !.step = "DECIDE"].count = bRequests[q].count
  BY <1>2 DEF Counted, Limiter!Idle
<1>4. bRequests[q] # Limiter!Idle
  BY <1>1 DEF Limiter!Idle
<1>5. LimiterTypes'
  BY <1>1, <1>3
<1>6. Admissible' = Admissible
  BY <1>1, <1>3, <1>4 DEF Admissible
<1> QED
  BY <1>1, <1>5, <1>6

\* A request is answered.
LEMMA LimiterDecide ==
    ASSUME LimiterInv, NEW q \in Requests, Limiter!Decide(q)
    PROVE  LimiterInv'
<1> USE LimiterAssumption DEF LimiterInv, LimiterTypes, Limiter!Bound
<1>1. /\ bRequests[q].step = "DECIDE"
      /\ bRequests' = [bRequests EXCEPT ![q] = Limiter!Idle]
      /\ bAdmitted' = IF ~Limiter!Refused(bRequests[q].count) /\ bRequests[q].live
                      THEN bAdmitted + 1 ELSE bAdmitted
      /\ bCount' = bCount /\ bLifetime' = bLifetime /\ bTorn' = bTorn
  BY DEF Limiter!Decide
<1>2. bRequests[q] \in Counted /\ bRequests[q] # Limiter!Idle
  BY <1>1 DEF Limiter!Idle
<1>3. ~Limiter!Refused(bRequests[q].count) /\ bRequests[q].live <=> q \in Admissible
  BY <1>2 DEF Admissible, Counted, Limiter!Refused
<1>4. Admissible' = Admissible \ {q}
  BY <1>1 DEF Admissible
<1>5. /\ IsFiniteSet(Admissible') /\ Cardinality(Admissible) \in Nat
      /\ Cardinality(Admissible')
            = IF q \in Admissible THEN Cardinality(Admissible) - 1 ELSE Cardinality(Admissible)
  BY <1>4, FS_RemoveElement, FS_CardinalityType
<1>6. bAdmitted' + Cardinality(Admissible') = bAdmitted + Cardinality(Admissible)
  BY <1>1, <1>3, <1>5
<1>7. LimiterTypes'
  BY <1>1
<1>8. \A p \in Requests : bRequests[p].step = "EXPIRE" => bRequests'[p] = bRequests[p]
  BY <1>1
<1> QED
  BY <1>1, <1>5, <1>6, <1>7, <1>8

\* A request dies.
LEMMA LimiterCrash ==
    ASSUME LimiterInv, NEW q \in Requests, Limiter!Crash(q)
    PROVE  LimiterInv'
<1> USE LimiterAssumption DEF LimiterInv, LimiterTypes, Limiter!Bound
<1>1. /\ bRequests[q] # Limiter!Idle
      /\ bRequests' = [bRequests EXCEPT ![q] = Limiter!Idle]
      /\ bTorn' = (bTorn \/ (bRequests[q].step = "EXPIRE" /\ bRequests[q].live))
      /\ bCount' = bCount /\ bLifetime' = bLifetime /\ bAdmitted' = bAdmitted
  BY DEF Limiter!Crash
<1>2. bRequests[q].live \in BOOLEAN
  BY <1>1 DEF Counted
<1>3. LimiterTypes'
  BY <1>1, <1>2
<1>4. Admissible' = Admissible \ {q}
  BY <1>1 DEF Admissible
<1>5. /\ IsFiniteSet(Admissible') /\ Cardinality(Admissible) \in Nat
      /\ Cardinality(Admissible') \in Nat /\ Cardinality(Admissible') =< Cardinality(Admissible)
  <2>1. Admissible' \subseteq Admissible
    BY <1>4
  <2> QED
    BY <2>1, FS_Subset, FS_CardinalityType
<1>6. /\ bAdmitted' + Cardinality(Admissible') =< bCount'
      /\ bAdmitted' + Cardinality(Admissible') =< Limit
  BY <1>1, <1>5
<1>7. bCount' > 0 /\ bLifetime' = 0 =>
        bTorn' \/ \E p \in Requests :
            bRequests'[p] # Limiter!Idle /\ bRequests'[p].step = "EXPIRE" /\ bRequests'[p].live
  BY <1>1
<1> QED
  BY <1>3, <1>5, <1>6, <1>7

\* Time passes, and the counter may go.
LEMMA LimiterTick ==
    ASSUME LimiterInv, Limiter!Tick
    PROVE  LimiterInv'
<1> USE LimiterAssumption DEF LimiterInv, LimiterTypes, Limiter!Bound
<1>1. bLifetime > 0 /\ bLifetime' = bLifetime - 1 /\ bTorn' = bTorn
  BY DEF Limiter!Tick
<1>2. CASE bLifetime = 1
  <2>1. /\ bCount' = 0 /\ bAdmitted' = 0
        /\ bRequests' = [q \in Requests |-> IF bRequests[q] = Limiter!Idle THEN Limiter!Idle
                                            ELSE [bRequests[q] EXCEPT !.live = FALSE]]
    BY <1>2 DEF Limiter!Tick
  <2>2. \A q \in Requests : bRequests[q] # Limiter!Idle =>
            [bRequests[q] EXCEPT !.live = FALSE] \in Counted
            /\ ~[bRequests[q] EXCEPT !.live = FALSE].live
    BY DEF Counted
  <2>3. LimiterTypes'
    BY <1>1, <1>2, <2>1, <2>2
  <2>4. Admissible' = {}
    BY <2>1, <2>2 DEF Admissible
  <2>5. IsFiniteSet(Admissible') /\ Cardinality(Admissible') = 0
    BY <2>4, FS_EmptySet
  <2> QED
    BY <2>1, <2>3, <2>5
<1>3. CASE bLifetime # 1
  <2>1. bCount' = bCount /\ bAdmitted' = bAdmitted /\ bRequests' = bRequests
    BY <1>3 DEF Limiter!Tick
  <2>2. Admissible' = Admissible
    BY <2>1 DEF Admissible
  <2> QED
    BY <1>1, <1>3, <2>1, <2>2
<1> QED
  BY <1>2, <1>3

\* Every step of the limiter keeps its invariant.
LEMMA LimiterStep == LimiterInv /\ [Limiter!Next]_Limiter!vars => LimiterInv'
<1> SUFFICES ASSUME LimiterInv, [Limiter!Next]_Limiter!vars PROVE LimiterInv'
  OBVIOUS
<1>1. CASE UNCHANGED Limiter!vars
  BY <1>1 DEF Limiter!vars, LimiterInv, LimiterTypes, Admissible
<1> QED
  BY <1>1, LimiterIncrement, LimiterExpire, LimiterDecide, LimiterCrash, LimiterTick
  DEF Limiter!Next

\* What it says of the bucket.
LEMMA LimiterHolds == LimiterInv => Limiter!BucketBounded
<1> SUFFICES ASSUME LimiterInv PROVE Limiter!BucketBounded
  OBVIOUS
<1>1. Cardinality(Admissible) \in Nat
  BY FS_CardinalityType DEF LimiterInv
<1> QED
  BY <1>1, LimiterAssumption DEF LimiterInv, LimiterTypes, Limiter!BucketBounded

-----------------------------------------------------------------------------
(* The client of the platform                                              *)

\* The inductive invariant of the breaker: it agrees with its counts.
BreakerInv ==
    /\ pBreaker \in [state : {"closed", "open", "half-open"}, failures : 0..Threshold,
                     opened : 0..Reset \cup {Platform!None}]
    /\ Platform!BreakerAgrees

\* Before the first call.
LEMMA BreakerInit == Platform!Init => BreakerInv
BY PlatformAssumption
DEF Platform!Init, BreakerInv, Platform!BreakerAgrees, Platform!Closed, Platform!None

\* A failure, whenever it comes in.
LEMMA FailedAgrees ==
    ASSUME BreakerInv, pBreaker' = Platform!Failed
    PROVE  BreakerInv'
<1> USE PlatformAssumption DEF BreakerInv
<1> DEFINE n == IF pBreaker.failures < Threshold THEN pBreaker.failures + 1 ELSE Threshold
<1>1. n \in 1..Threshold
  OBVIOUS
<1>2. pBreaker.state = "half-open" => n = Threshold
  BY DEF Platform!BreakerAgrees
<1>3. CASE pBreaker.state = "half-open" \/ n = Threshold
  <2>1. pBreaker' = [state |-> "open", failures |-> Threshold, opened |-> 0]
    BY <1>2, <1>3 DEF Platform!Failed
  <2> QED
    BY <2>1 DEF Platform!BreakerAgrees, Platform!None
<1>4. CASE ~(pBreaker.state = "half-open" \/ n = Threshold)
  <2>1. pBreaker' = [pBreaker EXCEPT !.failures = n]
    BY <1>4 DEF Platform!Failed
  <2>2. pBreaker.state = "closed" /\ n < Threshold
    BY <1>4, <1>1 DEF Platform!BreakerAgrees
  <2> QED
    BY <2>1, <2>2, <1>1 DEF Platform!BreakerAgrees
<1> QED
  BY <1>3, <1>4

\* What a step may do to the breaker.
LEMMA BreakerMoves ==
    ASSUME [Platform!Next]_Platform!vars
    PROVE  \/ pBreaker' = pBreaker
           \/ pBreaker' = Platform!Closed
           \/ pBreaker' = Platform!Failed
           \/ pBreaker.state = "open" /\ pBreaker' = [pBreaker EXCEPT !.state = "half-open"]
           \/ Platform!Tick
<1>1. CASE \E c \in Calls \cup {Probe} : Platform!Admit(c)
  BY <1>1 DEF Platform!Admit, Platform!Refused
<1>2. CASE \E c \in Calls \cup {Probe}, status \in Platform!Answers : Platform!Answer(c, status)
  BY <1>2 DEF Platform!Answer, Platform!Succeeded
<1>3. CASE \E c \in Calls \cup {Probe}, status \in {408, 503} : Platform!Breaks(c, status)
  BY <1>3 DEF Platform!Breaks
<1>4. CASE \E c \in Calls \cup {Probe}, status \in {200, 500} : Platform!Body(c, status)
  BY <1>4 DEF Platform!Body
<1>5. CASE \E c \in Calls \cup {Probe} : Platform!Begin(c)
  BY <1>5 DEF Platform!Begin
<1>6. CASE Platform!Observe
  BY <1>6 DEF Platform!Observe
<1>7. CASE UNCHANGED Platform!vars
  BY <1>7 DEF Platform!vars
<1> QED
  BY <1>1, <1>2, <1>3, <1>4, <1>5, <1>6, <1>7 DEF Platform!Next

\* Every step of the client keeps the invariant.
LEMMA BreakerStep == BreakerInv /\ [Platform!Next]_Platform!vars => BreakerInv'
<1> SUFFICES ASSUME BreakerInv, [Platform!Next]_Platform!vars PROVE BreakerInv'
  OBVIOUS
<1> USE PlatformAssumption
<1>1. CASE pBreaker' = pBreaker
  BY <1>1 DEF BreakerInv, Platform!BreakerAgrees
<1>2. CASE pBreaker' = Platform!Closed
  BY <1>2 DEF BreakerInv, Platform!BreakerAgrees, Platform!Closed
<1>3. CASE pBreaker' = Platform!Failed
  BY <1>3, FailedAgrees
<1>4. CASE pBreaker.state = "open" /\ pBreaker' = [pBreaker EXCEPT !.state = "half-open"]
  BY <1>4 DEF BreakerInv, Platform!BreakerAgrees
<1>5. CASE Platform!Tick
  <2> DEFINE age == IF pBreaker.opened = Platform!None \/ pBreaker.opened >= Reset
                    THEN pBreaker.opened ELSE pBreaker.opened + 1
  <2>1. pBreaker' = [pBreaker EXCEPT !.opened = age]
    BY <1>5 DEF Platform!Tick, BreakerInv
  <2>2. age \in 0..Reset \cup {Platform!None}
        /\ (age = Platform!None <=> pBreaker.opened = Platform!None)
    BY DEF BreakerInv, Platform!None
  <2> HIDE DEF age
  <2> QED
    BY <2>1, <2>2 DEF BreakerInv, Platform!BreakerAgrees
<1> QED
  BY <1>1, <1>2, <1>3, <1>4, <1>5, BreakerMoves

-----------------------------------------------------------------------------
(* The theorems                                                            *)

\* What holds of this service while it is the one that runs.
SetupRuns == which = "setup" => Served!SetupInv

\* It holds first, and every step keeps it.
LEMMA SetupKept ==
    (Init => SetupRuns) /\ (SetupRuns /\ [Next]_all => SetupRuns')
<1>1. Init => SetupRuns
  BY SetupInit DEF Init, SetupRuns
<1>2. SetupRuns /\ [Next]_all => SetupRuns'
  <2> SUFFICES ASSUME Served!SetupInv, [Next]_all, which = "setup"
               PROVE  Served!SetupInv'
    BY DEF SetupRuns, Next, all
  <2>1. [Setup!Next]_Setup!vars
    BY DEF Next, all, fVars, Setup!vars
  <2> QED
    BY <2>1, SetupStep
<1> QED
  BY <1>1, <1>2

\* Forms that are repeated, late or cancelled have their effects once, and the
\* application is told one true outcome.
THEOREM SetupConsistentHolds == Spec => []SetupConsistent
<1>1. SetupRuns => SetupConsistent
  BY Served!ConsistentOfInv, SetupProperties DEF SetupRuns, SetupConsistent
<1> QED
  BY <1>1, SetupKept, PTL DEF Spec

\* A browser is kept waiting only while a request works on its interaction, or after
\* that request died.
THEOREM ProcessingHasWorkerHolds == Spec => []ProcessingHasWorker
<1>1. SetupRuns => ProcessingHasWorker
  BY Served!ProcessingOfInv, SetupProperties DEF SetupRuns, ProcessingHasWorker
<1> QED
  BY <1>1, SetupKept, PTL DEF Spec

\* No writer, however stale its snapshot, takes an interaction back to an earlier phase,
\* out of CANCELLED, or back to life.
THEOREM PhasesAdvanceHolds == Spec => PhasesAdvance
<1>1. SetupRuns /\ [Next]_all => [which = "setup" => Setup!Advances]_all
  <2> SUFFICES ASSUME Served!SetupInv, Next, which = "setup" PROVE Setup!Advances
    BY DEF SetupRuns
  <2>1. Setup!Next
    BY DEF Next
  <2>2. Served!Advances \/ UNCHANGED Served!vars
    BY <2>1, SetupSteps, Served!AdvancesStep
  <2>3. UNCHANGED Served!vars => Served!Advances
    BY DEF Served!vars, Served!Advances
  <2> QED
    BY <2>2, <2>3, SetupProperties
<1> QED
  BY <1>1, SetupKept, PTL DEF Spec, PhasesAdvance

\* What holds of this service while it is the one that runs.
LegacyRuns == which = "legacy" => LegacyInv

\* It holds first, and every step keeps it.
LEMMA LegacyKept ==
    (Init => LegacyRuns) /\ (LegacyRuns /\ [Next]_all => LegacyRuns')
<1>1. Init => LegacyRuns
  BY LegacyInit DEF Init, LegacyRuns
<1>2. LegacyRuns /\ [Next]_all => LegacyRuns'
  <2> SUFFICES ASSUME LegacyInv, [Next]_all, which = "legacy"
               PROVE  LegacyInv'
    BY DEF LegacyRuns, Next, all
  <2>1. [Legacy!Next]_Legacy!vars
    BY DEF Next, all, lVars, Legacy!vars
  <2> QED
    BY <2>1, LegacyStep
<1> QED
  BY <1>1, <1>2

\* However many browsers and webhooks finish enrollments at once, and however they die,
\* a completed enrollment enrolled its own face, and one whose face is in place is
\* completed, unless the webhook that put it there still works or has died.
THEOREM EnrollmentsAgreeHolds == Spec => []EnrollmentsAgree
<1>1. LegacyRuns => EnrollmentsAgree
  BY DEF LegacyRuns, EnrollmentsAgree, LegacyInv
<1> QED
  BY <1>1, LegacyKept, PTL DEF Spec

\* What holds of this service while it is the one that runs.
AdministrationRuns == which = "administration" => AdministrationInv

\* It holds first, and every step keeps it.
LEMMA AdministrationKept ==
    (Init => AdministrationRuns) /\ (AdministrationRuns /\ [Next]_all => AdministrationRuns')
<1>1. Init => AdministrationRuns
  BY AdministrationInit DEF Init, AdministrationRuns
<1>2. AdministrationRuns /\ [Next]_all => AdministrationRuns'
  <2> SUFFICES ASSUME AdministrationInv, [Next]_all, which = "administration"
               PROVE  AdministrationInv'
    BY DEF AdministrationRuns, Next, all
  <2>1. [Admin!Next]_Admin!vars
    BY DEF Next, all, aVars, Admin!vars, Admin!rows
  <2> QED
    BY <2>1, AdministrationStep
<1> QED
  BY <1>1, <1>2

\* A link that was answered is the link on record, and no recovery or registration gives
\* two subjects the same principal, whatever links, merges and recoveries run at once.
THEOREM OneToOneHolds == Spec => []OneToOne
<1>1. AdministrationRuns => OneToOne
  BY OneToOneOfInv DEF AdministrationRuns, OneToOne
<1> QED
  BY <1>1, AdministrationKept, PTL DEF Spec

\* The owner on record of a claim is who wrote its value, of every subject whose writers
\* did not cross or die.
THEOREM ProvenanceOwnedHolds == Spec => []ProvenanceOwned
<1>1. AdministrationRuns => ProvenanceOwned
  BY DEF AdministrationRuns, ProvenanceOwned, AdministrationInv
<1> QED
  BY <1>1, AdministrationKept, PTL DEF Spec

\* A merge that was answered left nothing active of the subject that was merged.
THEOREM MergeCompletesHolds == Spec => []MergeCompletes
<1>1. AdministrationRuns => MergeCompletes
  BY DEF AdministrationRuns, MergeCompletes, AdministrationInv
<1> QED
  BY <1>1, AdministrationKept, PTL DEF Spec

\* What holds of this service while it is the one that runs.
KeysRuns == which = "keys" => KeysInv

\* It holds first, and every step keeps it.
LEMMA KeysKept ==
    (Init => KeysRuns) /\ (KeysRuns /\ [Next]_all => KeysRuns')
<1>1. Init => KeysRuns
  BY KeysInit DEF Init, KeysRuns
<1>2. KeysRuns /\ [Next]_all => KeysRuns'
  <2> SUFFICES ASSUME KeysInv, [Next]_all, which = "keys"
               PROVE  KeysInv'
    BY DEF KeysRuns, Next, all
  <2>1. [Keys!Next]_Keys!vars
    BY DEF Next, all, kVars, Keys!vars
  <2> QED
    BY <2>1, KeysStep
<1> QED
  BY <1>1, <1>2

\* A key of the ring that is replaced was active for the interval, less what a call may
\* take, unless two calls changed keys at once or one died between its two writes.
THEOREM KeysKeepTheirIntervalHolds == Spec => KeysKeepTheirInterval
<1>1. KeysRuns /\ [Next]_all => [which = "keys" => Keys!KeepsItsInterval]_all
  <2> SUFFICES ASSUME KeysInv, Next, which = "keys" PROVE Keys!KeepsItsInterval
    BY DEF KeysRuns
  <2>1. Keys!Next
    BY DEF Next
  <2>2. CASE UNCHANGED Keys!vars
    BY <2>2 DEF Keys!vars, Keys!KeepsItsInterval
  <2>3. CASE ~UNCHANGED Keys!vars
    BY <2>1, <2>3, IntervalKept
  <2> QED
    BY <2>2, <2>3
<1> QED
  BY <1>1, KeysKept, PTL DEF Spec, KeysKeepTheirInterval

\* What holds of this service while it is the one that runs.
CacheRuns == which = "cache" => CacheInv

\* It holds first, and every step keeps it.
LEMMA CacheKept ==
    (Init => CacheRuns) /\ (CacheRuns /\ [Next]_all => CacheRuns')
<1>1. Init => CacheRuns
  BY CacheInit DEF Init, CacheRuns
<1>2. CacheRuns /\ [Next]_all => CacheRuns'
  <2> SUFFICES ASSUME CacheInv, [Next]_all, which = "cache"
               PROVE  CacheInv'
    BY DEF CacheRuns, Next, all
  <2>1. [Cache!Next]_Cache!vars
    BY DEF Next, all, cVars, Cache!vars
  <2> QED
    BY <2>1, CacheStep
<1> QED
  BY <1>1, <1>2

\* No answer is served from the cache longer after it ended than an entry and the call
\* that stored it last, however reads, invalidations and changes cross.
THEOREM StalenessBoundedHolds == Spec => []StalenessBounded
<1>1. CacheRuns => StalenessBounded
  BY DEF CacheRuns, StalenessBounded, CacheInv
<1> QED
  BY <1>1, CacheKept, PTL DEF Spec

\* What holds of this service while it is the one that runs.
IssuanceRuns == which = "issuance" => JustifiedInv

\* It holds first, and every step keeps it.
LEMMA IssuanceKept ==
    (Init => IssuanceRuns) /\ (IssuanceRuns /\ [Next]_all => IssuanceRuns')
<1>1. Init => IssuanceRuns
  BY InitJustified DEF Init, IssuanceRuns
<1>2. IssuanceRuns /\ [Next]_all => IssuanceRuns'
  <2> SUFFICES ASSUME JustifiedInv, [Next]_all, which = "issuance"
               PROVE  JustifiedInv'
    BY DEF IssuanceRuns, Next, all
  <2>1. [Issuance!Next]_Issuance!vars
    BY DEF Next, all, iVars, Issuance!vars
  <2> QED
    BY <2>1, JustifiedStep
<1> QED
  BY <1>1, <1>2

\* Every code, every pair of tokens and every answer of /userinfo is one that the registry
\* justified while it was asked for: nothing is issued to a request through the whole of
\* which something it depends on was withdrawn, and no claims are sent that the registry
\* had only before, for any number of requests and of changes.
THEOREM AnswersJustifiedHolds == Spec => []AnswersJustified
<1>1. IssuanceRuns => AnswersJustified
  BY DEF IssuanceRuns, AnswersJustified, JustifiedInv
<1> QED
  BY <1>1, IssuanceKept, PTL DEF Spec

\* What holds of this service while it is the one that runs.
StartupRuns == which = "startup" => StartupInv

\* It holds first, and every step keeps it.
LEMMA StartupKept ==
    (Init => StartupRuns) /\ (StartupRuns /\ [Next]_all => StartupRuns')
<1>1. Init => StartupRuns
  BY StartupInit DEF Init, StartupRuns
<1>2. StartupRuns /\ [Next]_all => StartupRuns'
  <2> SUFFICES ASSUME StartupInv, [Next]_all, which = "startup"
               PROVE  StartupInv'
    BY DEF StartupRuns, Next, all
  <2>1. [Startup!Next]_Startup!vars
    BY DEF Next, all, sVars, Startup!vars
  <2> QED
    BY <2>1, StartupStep
<1> QED
  BY <1>1, <1>2

\* However many processes start, fail and die at once, and whatever administrators and
\* Bookwrm do meanwhile: once a seed is complete the application has every legacy link,
\* and each is audited once.
THEOREM LinksMigratedHolds == Spec => []LinksMigrated
<1>1. StartupRuns => LinksMigrated
  BY StartupHolds DEF StartupRuns, LinksMigrated
<1> QED
  BY <1>1, StartupKept, PTL DEF Spec

\* No start readmits a client that was suspended, nor an application, unless it was
\* suspended between the two steps of a start on it.
THEOREM DecisionsStandHolds == Spec => []DecisionsStand
<1>1. StartupRuns => DecisionsStand
  BY StartupHolds DEF StartupRuns, DecisionsStand
<1> QED
  BY <1>1, StartupKept, PTL DEF Spec

\* A start that repeats an undisturbed seed changes nothing.
THEOREM SeedIsIdempotentHolds == Spec => SeedIsIdempotent
<1>1. StartupRuns /\ [Next]_all => [which = "startup" => Startup!Idempotent]_all
  <2> SUFFICES ASSUME StartupInv, Next, which = "startup" PROVE Startup!Idempotent
    BY DEF StartupRuns
  <2>1. Startup!Next
    BY DEF Next
  <2>2. CASE UNCHANGED Startup!vars
    BY <2>2 DEF Startup!vars, Startup!Idempotent
  <2>3. CASE ~UNCHANGED Startup!vars
    BY <2>1, <2>3, StartupIdempotent
  <2> QED
    BY <2>2, <2>3
<1> QED
  BY <1>1, StartupKept, PTL DEF Spec, SeedIsIdempotent

\* Once the application has every link, it has those that are made later, too.
THEOREM LinksStayMirrored ==
    Spec => [][which = "startup" /\ sInstalled /\ sRegistry.mirror = sLinks =>
                    sInstalled' /\ sRegistry'.mirror = sLinks']_all
<1>1. StartupRuns /\ [Next]_all =>
        [which = "startup" /\ sInstalled /\ sRegistry.mirror = sLinks =>
            sInstalled' /\ sRegistry'.mirror = sLinks']_all
  BY StartupMirrors DEF StartupRuns, Next
<1> QED
  BY <1>1, StartupKept, PTL DEF Spec

\* What holds of this service while it is the one that runs.
LimiterRuns == which = "limiter" => LimiterInv

\* It holds first, and every step keeps it.
LEMMA LimiterKept ==
    (Init => LimiterRuns) /\ (LimiterRuns /\ [Next]_all => LimiterRuns')
<1>1. Init => LimiterRuns
  BY LimiterInit DEF Init, LimiterRuns
<1>2. LimiterRuns /\ [Next]_all => LimiterRuns'
  <2> SUFFICES ASSUME LimiterInv, [Next]_all, which = "limiter"
               PROVE  LimiterInv'
    BY DEF LimiterRuns, Next, all
  <2>1. [Limiter!Next]_Limiter!vars
    BY DEF Next, all, bVars, Limiter!vars
  <2> QED
    BY <2>1, LimiterStep
<1> QED
  BY <1>1, <1>2

\* One counter lets no more than its limit through, however many requests are counted,
\* overtaken or dead, and only a request that died between its two commands leaves it
\* without a lifetime.
THEOREM BucketBoundedHolds == Spec => []BucketBounded
<1>1. LimiterRuns => BucketBounded
  BY LimiterHolds DEF LimiterRuns, BucketBounded
<1> QED
  BY <1>1, LimiterKept, PTL DEF Spec

\* What holds of this service while it is the one that runs.
PlatformRuns == which = "platform" => BreakerInv

\* It holds first, and every step keeps it.
LEMMA PlatformKept ==
    (Init => PlatformRuns) /\ (PlatformRuns /\ [Next]_all => PlatformRuns')
<1>1. Init => PlatformRuns
  BY BreakerInit DEF Init, PlatformRuns
<1>2. PlatformRuns /\ [Next]_all => PlatformRuns'
  <2> SUFFICES ASSUME BreakerInv, [Next]_all, which = "platform"
               PROVE  BreakerInv'
    BY DEF PlatformRuns, Next, all
  <2>1. [Platform!Next]_Platform!vars
    BY DEF Next, all, pVars, Platform!vars
  <2> QED
    BY <2>1, BreakerStep
<1> QED
  BY <1>1, <1>2

\* However late the results of calls come in and however many there are, the breaker is
\* closed exactly while the failures since the last success are below the threshold, and
\* knows when it opened exactly while it is not.
THEOREM BreakerAgreesHolds == Spec => []BreakerAgrees
<1>1. PlatformRuns => BreakerAgrees
  BY DEF PlatformRuns, BreakerAgrees, BreakerInv
<1> QED
  BY <1>1, PlatformKept, PTL DEF Spec
=============================================================================
