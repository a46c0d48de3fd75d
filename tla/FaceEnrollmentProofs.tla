------------------------ MODULE FaceEnrollmentProofs ------------------------
(***************************************************************************)
(* Theorems about FaceEnrollment, for any subjects, clients, faces,        *)
(* ceremonies and webhooks, any freshness and any life of a ceremony.      *)
(*                                                                         *)
(* A webhook decides in three steps by what it reads in each; what it read *)
(* stays true because it holds the row of the subject and those of the     *)
(* client, and because no other webhook holds the same subject.            *)
(***************************************************************************)
EXTENDS FaceEnrollment, FiniteSetTheorems, TLAPS

Known(c) == ceremonies[c] # NoCeremony
Holds(w) == webhooks[w] # Idle
HeldBy(w) == webhooks[w].ceremony

\* A request has a start only for the ceremony it reserved.
Started == \A c \in Ceremonies : starts[c] # "NONE" => Known(c)

\* Every ceremony was consented to and ends in time for its e-mail proof.
Grounded ==
    \A c \in Ceremonies : Known(c) =>
        /\ <<ceremonies[c].subject, ceremonies[c].client>> \in consents
        /\ ceremonies[c].expires =< ceremonies[c].authAt + Freshness + TTL

\* A webhook that holds the rows of a ceremony has read them as they still are.
Held ==
    \A w \in Webhooks : Holds(w) =>
        /\ Pending(HeldBy(w)) /\ ceremonies[HeldBy(w)].bound
        /\ Context(ceremonies[HeldBy(w)].subject, ceremonies[HeldBy(w)].client)

\* No two webhooks hold the row of the same subject.
OneHolder ==
    \A v, w \in Webhooks :
        Holds(v) /\ Holds(w) /\ ceremonies[HeldBy(v)].subject = ceremonies[HeldBy(w)].subject
            => v = w

\* A subject has one active face at most.
OneFace == \A s \in Subjects : \A f, g \in ActiveFaces(s) : f = g

\* The inductive invariant.
FaceInv ==
    /\ TypeOK /\ OnePendingPerSubject
    /\ Started /\ Grounded /\ Held /\ OneHolder /\ OneFace

-----------------------------------------------------------------------------
(* What a step may do to a ceremony.                                       *)

\* It is reserved,
Created(c) ==
    /\ ceremonies[c] = NoCeremony
    /\ \E s \in Subjects, cl \in Clients, at \in Times :
          Admitted(s, cl, at) /\ ceremonies'[c] = Fresh(s, cl, at)

\* or it was pending and keeps its subject, its client and its proof.
Advanced(c) ==
    /\ Pending(c) /\ Known(c)'
    /\ ceremonies'[c].subject = ceremonies[c].subject
    /\ ceremonies'[c].client = ceremonies[c].client
    /\ ceremonies'[c].authAt = ceremonies[c].authAt
    /\ ceremonies'[c].expires =< ceremonies[c].expires
    /\ ceremonies[c].bound => ceremonies'[c].bound

Moved == \A c \in Ceremonies : ceremonies'[c] = ceremonies[c] \/ Created(c) \/ Advanced(c)

\* The ceremony of a webhook that holds rows is one of Ceremonies, its face one of Faces.
LEMMA HeldTyped ==
    ASSUME TypeOK, NEW w \in Webhooks, Holds(w)
    PROVE  /\ HeldBy(w) \in Ceremonies /\ webhooks[w].face \in Faces
           /\ webhooks[w].stage \in {"HELD", "CHECKED"}
           /\ webhooks[w] = [stage |-> webhooks[w].stage, ceremony |-> HeldBy(w),
                             face |-> webhooks[w].face]
BY DEF TypeOK, Deliveries, Holds, HeldBy

\* A known ceremony is a row.
LEMMA KnownTyped ==
    ASSUME TypeOK, NEW c \in Ceremonies, Known(c)
    PROVE  ceremonies[c] \in CeremonyRows
BY DEF TypeOK, Known

\* Editing a row leaves a row.
LEMMA RowEdits ==
    ASSUME NEW e \in CeremonyRows, NEW status \in {"pending", "completed", "failed", "expired"},
           NEW until \in Times, NEW f \in Faces
    PROVE  /\ [e EXCEPT !.status = status] \in CeremonyRows
           /\ [e EXCEPT !.status = status, !.conflict = TRUE] \in CeremonyRows
           /\ [e EXCEPT !.status = status, !.face = f] \in CeremonyRows
           /\ [e EXCEPT !.bound = TRUE, !.expires = until] \in CeremonyRows
BY DEF CeremonyRows

\* A fresh ceremony is a row.
LEMMA FreshTyped ==
    ASSUME clock \in 0..MaxTime, NEW s \in Subjects, NEW cl \in Clients, NEW at \in Times
    PROVE  Fresh(s, cl, at) \in CeremonyRows /\ Fresh(s, cl, at) # NoCeremony
<1>1. clock + TTL \in Times
  BY PositiveTimes DEF Times
<1>2. Fresh(s, cl, at) \in CeremonyRows
  BY <1>1 DEF Fresh, CeremonyRows
<1> QED
  BY <1>2, NoCeremonyRow

-----------------------------------------------------------------------------
(* The conjuncts of the invariant about ceremonies, for the kinds of step. *)

\* A step that leaves the ceremonies alone and lets webhooks go at most.
LEMMA RowsKept ==
    ASSUME FaceInv, UNCHANGED ceremonies, consents \subseteq consents',
           \A c \in Ceremonies : starts'[c] # "NONE" => starts[c] # "NONE",
           \A w \in Webhooks : Holds(w)' => Holds(w) /\ HeldBy(w)' = HeldBy(w),
           \A w \in Webhooks : Holds(w)' =>
              Context(ceremonies[HeldBy(w)].subject, ceremonies[HeldBy(w)].client)'
    PROVE  OnePendingPerSubject' /\ Started' /\ Grounded' /\ Held' /\ OneHolder' /\ Moved
<1>1. OnePendingPerSubject'
  BY DEF FaceInv, OnePendingPerSubject, Pending
<1>2. Started'
  BY DEF FaceInv, Started, Known
<1>3. Grounded'
  BY DEF FaceInv, Grounded, Known
<1>4. Held'
  BY DEF FaceInv, Held, Pending
<1>5. OneHolder'
  BY DEF FaceInv, OneHolder
<1>6. Moved
  BY DEF Moved
<1> QED
  BY <1>1, <1>2, <1>3, <1>4, <1>5, <1>6

\* A step that takes one pending ceremony on, which no webhook holds afterwards.
LEMMA RowAdvances ==
    ASSUME FaceInv, NEW c \in Ceremonies, Pending(c), NEW e \in CeremonyRows,
           ceremonies' = [ceremonies EXCEPT ![c] = e],
           e.subject = ceremonies[c].subject, e.client = ceremonies[c].client,
           e.authAt = ceremonies[c].authAt, e.expires =< ceremonies[c].expires,
           ceremonies[c].bound => e.bound,
           UNCHANGED <<eligible, open, consents>>,
           \A d \in Ceremonies : starts'[d] # "NONE" => starts[d] # "NONE",
           \A w \in Webhooks : Holds(w)' =>
              Holds(w) /\ HeldBy(w)' = HeldBy(w) /\ HeldBy(w) # c
    PROVE  OnePendingPerSubject' /\ Started' /\ Grounded' /\ Held' /\ OneHolder' /\ Moved
<1> USE DEF FaceInv
<1>1. /\ ceremonies'[c] = e /\ e # NoCeremony
      /\ \A d \in Ceremonies : d # c => ceremonies'[d] = ceremonies[d]
      /\ Known(c)
  BY NoCeremonyRow DEF TypeOK, Pending, Known
<1>2. \A d \in Ceremonies : Pending(d)' => Pending(d)
  BY <1>1 DEF Pending
<1>3. \A d \in Ceremonies : Known(d) => /\ ceremonies'[d].subject = ceremonies[d].subject
                                        /\ ceremonies'[d].client = ceremonies[d].client
  BY <1>1
<1>4. OnePendingPerSubject'
  BY <1>2, <1>3 DEF OnePendingPerSubject, Pending, Known
<1>5. Started'
  BY <1>1 DEF Started, Known
<1>6. Grounded'
  <2> SUFFICES ASSUME NEW d \in Ceremonies, Known(d)'
               PROVE  /\ <<ceremonies'[d].subject, ceremonies'[d].client>> \in consents'
                      /\ ceremonies'[d].expires =< ceremonies'[d].authAt + Freshness + TTL
    BY DEF Grounded
  <2>1. CASE d # c
    BY <2>1, <1>1 DEF Grounded, Known
  <2>2. CASE d = c
    <3>1. ceremonies[c] \in CeremonyRows
      BY <1>1, KnownTyped
    <3>2. /\ e.expires \in Int /\ ceremonies[c].expires \in Int /\ e.authAt \in Int
          /\ Freshness \in Int /\ TTL \in Int
      BY <3>1, PositiveTimes DEF CeremonyRows, Times
    <3>3. /\ <<ceremonies[c].subject, ceremonies[c].client>> \in consents
          /\ ceremonies[c].expires =< ceremonies[c].authAt + Freshness + TTL
      BY <1>1 DEF Grounded
    <3> QED
      BY <2>2, <1>1, <3>2, <3>3
  <2> QED
    BY <2>1, <2>2
<1>7. Held'
  <2> SUFFICES ASSUME NEW w \in Webhooks, Holds(w)'
               PROVE  /\ Pending(HeldBy(w))' /\ ceremonies'[HeldBy(w)'].bound
                      /\ Context(ceremonies[HeldBy(w)].subject, ceremonies[HeldBy(w)].client)'
    BY DEF Held
  <2>1. Holds(w) /\ HeldBy(w)' = HeldBy(w) /\ HeldBy(w) # c
    OBVIOUS
  <2>2. ceremonies'[HeldBy(w)] = ceremonies[HeldBy(w)]
    BY <2>1, <1>1, HeldTyped
  <2> QED
    BY <2>1, <2>2 DEF Held, Pending, Context
<1>8. OneHolder'
  <2> SUFFICES ASSUME NEW v \in Webhooks, NEW w \in Webhooks, Holds(v)', Holds(w)',
                      ceremonies'[HeldBy(v)'].subject = ceremonies'[HeldBy(w)'].subject
               PROVE  v = w
    BY DEF OneHolder
  <2>1. /\ Holds(v) /\ HeldBy(v)' = HeldBy(v) /\ HeldBy(v) # c
        /\ Holds(w) /\ HeldBy(w)' = HeldBy(w) /\ HeldBy(w) # c
    OBVIOUS
  <2>2. /\ ceremonies'[HeldBy(v)] = ceremonies[HeldBy(v)]
        /\ ceremonies'[HeldBy(w)] = ceremonies[HeldBy(w)]
    BY <2>1, <1>1, HeldTyped
  <2> QED
    BY <2>1, <2>2 DEF OneHolder
<1>9. Moved
  BY <1>1 DEF Moved, Advanced, Known
<1> QED
  BY <1>4, <1>5, <1>6, <1>7, <1>8, <1>9

-----------------------------------------------------------------------------
(* The steps.                                                              *)

\* Faces that stay as they are keep to one active face for each subject.
LEMMA FacesKept ==
    ASSUME OneFace, UNCHANGED authenticators
    PROVE  OneFace'
BY DEF OneFace, ActiveFaces

\* A step that attaches no face to a subject keeps to one active face for each.
LEMMA FacesShrink ==
    ASSUME OneFace, \A s \in Subjects : ActiveFaces(s)' \subseteq ActiveFaces(s)
    PROVE  OneFace'
BY DEF OneFace

\* The count of other writers' steps stays within its bound.
LEMMA ChangeTyped ==
    ASSUME TypeOK, Change
    PROVE  changes' \in 0..MaxChanges
<1>1. changes \in Int /\ MaxChanges \in Int /\ 0 =< changes
  BY PositiveTimes DEF TypeOK
<1>2. changes < MaxChanges /\ changes' = changes + 1
  BY DEF Change
<1> QED
  BY <1>1, <1>2

\* Steps that touch neither ceremonies nor webhooks nor faces.
LEMMA QuietSteps ==
    ASSUME FaceInv,
           \/ \E s \in Subjects, cl \in Clients, at \in Times : AcceptConsent(s, cl, at)
           \/ \E c \in Ceremonies : CreateSession(c) \/ CrashStart(c)
           \/ \E f \in Faces : LegacyIdentity(f)
           \/ Tick
           \/ UNCHANGED vars
    PROVE  FaceInv' /\ Moved
<1> USE DEF FaceInv
<1>1. /\ UNCHANGED <<ceremonies, webhooks, authenticators, eligible, open>>
      /\ consents \subseteq consents'
      /\ \A c \in Ceremonies : starts'[c] # "NONE" => starts[c] # "NONE"
  BY DEF AcceptConsent, CreateSession, CrashStart, LegacyIdentity, Tick, vars, rows, TypeOK
<1>2. TypeOK'
  <2>1. CASE \E s \in Subjects, cl \in Clients, at \in Times : AcceptConsent(s, cl, at)
    BY <2>1 DEF AcceptConsent, TypeOK
  <2>2. CASE \E c \in Ceremonies : CreateSession(c)
    BY <2>2 DEF CreateSession, rows, TypeOK
  <2>3. CASE \E c \in Ceremonies : CrashStart(c)
    BY <2>3 DEF CrashStart, rows, TypeOK
  <2>4. CASE \E f \in Faces : LegacyIdentity(f)
    BY <2>4, ChangeTyped DEF LegacyIdentity, TypeOK
  <2>5. CASE Tick
    <3>1. clock' \in 0..MaxTime
      BY <2>5, PositiveTimes DEF Tick, TypeOK
    <3> QED
      BY <3>1, <2>5 DEF Tick, rows, TypeOK
  <2>6. CASE UNCHANGED vars
    BY <2>6 DEF vars, TypeOK
  <2> QED
    BY <2>1, <2>2, <2>3, <2>4, <2>5, <2>6
<1>3. OneFace'
  BY <1>1, FacesKept
<1>4. \A w \in Webhooks : Holds(w)' =>
         /\ Holds(w) /\ HeldBy(w)' = HeldBy(w)
         /\ Context(ceremonies[HeldBy(w)].subject, ceremonies[HeldBy(w)].client)'
  BY <1>1 DEF Held, Holds, HeldBy, Context
<1>5. OnePendingPerSubject' /\ Started' /\ Grounded' /\ Held' /\ OneHolder' /\ Moved
  BY <1>1, <1>4, RowsKept
<1> QED
  BY <1>2, <1>3, <1>5

\* Steps of others that are kept from the subjects and clients of held ceremonies.
LEMMA ClosingSteps ==
    ASSUME FaceInv,
           \/ \E s \in Subjects : Retire(s)
           \/ \E cl \in Clients : CloseClient(cl)
    PROVE  FaceInv' /\ Moved
<1> USE DEF FaceInv
<1>1. /\ UNCHANGED <<ceremonies, webhooks, authenticators, starts, consents>>
  BY DEF Retire, CloseClient
<1>2. TypeOK'
  <2>1. changes' \in 0..MaxChanges
    BY ChangeTyped DEF Retire, CloseClient
  <2> QED
    BY <2>1 DEF Retire, CloseClient, TypeOK
<1>3. OneFace'
  BY <1>1, FacesKept
<1>4. \A w \in Webhooks : Holds(w)' => Holds(w) /\ HeldBy(w)' = HeldBy(w)
  BY <1>1 DEF Holds, HeldBy
<1>5. \A w \in Webhooks : Holds(w)' =>
         Context(ceremonies[HeldBy(w)].subject, ceremonies[HeldBy(w)].client)'
  BY <1>1 DEF Held, Holds, HeldBy, Context, Retire, CloseClient, SubjectFree, ClientFree
<1>6. OnePendingPerSubject' /\ Started' /\ Grounded' /\ Held' /\ OneHolder' /\ Moved
  BY <1>1, <1>4, <1>5, RowsKept
<1> QED
  BY <1>2, <1>3, <1>6

\* Steps of others on the faces' rows.
LEMMA FaceSteps ==
    ASSUME FaceInv,
           \/ \E f \in Faces : LegacyAuthenticator(f) \/ Revoke(f) \/ Repair(f)
           \/ \E from \in Subjects \cup Faces, to \in Subjects : Reassign(from, to)
    PROVE  FaceInv' /\ Moved
<1> USE DEF FaceInv
<1>1. UNCHANGED <<clock, ceremonies, webhooks, eligible, open, starts, consents, legacy>>
  BY DEF LegacyAuthenticator, Revoke, Repair, Reassign
<1>2. TypeOK'
  <2>1. changes' \in 0..MaxChanges
    BY ChangeTyped DEF LegacyAuthenticator, Revoke, Repair, Reassign
  <2>2. authenticators' \in [Faces -> AuthenticatorRows]
    <3>1. ASSUME NEW f \in Faces, LegacyAuthenticator(f)
          PROVE  authenticators' \in [Faces -> AuthenticatorRows]
      BY <3>1 DEF LegacyAuthenticator, TypeOK, AuthenticatorRows
    <3>2. ASSUME NEW f \in Faces, Revoke(f)
          PROVE  authenticators' \in [Faces -> AuthenticatorRows]
      BY <3>2 DEF Revoke, TypeOK, AuthenticatorRows
    <3>3. ASSUME NEW f \in Faces, Repair(f)
          PROVE  authenticators' \in [Faces -> AuthenticatorRows]
      BY <3>3 DEF Repair, TypeOK, AuthenticatorRows
    <3>4. ASSUME NEW from \in Subjects \cup Faces, NEW to \in Subjects, Reassign(from, to)
          PROVE  authenticators' \in [Faces -> AuthenticatorRows]
      BY <3>4 DEF Reassign, TypeOK, AuthenticatorRows
    <3> QED
      BY <3>1, <3>2, <3>3, <3>4
  <2> QED
    BY <1>1, <2>1, <2>2 DEF TypeOK
<1>3. \A w \in Webhooks : Holds(w)' =>
         /\ Holds(w) /\ HeldBy(w)' = HeldBy(w)
         /\ Context(ceremonies[HeldBy(w)].subject, ceremonies[HeldBy(w)].client)'
  BY <1>1 DEF Held, Holds, HeldBy, Context
<1>4. OnePendingPerSubject' /\ Started' /\ Grounded' /\ Held' /\ OneHolder' /\ Moved
  BY <1>1, <1>3, RowsKept
<1>5. OneFace'
  <2>1. ASSUME NEW f \in Faces, LegacyAuthenticator(f) \/ Revoke(f) \/ Repair(f)
        PROVE  OneFace'
    <3>1. \A s \in Subjects : s # f
      BY AbsentValues
    <3>2. \A g \in Faces : g # f => authenticators'[g] = authenticators[g]
      BY <2>1 DEF LegacyAuthenticator, Revoke, Repair, TypeOK
    <3>3. authenticators'[f].owner = f \/ authenticators'[f].status = "revoked"
      BY <2>1 DEF LegacyAuthenticator, Revoke, Repair, TypeOK, AuthenticatorRows
    <3>4. \A s \in Subjects : ActiveFaces(s)' \subseteq ActiveFaces(s)
      BY <3>1, <3>2, <3>3 DEF ActiveFaces
    <3> QED
      BY <3>4, FacesShrink
  <2>2. ASSUME NEW from \in Subjects \cup Faces, NEW to \in Subjects, Reassign(from, to)
        PROVE  OneFace'
    <3> DEFINE Both == ActiveFaces(from) \cup ActiveFaces(to)
    <3>1. IsFiniteSet(Both) /\ Cardinality(Both) =< 1
      BY <2>2, FiniteFaces, FS_Subset DEF Reassign, ActiveFaces
    <3>2. \A f, g \in Both : f = g
      <4> SUFFICES ASSUME NEW f \in Both, NEW g \in Both, f # g PROVE FALSE
        OBVIOUS
      <4>1. Cardinality({f}) = 1 /\ IsFiniteSet({f})
        BY FS_Singleton
      <4>2. Cardinality({f} \cup {g}) = 2
        BY <4>1, FS_AddElement
      <4>3. Cardinality({f} \cup {g}) =< Cardinality(Both)
        BY <3>1, FS_Subset
      <4>4. Cardinality(Both) \in Nat
        BY <3>1, FS_CardinalityType
      <4> HIDE DEF Both
      <4> QED
        BY <3>1, <4>2, <4>3, <4>4
    <3>3. \A f \in Faces :
             authenticators'[f] = IF authenticators[f].owner = from
                                  THEN [authenticators[f] EXCEPT !.owner = to]
                                  ELSE authenticators[f]
      BY <2>2 DEF Reassign
    <3>4. \A f \in Faces : [authenticators[f] EXCEPT !.owner = to].owner = to
                           /\ [authenticators[f] EXCEPT !.owner = to].status = authenticators[f].status
      BY DEF TypeOK, AuthenticatorRows
    <3>5. ActiveFaces(to)' \subseteq Both
      BY <3>3, <3>4 DEF ActiveFaces
    <3>6. \A s \in Subjects : s # to => ActiveFaces(s)' \subseteq ActiveFaces(s)
      BY <3>3, <3>4 DEF ActiveFaces
    <3> HIDE DEF Both
    <3> QED
      BY <3>2, <3>5, <3>6 DEF OneFace
  <2> QED
    BY <2>1, <2>2
<1> QED
  BY <1>2, <1>4, <1>5

\* A step that takes one pending ceremony to row e has the types of its rows.
LEMMA RowTyped ==
    ASSUME TypeOK, NEW c \in Ceremonies, NEW e \in CeremonyRows,
           ceremonies' = [ceremonies EXCEPT ![c] = e]
    PROVE  ceremonies' \in [Ceremonies -> CeremonyRows \cup {NoCeremony}]
BY DEF TypeOK

\* Editing the end of a pending ceremony is replacing its row.
LEMMA EndedIs ==
    ASSUME TypeOK, NEW c \in Ceremonies, Pending(c),
           NEW status \in {"pending", "completed", "failed", "expired"}
    PROVE  \E e \in CeremonyRows :
              /\ Ended(c, status) = [ceremonies EXCEPT ![c] = e]
              /\ e = [ceremonies[c] EXCEPT !.status = status]
<1>1. ceremonies[c] \in CeremonyRows
  BY KnownTyped DEF Pending, Known
<1>2. [ceremonies[c] EXCEPT !.status = status] \in CeremonyRows
  BY <1>1 DEF CeremonyRows
<1> QED
  BY <1>2 DEF Ended

\* So is ending one in a conflict.
LEMMA ConflictEndedIs ==
    ASSUME TypeOK, NEW c \in Ceremonies, Pending(c)
    PROVE  \E e \in CeremonyRows :
              /\ ConflictEnded(c) = [ceremonies EXCEPT ![c] = e]
              /\ e = [ceremonies[c] EXCEPT !.status = "failed", !.conflict = TRUE]
<1>1. ceremonies[c] \in CeremonyRows
  BY KnownTyped DEF Pending, Known
<1>2. [ceremonies[c] EXCEPT !.status = "failed", !.conflict = TRUE] \in CeremonyRows
  BY <1>1 DEF CeremonyRows
<1> QED
  BY <1>2 DEF ConflictEnded, TypeOK

\* A ceremony whose subject's row is free is held by no webhook.
LEMMA FreeNotHeld ==
    ASSUME NEW c \in Ceremonies, SubjectFree(ceremonies[c].subject), NEW w \in Webhooks, Holds(w)
    PROVE  HeldBy(w) # c
BY DEF SubjectFree, Holds, HeldBy

\* bind
LEMMA BindStep ==
    ASSUME FaceInv, NEW c \in Ceremonies, NEW until \in Times, Bind(c, until)
    PROVE  FaceInv' /\ Moved
<1> USE DEF FaceInv
<1>1. /\ UNCHANGED <<clock, eligible, open, consents, legacy, authenticators, webhooks, changes>>
      /\ SubjectFree(ceremonies[c].subject)
      /\ starts[c] = "CREATED"
      /\ \E stage \in {"DONE", "FAILING"} : starts' = [starts EXCEPT ![c] = stage]
  BY DEF Bind
<1>2. /\ starts' \in [Ceremonies -> {"NONE", "RESERVED", "CREATED", "FAILING", "DONE"}]
      /\ \A d \in Ceremonies : starts'[d] # "NONE" => starts[d] # "NONE"
  BY <1>1 DEF TypeOK
<1>3. OneFace'
  BY <1>1, FacesKept
<1>4. \A w \in Webhooks : Holds(w)' => /\ Holds(w) /\ HeldBy(w)' = HeldBy(w) /\ HeldBy(w) # c
  BY <1>1, FreeNotHeld DEF Holds, HeldBy
<1>5. CASE Bindable(c, until)
  <2> DEFINE e == [ceremonies[c] EXCEPT !.bound = TRUE,
                                        !.expires = Earlier(until, ceremonies[c].expires)]
  <2>1. Pending(c)
    BY <1>5 DEF Bindable, Live
  <2>2. ceremonies[c] \in CeremonyRows
    BY <2>1, KnownTyped DEF Pending, Known
  <2>3. /\ Earlier(until, ceremonies[c].expires) \in Times
        /\ Earlier(until, ceremonies[c].expires) =< ceremonies[c].expires
    BY <2>2, PositiveTimes DEF Earlier, CeremonyRows, Times
  <2>4. /\ e \in CeremonyRows
        /\ e.subject = ceremonies[c].subject /\ e.client = ceremonies[c].client
        /\ e.authAt = ceremonies[c].authAt /\ e.expires =< ceremonies[c].expires
        /\ e.bound
    BY <2>2, <2>3 DEF CeremonyRows
  <2>5. ceremonies' = [ceremonies EXCEPT ![c] = e]
    BY <1>5 DEF Bind, TypeOK
  <2> HIDE DEF e
  <2>6. OnePendingPerSubject' /\ Started' /\ Grounded' /\ Held' /\ OneHolder' /\ Moved
    BY <1>1, <1>2, <1>4, <2>1, <2>4, <2>5, RowAdvances
  <2>7. TypeOK'
    BY <1>1, <1>2, <2>4, <2>5, RowTyped DEF TypeOK
  <2> QED
    BY <1>3, <2>6, <2>7
<1>6. CASE ~Bindable(c, until)
  <2>1. UNCHANGED ceremonies
    BY <1>6 DEF Bind
  <2>2. \A w \in Webhooks : Holds(w)' =>
           Context(ceremonies[HeldBy(w)].subject, ceremonies[HeldBy(w)].client)'
    BY <1>1, <1>4, <2>1 DEF Held, Context
  <2>3. OnePendingPerSubject' /\ Started' /\ Grounded' /\ Held' /\ OneHolder' /\ Moved
    BY <1>1, <1>2, <1>4, <2>1, <2>2, RowsKept
  <2>4. TypeOK'
    BY <1>1, <1>2, <2>1 DEF TypeOK
  <2> QED
    BY <1>3, <2>3, <2>4
<1> QED
  BY <1>5, <1>6

\* fail
LEMMA FailStep ==
    ASSUME FaceInv, NEW c \in Ceremonies, Fail(c)
    PROVE  FaceInv' /\ Moved
<1> USE DEF FaceInv
<1>1. /\ UNCHANGED <<clock, eligible, open, consents, legacy, authenticators, webhooks, changes>>
      /\ SubjectFree(ceremonies[c].subject)
      /\ starts[c] = "FAILING" /\ starts' = [starts EXCEPT ![c] = "DONE"]
  BY DEF Fail
<1>2. /\ starts' \in [Ceremonies -> {"NONE", "RESERVED", "CREATED", "FAILING", "DONE"}]
      /\ \A d \in Ceremonies : starts'[d] # "NONE" => starts[d] # "NONE"
  BY <1>1 DEF TypeOK
<1>3. OneFace'
  BY <1>1, FacesKept
<1>4. \A w \in Webhooks : Holds(w)' => /\ Holds(w) /\ HeldBy(w)' = HeldBy(w) /\ HeldBy(w) # c
  BY <1>1, FreeNotHeld DEF Holds, HeldBy
<1>5. CASE Pending(c)
  <2>1. PICK e \in CeremonyRows : /\ Ended(c, "failed") = [ceremonies EXCEPT ![c] = e]
                                  /\ e = [ceremonies[c] EXCEPT !.status = "failed"]
    BY <1>5, EndedIs
  <2>2. ceremonies' = [ceremonies EXCEPT ![c] = e]
    BY <1>5, <2>1 DEF Fail
  <2>3. /\ e.subject = ceremonies[c].subject /\ e.client = ceremonies[c].client
        /\ e.authAt = ceremonies[c].authAt /\ e.expires =< ceremonies[c].expires
        /\ ceremonies[c].bound => e.bound
    BY <1>5, <2>1, KnownTyped DEF Pending, Known, CeremonyRows, Times
  <2>4. OnePendingPerSubject' /\ Started' /\ Grounded' /\ Held' /\ OneHolder' /\ Moved
    BY <1>1, <1>2, <1>4, <1>5, <2>2, <2>3, RowAdvances
  <2>5. TypeOK'
    BY <1>1, <1>2, <2>2, RowTyped DEF TypeOK
  <2> QED
    BY <1>3, <2>4, <2>5
<1>6. CASE ~Pending(c)
  <2>1. UNCHANGED ceremonies
    BY <1>6 DEF Fail
  <2>2. \A w \in Webhooks : Holds(w)' =>
           Context(ceremonies[HeldBy(w)].subject, ceremonies[HeldBy(w)].client)'
    BY <1>1, <1>4, <2>1 DEF Held, Context
  <2>3. OnePendingPerSubject' /\ Started' /\ Grounded' /\ Held' /\ OneHolder' /\ Moved
    BY <1>1, <1>2, <1>4, <2>1, <2>2, RowsKept
  <2>4. TypeOK'
    BY <1>1, <1>2, <2>1 DEF TypeOK
  <2> QED
    BY <1>3, <2>3, <2>4
<1> QED
  BY <1>5, <1>6

\* A webhook that is answered holds nothing; the others hold what they held.
LEMMA AnsweredHolds ==
    ASSUME TypeOK, NEW w \in Webhooks, Answered(w)
    PROVE  /\ webhooks' \in [Webhooks -> Deliveries]
           /\ ~Holds(w)'
           /\ \A v \in Webhooks : v # w => webhooks'[v] = webhooks[v]
BY DEF TypeOK, Answered, Holds, Deliveries

\* A step of a webhook that ends its ceremony and answers keeps the rest as it was.
LEMMA HeldRowAdvances ==
    ASSUME FaceInv, NEW w \in Webhooks, Holds(w), Answered(w),
           UNCHANGED <<clock, eligible, open, consents, legacy, starts, changes>>,
           NEW e \in CeremonyRows,
           ceremonies' = [ceremonies EXCEPT ![HeldBy(w)] = e],
           e.subject = ceremonies[HeldBy(w)].subject, e.client = ceremonies[HeldBy(w)].client,
           e.authAt = ceremonies[HeldBy(w)].authAt,
           e.expires = ceremonies[HeldBy(w)].expires, e.bound = ceremonies[HeldBy(w)].bound
    PROVE  /\ OnePendingPerSubject' /\ Started' /\ Grounded' /\ Held' /\ OneHolder' /\ Moved
           /\ ceremonies' \in [Ceremonies -> CeremonyRows \cup {NoCeremony}]
           /\ webhooks' \in [Webhooks -> Deliveries]
<1> USE DEF FaceInv
<1>1. HeldBy(w) \in Ceremonies /\ Pending(HeldBy(w))
  BY HeldTyped DEF Held
<1>2. \A v \in Webhooks : Holds(v)' =>
         /\ Holds(v) /\ HeldBy(v)' = HeldBy(v) /\ HeldBy(v) # HeldBy(w)
  BY AnsweredHolds DEF Holds, HeldBy, OneHolder
<1>3. e.expires =< ceremonies[HeldBy(w)].expires
  BY <1>1, KnownTyped DEF Pending, Known, CeremonyRows, Times
<1>4. OnePendingPerSubject' /\ Started' /\ Grounded' /\ Held' /\ OneHolder' /\ Moved
  BY <1>1, <1>2, <1>3, RowAdvances
<1> QED
  BY <1>1, <1>4, RowTyped, AnsweredHolds

\* A webhook's statement fails or its process dies.
LEMMA CrashWebhookStep ==
    ASSUME FaceInv, NEW w \in Webhooks, CrashWebhook(w)
    PROVE  FaceInv' /\ Moved
<1> USE DEF FaceInv
<1>1. /\ UNCHANGED <<clock, eligible, open, consents, legacy, authenticators, ceremonies,
                     changes, starts>>
      /\ Answered(w)
  BY DEF CrashWebhook, rows
<1>2. TypeOK'
  BY <1>1, AnsweredHolds DEF TypeOK
<1>3. \A v \in Webhooks : Holds(v)' => Holds(v) /\ HeldBy(v)' = HeldBy(v)
  BY <1>1, AnsweredHolds DEF Holds, HeldBy
<1>4. \A v \in Webhooks : Holds(v)' =>
         Context(ceremonies[HeldBy(v)].subject, ceremonies[HeldBy(v)].client)'
  BY <1>1, <1>3 DEF Held, Context
<1>5. OnePendingPerSubject' /\ Started' /\ Grounded' /\ Held' /\ OneHolder' /\ Moved
  BY <1>1, <1>3, <1>4, RowsKept
<1> QED
  BY <1>1, <1>2, <1>5, FacesKept

\* A webhook reads subject and ceremony under their locks, and ends the ceremony or
\* holds on to them.
LEMMA WebhookLocksStep ==
    ASSUME FaceInv, NEW w \in Webhooks, NEW c \in Ceremonies, NEW verdict \in Verdicts,
           NEW f \in Faces, WebhookLocks(w, c, verdict, f)
    PROVE  FaceInv' /\ Moved
<1> USE DEF FaceInv
<1>1. /\ UNCHANGED <<clock, eligible, open, consents, legacy, authenticators, starts, changes>>
      /\ SubjectFree(ceremonies[c].subject) /\ webhooks[w] = Idle /\ ceremonies[c].bound
      /\ ceremonies[c] # NoCeremony
  BY DEF WebhookLocks
<1>2. OneFace'
  BY <1>1, FacesKept
<1>3. CASE \E status \in {"failed", "expired"} :
             Pending(c) /\ ceremonies' = Ended(c, status) /\ UNCHANGED webhooks
  <2>1. PICK status \in {"failed", "expired"} :
           Pending(c) /\ ceremonies' = Ended(c, status) /\ UNCHANGED webhooks
    BY <1>3
  <2>2. PICK e \in CeremonyRows : /\ Ended(c, status) = [ceremonies EXCEPT ![c] = e]
                                  /\ e = [ceremonies[c] EXCEPT !.status = status]
    BY <2>1, EndedIs
  <2>3. /\ e.subject = ceremonies[c].subject /\ e.client = ceremonies[c].client
        /\ e.authAt = ceremonies[c].authAt /\ e.expires =< ceremonies[c].expires
        /\ ceremonies[c].bound => e.bound
    BY <2>1, <2>2, KnownTyped DEF Pending, Known, CeremonyRows, Times
  <2>4. \A v \in Webhooks : Holds(v)' => /\ Holds(v) /\ HeldBy(v)' = HeldBy(v) /\ HeldBy(v) # c
    BY <1>1, <2>1, FreeNotHeld DEF Holds, HeldBy
  <2>5. OnePendingPerSubject' /\ Started' /\ Grounded' /\ Held' /\ OneHolder' /\ Moved
    BY <1>1, <2>1, <2>2, <2>3, <2>4, RowAdvances
  <2>6. TypeOK'
    BY <1>1, <2>1, <2>2, RowTyped DEF TypeOK
  <2> QED
    BY <1>2, <2>5, <2>6
<1>4. CASE /\ Live(c) /\ Context(ceremonies[c].subject, ceremonies[c].client)
           /\ webhooks' = [webhooks EXCEPT ![w] = [stage |-> "HELD", ceremony |-> c, face |-> f]]
           /\ UNCHANGED ceremonies
  <2>1. TypeOK'
    BY <1>1, <1>4 DEF TypeOK, Deliveries
  <2>2. /\ HeldBy(w)' = c /\ ~Holds(w)
        /\ \A v \in Webhooks : v # w => webhooks'[v] = webhooks[v]
    BY <1>1, <1>4 DEF TypeOK, HeldBy, Holds
  <2>3. OnePendingPerSubject' /\ Started' /\ Grounded' /\ Moved
    BY <1>1, <1>4 DEF OnePendingPerSubject, Pending, Started, Known, Grounded, Moved
  <2>4. Held'
    <3> SUFFICES ASSUME NEW v \in Webhooks, Holds(v)'
                 PROVE  /\ Pending(HeldBy(v))' /\ ceremonies'[HeldBy(v)'].bound
                        /\ Context(ceremonies[HeldBy(v)].subject, ceremonies[HeldBy(v)].client)'
      BY DEF Held
    <3>1. CASE v = w
      BY <3>1, <1>1, <1>4, <2>2 DEF Live, Pending, Context
    <3>2. CASE v # w
      BY <3>2, <1>1, <1>4, <2>2 DEF Held, Holds, HeldBy, Pending, Context
    <3> QED
      BY <3>1, <3>2
  <2>5. OneHolder'
    <3> SUFFICES ASSUME NEW u \in Webhooks, NEW v \in Webhooks, Holds(u)', Holds(v)',
                        ceremonies'[HeldBy(u)'].subject = ceremonies'[HeldBy(v)'].subject,
                        u # v
                 PROVE  FALSE
      BY DEF OneHolder
    <3>1. \A x \in Webhooks : x # w /\ Holds(x)' =>
             /\ Holds(x) /\ HeldBy(x)' = HeldBy(x)
             /\ ceremonies'[HeldBy(x)'].subject # ceremonies[c].subject
      BY <1>1, <1>4, <2>2 DEF Holds, HeldBy, SubjectFree
    <3>2. CASE u # w /\ v # w
      BY <3>1, <3>2, <1>4 DEF OneHolder
    <3>3. CASE u = w \/ v = w
      BY <3>1, <3>3, <1>4, <2>2
    <3> QED
      BY <3>2, <3>3
  <2> QED
    BY <1>2, <2>1, <2>3, <2>4, <2>5
<1> QED
  BY <1>3, <1>4 DEF WebhookLocks, Live

\* A webhook that holds its rows waits for the face and reads what it is.
LEMMA WebhookLocksFaceStep ==
    ASSUME FaceInv, NEW w \in Webhooks, WebhookLocksFace(w)
    PROVE  FaceInv' /\ Moved
<1> USE DEF FaceInv
<1>1. /\ UNCHANGED <<clock, eligible, open, consents, legacy, authenticators, starts, changes>>
      /\ webhooks[w].stage = "HELD"
  BY DEF WebhookLocksFace
<1>2. Holds(w)
  BY <1>1 DEF Holds, Idle
<1>3. HeldBy(w) \in Ceremonies /\ Pending(HeldBy(w))
  BY <1>2, HeldTyped DEF Held
<1>4. ceremonies[HeldBy(w)] \in CeremonyRows
  BY <1>3, KnownTyped DEF Pending, Known
<1>5. CASE ceremonies' = ConflictEnded(HeldBy(w)) /\ Answered(w)
  <2>1. PICK e \in CeremonyRows :
           /\ ConflictEnded(HeldBy(w)) = [ceremonies EXCEPT ![HeldBy(w)] = e]
           /\ e = [ceremonies[HeldBy(w)] EXCEPT !.status = "failed", !.conflict = TRUE]
    BY <1>3, ConflictEndedIs
  <2>2. /\ e.subject = ceremonies[HeldBy(w)].subject /\ e.client = ceremonies[HeldBy(w)].client
        /\ e.authAt = ceremonies[HeldBy(w)].authAt
        /\ e.expires = ceremonies[HeldBy(w)].expires /\ e.bound = ceremonies[HeldBy(w)].bound
    BY <2>1, <1>4 DEF CeremonyRows
  <2> QED
    BY <1>1, <1>2, <1>5, <2>1, <2>2, HeldRowAdvances, FacesKept DEF TypeOK
<1>6. CASE ceremonies' = Ended(HeldBy(w), "expired") /\ Answered(w)
  <2>1. PICK e \in CeremonyRows :
           /\ Ended(HeldBy(w), "expired") = [ceremonies EXCEPT ![HeldBy(w)] = e]
           /\ e = [ceremonies[HeldBy(w)] EXCEPT !.status = "expired"]
    BY <1>3, EndedIs
  <2>2. /\ e.subject = ceremonies[HeldBy(w)].subject /\ e.client = ceremonies[HeldBy(w)].client
        /\ e.authAt = ceremonies[HeldBy(w)].authAt
        /\ e.expires = ceremonies[HeldBy(w)].expires /\ e.bound = ceremonies[HeldBy(w)].bound
    BY <2>1, <1>4 DEF CeremonyRows
  <2> QED
    BY <1>1, <1>2, <1>6, <2>1, <2>2, HeldRowAdvances, FacesKept DEF TypeOK
<1>7. CASE webhooks' = [webhooks EXCEPT ![w].stage = "CHECKED"] /\ UNCHANGED ceremonies
  <2>1. /\ webhooks' \in [Webhooks -> Deliveries]
        /\ webhooks'[w] # Idle /\ webhooks'[w].ceremony = webhooks[w].ceremony
        /\ \A v \in Webhooks : v # w => webhooks'[v] = webhooks[v]
    BY <1>2, <1>7, HeldTyped DEF TypeOK, Deliveries, Idle, Holds, HeldBy
  <2>2. \A v \in Webhooks : Holds(v)' => Holds(v) /\ HeldBy(v)' = HeldBy(v)
    BY <2>1, <1>2 DEF Holds, HeldBy
  <2>3. \A v \in Webhooks : Holds(v)' =>
           Context(ceremonies[HeldBy(v)].subject, ceremonies[HeldBy(v)].client)'
    BY <1>1, <1>7, <2>2 DEF Held, Context
  <2>4. OnePendingPerSubject' /\ Started' /\ Grounded' /\ Held' /\ OneHolder' /\ Moved
    BY <1>1, <1>7, <2>2, <2>3, RowsKept
  <2> QED
    BY <1>1, <1>7, <2>1, <2>4, FacesKept DEF TypeOK
<1> QED
  BY <1>5, <1>6, <1>7 DEF WebhookLocksFace, HeldBy

\* The face of a completion becomes the one active face of its subject.
LEMMA Attached ==
    ASSUME FaceInv, NEW s \in Subjects, NEW f \in Faces,
           Insertable(s, f) \/ Owned(s, f),
           authenticators' = [authenticators EXCEPT ![f] = [owner |-> s, status |-> "active"]]
    PROVE  /\ authenticators' \in [Faces -> AuthenticatorRows]
           /\ \A g \in Faces : authenticators'[g] = [owner |-> s, status |-> "active"] <=> g = f
           /\ OneFace'
<1> USE DEF FaceInv
<1>1. /\ authenticators' \in [Faces -> AuthenticatorRows]
      /\ authenticators'[f] = [owner |-> s, status |-> "active"]
      /\ \A g \in Faces : g # f => authenticators'[g] = authenticators[g]
  BY DEF TypeOK, AuthenticatorRows
<1>2. \A g \in ActiveFaces(s) : g = f
  <2>1. CASE Insertable(s, f)
    BY <2>1 DEF Insertable
  <2>2. CASE Owned(s, f)
    <3>1. f \in ActiveFaces(s)
      BY <2>2 DEF Owned, ActiveFaces
    <3> QED
      BY <3>1 DEF OneFace
  <2> QED
    BY <2>1, <2>2
<1>3. \A g \in Faces : authenticators'[g] = [owner |-> s, status |-> "active"] => g = f
  <2> SUFFICES ASSUME NEW g \in Faces, g # f,
                      authenticators'[g] = [owner |-> s, status |-> "active"]
               PROVE  FALSE
    OBVIOUS
  <2>1. g \in ActiveFaces(s)
    BY <1>1 DEF ActiveFaces
  <2> QED
    BY <1>2, <2>1
<1>4. \A t \in Subjects : \A g \in ActiveFaces(t)' : IF t = s THEN g = f ELSE g \in ActiveFaces(t)
  BY <1>1, <1>2 DEF ActiveFaces
<1>5. OneFace'
  BY <1>4 DEF OneFace
<1> QED
  BY <1>1, <1>3, <1>5

\* The last step of a webhook: the ceremony completes with its face, or it ends.
LEMMA WebhookAttachesStep ==
    ASSUME FaceInv, NEW w \in Webhooks, WebhookAttaches(w)
    PROVE  FaceInv' /\ Moved
<1> USE DEF FaceInv
<1> DEFINE c == HeldBy(w)
<1>1. /\ UNCHANGED <<clock, eligible, open, consents, legacy, starts, changes>>
      /\ webhooks[w].stage = "CHECKED" /\ Answered(w)
  BY DEF WebhookAttaches
<1>2. Holds(w)
  BY <1>1 DEF Holds, Idle
<1>3. c \in Ceremonies /\ Pending(c) /\ webhooks[w].face \in Faces
  BY <1>2, HeldTyped DEF Held
<1>4. ceremonies[c] \in CeremonyRows
  BY <1>3, KnownTyped DEF Pending, Known
<1>5. CASE ceremonies' = ConflictEnded(c) /\ UNCHANGED authenticators
  <2>1. PICK e \in CeremonyRows :
           /\ ConflictEnded(c) = [ceremonies EXCEPT ![c] = e]
           /\ e = [ceremonies[c] EXCEPT !.status = "failed", !.conflict = TRUE]
    BY <1>3, ConflictEndedIs
  <2>2. /\ e.subject = ceremonies[c].subject /\ e.client = ceremonies[c].client
        /\ e.authAt = ceremonies[c].authAt
        /\ e.expires = ceremonies[c].expires /\ e.bound = ceremonies[c].bound
    BY <2>1, <1>4 DEF CeremonyRows
  <2> QED
    BY <1>1, <1>2, <1>5, <2>1, <2>2, HeldRowAdvances, FacesKept DEF TypeOK
<1>6. CASE ceremonies' = Ended(c, "expired") /\ UNCHANGED authenticators
  <2>1. PICK e \in CeremonyRows :
           /\ Ended(c, "expired") = [ceremonies EXCEPT ![c] = e]
           /\ e = [ceremonies[c] EXCEPT !.status = "expired"]
    BY <1>3, EndedIs
  <2>2. /\ e.subject = ceremonies[c].subject /\ e.client = ceremonies[c].client
        /\ e.authAt = ceremonies[c].authAt
        /\ e.expires = ceremonies[c].expires /\ e.bound = ceremonies[c].bound
    BY <2>1, <1>4 DEF CeremonyRows
  <2> QED
    BY <1>1, <1>2, <1>6, <2>1, <2>2, HeldRowAdvances, FacesKept DEF TypeOK
<1>7. ASSUME NEW f \in Faces, f = webhooks[w].face,
             Insertable(ceremonies[c].subject, f) \/ Owned(ceremonies[c].subject, f),
             authenticators' = [authenticators EXCEPT ![f] =
                 [owner |-> ceremonies[c].subject, status |-> "active"]],
             ceremonies' = [ceremonies EXCEPT ![c].status = "completed", ![c].face = f]
      PROVE  FaceInv' /\ Moved
  <2> DEFINE e == [ceremonies[c] EXCEPT !.status = "completed", !.face = f]
  <2>1. /\ e \in CeremonyRows
        /\ e.subject = ceremonies[c].subject /\ e.client = ceremonies[c].client
        /\ e.authAt = ceremonies[c].authAt
        /\ e.expires = ceremonies[c].expires /\ e.bound = ceremonies[c].bound
    BY <1>4 DEF CeremonyRows
  <2>2. ceremonies' = [ceremonies EXCEPT ![c] = e]
    BY <1>7, <1>3 DEF TypeOK
  <2> HIDE DEF e
  <2>3. /\ OnePendingPerSubject' /\ Started' /\ Grounded' /\ Held' /\ OneHolder' /\ Moved
        /\ ceremonies' \in [Ceremonies -> CeremonyRows \cup {NoCeremony}]
        /\ webhooks' \in [Webhooks -> Deliveries]
    BY <1>1, <1>2, <2>1, <2>2, HeldRowAdvances
  <2>4. ceremonies[c].subject \in Subjects
    BY <1>4 DEF CeremonyRows
  <2>5. OneFace' /\ authenticators' \in [Faces -> AuthenticatorRows]
    BY <1>7, <2>4, Attached
  <2> QED
    BY <1>1, <2>3, <2>5 DEF TypeOK
<1> QED
  BY <1>3, <1>5, <1>6, <1>7 DEF WebhookAttaches, HeldBy

\* reserve
LEMMA ReserveStep ==
    ASSUME FaceInv, NEW c \in Ceremonies, NEW s \in Subjects, NEW cl \in Clients,
           NEW at \in Times, Reserve(c, s, cl, at)
    PROVE  FaceInv' /\ Moved
<1> USE DEF FaceInv
<1> DEFINE Old(d) == IF Pending(d) /\ ceremonies[d].subject = s
                     THEN [ceremonies[d] EXCEPT !.status = "expired"] ELSE ceremonies[d]
<1>1. /\ UNCHANGED <<clock, eligible, open, consents, legacy, authenticators, webhooks, changes>>
      /\ starts' = [starts EXCEPT ![c] = "RESERVED"]
      /\ ceremonies[c] = NoCeremony /\ SubjectFree(s) /\ Admitted(s, cl, at)
  BY DEF Reserve
<1>2. /\ ceremonies' \in [Ceremonies -> CeremonyRows \cup {NoCeremony}]
      /\ ceremonies'[c] = Fresh(s, cl, at)
      /\ \A d \in Ceremonies : d # c => ceremonies'[d] = Old(d)
  <2>1. Fresh(s, cl, at) \in CeremonyRows
    BY FreshTyped DEF TypeOK
  <2>2. \A d \in Ceremonies : Old(d) \in CeremonyRows \cup {NoCeremony}
    <3> SUFFICES ASSUME NEW d \in Ceremonies, Pending(d)
                 PROVE  [ceremonies[d] EXCEPT !.status = "expired"] \in CeremonyRows
      BY DEF TypeOK
    <3> QED
      BY KnownTyped DEF Pending, Known, CeremonyRows
  <2>3. ceremonies' = [d \in Ceremonies |-> IF d = c THEN Fresh(s, cl, at) ELSE Old(d)]
    BY DEF Reserve
  <2> HIDE DEF Old
  <2> QED
    BY <2>1, <2>2, <2>3
<1>3. \A d \in Ceremonies : Pending(d) =>
         LET o == [ceremonies[d] EXCEPT !.status = "expired"] IN
         /\ o # NoCeremony /\ o.status = "expired"
         /\ o.subject = ceremonies[d].subject /\ o.client = ceremonies[d].client
         /\ o.authAt = ceremonies[d].authAt /\ o.expires = ceremonies[d].expires
         /\ o.bound = ceremonies[d].bound
  <2> SUFFICES ASSUME NEW d \in Ceremonies, Pending(d)
               PROVE  LET o == [ceremonies[d] EXCEPT !.status = "expired"] IN
                      /\ o # NoCeremony /\ o.status = "expired"
                      /\ o.subject = ceremonies[d].subject /\ o.client = ceremonies[d].client
                      /\ o.authAt = ceremonies[d].authAt /\ o.expires = ceremonies[d].expires
                      /\ o.bound = ceremonies[d].bound
    OBVIOUS
  <2>1. ceremonies[d] \in CeremonyRows
    BY KnownTyped DEF Pending, Known
  <2>2. [ceremonies[d] EXCEPT !.status = "expired"] \in CeremonyRows
    BY <2>1 DEF CeremonyRows
  <2> QED
    BY <2>1, <2>2, NoCeremonyRow DEF CeremonyRows
<1>4. \A d \in Ceremonies : d # c /\ Known(d)' =>
         /\ Known(d)
         /\ ceremonies'[d].subject = ceremonies[d].subject
         /\ ceremonies'[d].client = ceremonies[d].client
         /\ ceremonies'[d].authAt = ceremonies[d].authAt
         /\ ceremonies'[d].expires = ceremonies[d].expires
         /\ ceremonies'[d].bound = ceremonies[d].bound
  BY <1>2, <1>3 DEF Known, Pending
<1>5. \A d \in Ceremonies : d # c /\ Pending(d)' => Pending(d) /\ ceremonies[d].subject # s
  BY <1>2, <1>3 DEF Pending
<1>6. /\ Known(c)' /\ ceremonies'[c].subject = s /\ ceremonies'[c].client = cl
      /\ ceremonies'[c].authAt = at /\ ceremonies'[c].expires = clock + TTL
  BY <1>2, FreshTyped DEF Known, Fresh, TypeOK
<1>7. TypeOK'
  BY <1>1, <1>2 DEF TypeOK
<1>8. OnePendingPerSubject'
  BY <1>4, <1>5, <1>6 DEF OnePendingPerSubject, Pending, Known
<1>9. Started'
  <2> SUFFICES ASSUME NEW d \in Ceremonies, starts'[d] # "NONE" PROVE Known(d)'
    BY DEF Started
  <2>1. CASE d = c
    BY <2>1, <1>6
  <2>2. CASE d # c
    <3>1. Known(d)
      BY <1>1, <2>2 DEF Started, TypeOK
    <3> QED
      BY <1>2, <1>3, <2>2, <3>1 DEF Known
  <2> QED
    BY <2>1, <2>2
<1>10. Grounded'
  <2> SUFFICES ASSUME NEW d \in Ceremonies, Known(d)'
               PROVE  /\ <<ceremonies'[d].subject, ceremonies'[d].client>> \in consents'
                      /\ ceremonies'[d].expires =< ceremonies'[d].authAt + Freshness + TTL
    BY DEF Grounded
  <2>1. CASE d = c
    <3>1. <<s, cl>> \in consents
      BY <1>1 DEF Admitted
    <3>2. clock - at =< Freshness
      BY <1>1 DEF Admitted, Recent
    <3>3. clock \in Int /\ at \in Int /\ Freshness \in Int /\ TTL \in Int
      BY PositiveTimes DEF TypeOK, Times
    <3>4. clock + TTL =< at + Freshness + TTL
      BY <3>2, <3>3
    <3> QED
      BY <1>1, <1>6, <2>1, <3>1, <3>4
  <2>2. CASE d # c
    BY <1>1, <1>4, <2>2 DEF Grounded
  <2> QED
    BY <2>1, <2>2
<1>11. \A w \in Webhooks : Holds(w)' =>
          /\ Holds(w) /\ HeldBy(w)' = HeldBy(w) /\ HeldBy(w) # c
          /\ ceremonies'[HeldBy(w)] = ceremonies[HeldBy(w)]
  <2> SUFFICES ASSUME NEW w \in Webhooks, Holds(w)'
               PROVE  /\ Holds(w) /\ HeldBy(w)' = HeldBy(w) /\ HeldBy(w) # c
                      /\ ceremonies'[HeldBy(w)] = ceremonies[HeldBy(w)]
    OBVIOUS
  <2>1. Holds(w) /\ HeldBy(w)' = HeldBy(w)
    BY <1>1 DEF Holds, HeldBy
  <2>2. HeldBy(w) \in Ceremonies /\ Pending(HeldBy(w))
    BY <2>1, HeldTyped DEF Held
  <2>3. ceremonies[HeldBy(w)].subject # s
    BY <1>1, <2>1 DEF SubjectFree, Holds, HeldBy
  <2>4. HeldBy(w) # c
    BY <1>1, <2>2 DEF Pending
  <2> QED
    BY <1>2, <2>1, <2>2, <2>3, <2>4
<1>12. Held'
  BY <1>1, <1>11 DEF Held, Pending, Context
<1>13. OneHolder'
  BY <1>11 DEF OneHolder
<1>14. Moved
  <2> SUFFICES ASSUME NEW d \in Ceremonies, d # c, ceremonies'[d] # ceremonies[d]
               PROVE  Advanced(d)
    BY <1>1, <1>2 DEF Moved, Created
  <2>1. Pending(d) /\ ceremonies'[d] = [ceremonies[d] EXCEPT !.status = "expired"]
    BY <1>2
  <2>2. Known(d)'
    BY <1>3, <2>1 DEF Known
  <2>3. ceremonies[d].expires \in Int
    BY <2>1, KnownTyped DEF Pending, Known, CeremonyRows, Times
  <2> QED
    BY <1>4, <2>1, <2>2, <2>3 DEF Advanced
<1> QED
  BY <1>1, <1>7, <1>8, <1>9, <1>10, <1>12, <1>13, <1>14, FacesKept

-----------------------------------------------------------------------------
(* The invariant, and what follows from it.                                *)

\* The state in which the service starts.
LEMMA FaceInit == Init => FaceInv
<1> SUFFICES ASSUME Init PROVE FaceInv
  OBVIOUS
<1>1. /\ \A c \in Ceremonies : ceremonies[c] = NoCeremony /\ starts[c] = "NONE"
      /\ \A w \in Webhooks : webhooks[w] = Idle
  BY DEF Init
<1>2. authenticators \in [Faces -> AuthenticatorRows]
      /\ \A f \in Faces : authenticators[f].owner \notin Subjects
  <2>1. PICK enrolled \in SUBSET legacy : authenticators = [f \in Faces |->
            IF f \in enrolled THEN [owner |-> f, status |-> "active"] ELSE NoRow]
    BY DEF Init
  <2> QED
    BY <2>1, AbsentValues DEF AuthenticatorRows, NoRow
<1>3. TypeOK
  BY <1>2, PositiveTimes DEF Init, TypeOK, Deliveries
<1>4. OneFace
  BY <1>2 DEF OneFace, ActiveFaces
<1> QED
  BY <1>1, <1>3, <1>4
     DEF FaceInv, OnePendingPerSubject, Pending, Started, Grounded, Known, Held, Holds, OneHolder

\* Every step keeps the invariant and moves ceremonies only as allowed.
LEMMA FaceStep == FaceInv /\ [Next]_vars => FaceInv' /\ Moved
<1> SUFFICES ASSUME FaceInv, [Next]_vars PROVE FaceInv' /\ Moved
  OBVIOUS
<1>1. CASE StartNext
  BY <1>1, QuietSteps, ReserveStep, FailStep, BindStep DEF StartNext
<1>2. CASE WebhookNext
  BY <1>2, WebhookLocksStep, WebhookLocksFaceStep, WebhookAttachesStep, CrashWebhookStep
     DEF WebhookNext
<1>3. CASE OthersNext
  BY <1>3, QuietSteps, FaceSteps, ClosingSteps DEF OthersNext
<1>4. CASE UNCHANGED vars
  BY <1>4, QuietSteps
<1> QED
  BY <1>1, <1>2, <1>3, <1>4 DEF Next

\* The invariant holds throughout.
LEMMA FaceInvHolds == Spec => []FaceInv
<1>1. FaceInv /\ [Next]_vars => FaceInv'
  BY FaceStep
<1> QED
  BY <1>1, FaceInit, PTL DEF Spec

\* Every value the service stores for a ceremony, a delivery or a face has its type.
THEOREM TypeCorrect == Spec => []TypeOK
<1>1. FaceInv => TypeOK
  BY DEF FaceInv
<1> QED
  BY <1>1, FaceInvHolds, PTL

\* What a subject is told of its eligibility is what reserve decides.
LEMMA EligibilityHolds == ASSUME FaceInv PROVE EligibilityTold
<1> SUFFICES ASSUME NEW s \in Subjects, NEW cl \in Clients, NEW at \in 0..clock,
                    EnrollmentEligible(s, cl, at),
                    \A d \in Ceremonies : Live(d) => ceremonies[d].client = cl
             PROVE  Admitted(s, cl, at)
  BY DEF EligibilityTold
<1> QED
  BY DEF EnrollmentEligible, Admitted

\* The rows of ceremonies are well-formed, no subject has two pending ones at any
\* time, and who is told it may enrol may.
THEOREM CeremoniesConsistentHolds == Spec => []CeremoniesConsistent
<1>1. FaceInv => CeremoniesConsistent
  BY EligibilityHolds DEF FaceInv, CeremoniesConsistent
<1> QED
  BY <1>1, FaceInvHolds, PTL

\* A ceremony that ended is never written again, by whatever requests and webhooks
\* come late.
LEMMA EndStands ==
    ASSUME Moved, NEW c \in Ceremonies, Known(c), ~Pending(c)
    PROVE  ceremonies'[c] = ceremonies[c]
BY DEF Moved, Created, Advanced, Known

\* Time does not run backwards.
LEMMA ClockGrows == FaceInv /\ [Next]_vars => clock' \in Int /\ clock \in Int /\ clock =< clock'
<1> SUFFICES ASSUME FaceInv, [Next]_vars
             PROVE  clock' \in Int /\ clock \in Int /\ clock =< clock'
  OBVIOUS
<1>1. clock \in Int
  BY PositiveTimes DEF FaceInv, TypeOK
<1>2. clock' = clock \/ clock' = clock + 1
  <2>1. CASE StartNext
    BY <2>1 DEF StartNext, AcceptConsent, Reserve, CreateSession, Fail, CrashStart, Bind
  <2>2. CASE WebhookNext
    BY <2>2 DEF WebhookNext, WebhookLocks, WebhookLocksFace, WebhookAttaches, CrashWebhook
  <2>3. CASE OthersNext
    BY <2>3 DEF OthersNext, LegacyIdentity, LegacyAuthenticator, Revoke, Repair, Retire,
                Reassign, CloseClient, Tick
  <2>4. CASE UNCHANGED vars
    BY <2>4 DEF vars
  <2> QED
    BY <2>1, <2>2, <2>3, <2>4 DEF Next
<1> QED
  BY <1>1, <1>2

\* What status reported as final it goes on to report, until it reports EXPIRED.
LEMMA ReportStands ==
    ASSUME FaceInv, FaceInv', Moved, clock \in Int, clock' \in Int, clock =< clock',
           NEW c \in Ceremonies,
           StatusReply(c) \in {"COMPLETED", "FAILED", "CONFLICT", "EXPIRED"}
    PROVE  StatusReply(c)' \in {StatusReply(c), "EXPIRED"}
<1>1. Known(c)
  BY DEF StatusReply, Known
<1>2. ceremonies[c].expires \in Int
  BY <1>1, KnownTyped, PositiveTimes DEF FaceInv, CeremonyRows, Times
<1>3. CASE ~Pending(c)
  <2>1. ceremonies'[c] = ceremonies[c]
    BY <1>1, <1>3, EndStands
  <2>2. CASE ceremonies[c].expires =< clock'
    BY <1>1, <1>2, <2>1, <2>2 DEF StatusReply, Known
  <2>3. CASE ~(ceremonies[c].expires =< clock')
    <3>1. ~(ceremonies[c].expires =< clock) /\ ceremonies[c].expires > clock
          /\ ceremonies[c].expires > clock'
      BY <1>2, <2>3
    <3> QED
      BY <1>1, <2>1, <2>3, <3>1 DEF StatusReply, Known
  <2> QED
    BY <2>2, <2>3
<1>4. CASE Pending(c)
  <2>1. ceremonies[c].expires =< clock
    BY <1>1, <1>2, <1>4 DEF StatusReply, Pending, Known
  <2>2. Known(c)' /\ ceremonies'[c].expires =< ceremonies[c].expires
    BY <1>1, <1>2, <1>4 DEF Moved, Created, Advanced, Known
  <2>3. ceremonies'[c] \in CeremonyRows
    BY <2>2 DEF FaceInv, TypeOK, Known
  <2>4. ceremonies'[c].expires =< clock'
    BY <1>2, <2>1, <2>2, <2>3, PositiveTimes DEF CeremonyRows, Times
  <2>5. ceremonies'[c].expires \in Int
    BY <2>3, PositiveTimes DEF CeremonyRows, Times
  <2> QED
    BY <2>2, <2>4, <2>5 DEF StatusReply, Known
<1> QED
  BY <1>3, <1>4

\* How a ceremony ended is final: no request, webhook or deadline that comes later
\* changes it on record or in what is answered about it.
THEOREM OutcomesStandHolds == Spec => OutcomesStand
<1>1. FaceInv /\ [Next]_vars =>
        [\A c \in Ceremonies : ceremonies[c] # NoCeremony /\ ~Pending(c) =>
            ceremonies'[c] = ceremonies[c]]_vars
  BY FaceStep, EndStands DEF Known
<1>2. FaceInv /\ [Next]_vars =>
        [\A c \in Ceremonies :
            StatusReply(c) \in {"COMPLETED", "FAILED", "CONFLICT", "EXPIRED"} =>
                StatusReply(c)' \in {StatusReply(c), "EXPIRED"}]_vars
  BY FaceStep, ClockGrows, ReportStands
<1> QED
  BY <1>1, <1>2, FaceInvHolds, PTL DEF Spec, OutcomesStand, EndsStand, ReportsStand

\* Only the last step of a webhook completes a ceremony: the one it holds.
LEMMA OnlyAttachesCompletes ==
    ASSUME FaceInv, [Next]_vars, NEW c \in Ceremonies, Completes(c)
    PROVE  \E w \in Webhooks : WebhookAttaches(w)
<1> SUFFICES ASSUME \A w \in Webhooks : ~WebhookAttaches(w)
             PROVE  ceremonies'[c].status # "completed"
  BY DEF Completes
<1>1. /\ ceremonies[c] \in CeremonyRows /\ ceremonies[c].status = "pending"
      /\ ceremonies \in [Ceremonies -> CeremonyRows \cup {NoCeremony}]
  BY KnownTyped DEF Completes, Pending, Known, FaceInv, TypeOK
<1>2. ASSUME UNCHANGED ceremonies PROVE ceremonies'[c].status # "completed"
  BY <1>1, <1>2
<1>3. ASSUME NEW d, NEW status \in {"failed", "expired"}, ceremonies' = Ended(d, status)
      PROVE  ceremonies'[c].status # "completed"
  BY <1>1, <1>3 DEF Ended, CeremonyRows
<1>4. ASSUME NEW d, ceremonies' = ConflictEnded(d)
      PROVE  ceremonies'[c].status # "completed"
  BY <1>1, <1>4 DEF ConflictEnded, CeremonyRows
<1>5. CASE StartNext
  <2>1. ASSUME NEW d \in Ceremonies, NEW s \in Subjects, NEW cl \in Clients, NEW at \in Times,
               Reserve(d, s, cl, at)
        PROVE  ceremonies'[c].status # "completed"
    <3>1. ceremonies'[c] = IF c = d THEN Fresh(s, cl, at)
                           ELSE IF Pending(c) /\ ceremonies[c].subject = s
                           THEN [ceremonies[c] EXCEPT !.status = "expired"]
                           ELSE ceremonies[c]
      BY <2>1 DEF Reserve
    <3> QED
      BY <1>1, <3>1 DEF Fresh, CeremonyRows
  <2>2. ASSUME NEW d \in Ceremonies, Fail(d)
        PROVE  ceremonies'[c].status # "completed"
    BY <2>2, <1>2, <1>3 DEF Fail
  <2>3. ASSUME NEW d \in Ceremonies, NEW until \in Times, Bind(d, until)
        PROVE  ceremonies'[c].status # "completed"
    BY <2>3, <1>1, <1>2 DEF Bind, CeremonyRows
  <2> QED
    BY <1>2, <1>5, <2>1, <2>2, <2>3 DEF StartNext, AcceptConsent, CreateSession, CrashStart, rows
<1>6. CASE WebhookNext
  <2>1. ASSUME NEW w \in Webhooks, NEW d \in Ceremonies, NEW verdict \in Verdicts, NEW f \in Faces,
               WebhookLocks(w, d, verdict, f)
        PROVE  ceremonies'[c].status # "completed"
    BY <2>1, <1>2, <1>3 DEF WebhookLocks
  <2>2. ASSUME NEW w \in Webhooks, WebhookLocksFace(w)
        PROVE  ceremonies'[c].status # "completed"
    BY <2>2, <1>2, <1>3, <1>4 DEF WebhookLocksFace
  <2> QED
    BY <1>2, <1>6, <2>1, <2>2 DEF WebhookNext, CrashWebhook, rows
<1>7. CASE OthersNext \/ UNCHANGED vars
  BY <1>2, <1>7 DEF OthersNext, LegacyIdentity, LegacyAuthenticator, Revoke, Repair, Retire,
                    Reassign, CloseClient, Tick, rows, vars
<1> QED
  BY <1>5, <1>6, <1>7 DEF Next

\* What holds when a webhook completes a ceremony.
LEMMA CompletionIsSound ==
    ASSUME FaceInv, [Next]_vars, NEW c \in Ceremonies, Completes(c)
    PROVE  LET e == ceremonies[c]
               face == ceremonies'[c].face IN
           /\ Context(e.subject, e.client) /\ <<e.subject, e.client>> \in consents
           /\ e.bound /\ clock < e.expires /\ clock < e.authAt + Freshness + TTL
           /\ authenticators[face] = NoRow \/ Owned(e.subject, face)
           /\ \A f \in Faces :
               authenticators'[f] = [owner |-> e.subject, status |-> "active"] <=> f = face
<1> USE DEF FaceInv
<1>1. PICK w \in Webhooks : WebhookAttaches(w)
  BY OnlyAttachesCompletes
<1>2. Holds(w) /\ webhooks[w].stage = "CHECKED"
  BY <1>1 DEF WebhookAttaches, Holds, Idle
<1>3. Pending(c) /\ Known(c) /\ ceremonies'[c].status = "completed"
  BY DEF Completes, Pending, Known
<1>4. /\ ceremonies[c] \in CeremonyRows
      /\ ceremonies \in [Ceremonies -> CeremonyRows \cup {NoCeremony}]
  BY <1>3, KnownTyped DEF TypeOK
<1>5. /\ c = HeldBy(w) /\ Live(c)
      /\ Insertable(ceremonies[c].subject, webhooks[w].face)
         \/ Owned(ceremonies[c].subject, webhooks[w].face)
      /\ authenticators' = [authenticators EXCEPT ![webhooks[w].face] =
             [owner |-> ceremonies[c].subject, status |-> "active"]]
      /\ ceremonies'[c].face = webhooks[w].face
  <2> DEFINE d == HeldBy(w)
  <2>1. d \in Ceremonies /\ d = webhooks[w].ceremony
    BY <1>2, HeldTyped DEF HeldBy
  <2>2. CASE ceremonies' = Ended(d, "expired")
    BY <1>3, <1>4, <2>1, <2>2 DEF Ended, Pending, CeremonyRows
  <2>3. CASE ceremonies' = ConflictEnded(d)
    BY <1>3, <1>4, <2>1, <2>3 DEF ConflictEnded, Pending, CeremonyRows
  <2>4. CASE /\ Live(d)
             /\ Insertable(ceremonies[d].subject, webhooks[w].face)
                \/ Owned(ceremonies[d].subject, webhooks[w].face)
             /\ authenticators' = [authenticators EXCEPT ![webhooks[w].face] =
                    [owner |-> ceremonies[d].subject, status |-> "active"]]
             /\ ceremonies' = [ceremonies EXCEPT ![d].status = "completed",
                                                 ![d].face = webhooks[w].face]
    <3>1. c = d
      BY <1>3, <1>4, <2>1, <2>4 DEF Pending
    <3>2. ceremonies'[c].face = webhooks[w].face
      BY <1>4, <2>4, <3>1 DEF CeremonyRows
    <3> QED
      BY <2>4, <3>1, <3>2
  <2> QED
    BY <1>1, <2>1, <2>2, <2>3, <2>4 DEF WebhookAttaches
<1>6. webhooks[w].face \in Faces /\ ceremonies[c].subject \in Subjects
  BY <1>2, <1>4, HeldTyped DEF CeremonyRows
<1>7. \A f \in Faces : authenticators'[f] = [owner |-> ceremonies[c].subject, status |-> "active"]
                          <=> f = webhooks[w].face
  BY <1>5, <1>6, Attached
<1>8. /\ Context(ceremonies[c].subject, ceremonies[c].client) /\ ceremonies[c].bound
  BY <1>2, <1>5 DEF Held
<1>9. /\ <<ceremonies[c].subject, ceremonies[c].client>> \in consents
      /\ ceremonies[c].expires =< ceremonies[c].authAt + Freshness + TTL
  BY <1>3 DEF Grounded
<1>10. clock < ceremonies[c].expires /\ clock < ceremonies[c].authAt + Freshness + TTL
  <2>1. /\ clock \in Int /\ ceremonies[c].expires \in Int /\ ceremonies[c].authAt \in Int
        /\ Freshness \in Int /\ TTL \in Int
    BY <1>4, PositiveTimes DEF TypeOK, CeremonyRows, Times
  <2>2. ceremonies[c].expires > clock
    BY <1>5 DEF Live
  <2> QED
    BY <1>9, <2>1, <2>2
<1>11. authenticators[webhooks[w].face] = NoRow \/ Owned(ceremonies[c].subject, webhooks[w].face)
  BY <1>5 DEF Insertable
<1> QED
  BY <1>5, <1>7, <1>8, <1>9, <1>10, <1>11

\* Whatever others do between a webhook's three steps, when a ceremony completes its
\* subject, client, consent, session, deadline and face are good.
THEOREM CompletionSoundHolds == Spec => CompletionSound
<1>1. FaceInv /\ [Next]_vars =>
        [\A c \in Ceremonies : Completes(c) =>
            LET e == ceremonies[c]
                face == ceremonies'[c].face IN
            /\ Context(e.subject, e.client) /\ <<e.subject, e.client>> \in consents
            /\ e.bound /\ clock < e.expires /\ clock < e.authAt + Freshness + TTL
            /\ authenticators[face] = NoRow \/ Owned(e.subject, face)
            /\ \A f \in Faces :
                authenticators'[f] = [owner |-> e.subject, status |-> "active"] <=> f = face]_vars
  BY CompletionIsSound
<1> QED
  BY <1>1, FaceInvHolds, PTL DEF Spec, CompletionSound
=============================================================================
