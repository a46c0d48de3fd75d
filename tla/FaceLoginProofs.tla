--------------------------- MODULE FaceLoginProofs ---------------------------
(***************************************************************************)
(* Theorems about FaceLogin, for any authorization requests, subjects,     *)
(* faces, webhooks and callbacks.                                          *)
(*                                                                         *)
(* A session may take another's request from the slot; that no code comes  *)
(* of it rests on the webhook, which puts the session's own request in its *)
(* place in the step that makes the session's result visible to callbacks. *)
(***************************************************************************)
EXTENDS FaceLogin, SequenceTheorems, TLAPS

\* A webhook is handled while its session is open, and completes a subject.
Webhooked ==
    \A w \in Webhooks : webhooks[w] # Idle =>
        /\ Open(webhooks[w].session)
        /\ webhooks[w].stage = "COMPLETE" => webhooks[w].subject \in Subjects

\* A callback is handled while its session is open and has its result, completes a
\* subject, and issues for the session's own request.
Returned ==
    \A c \in Callbacks : callbacks[c] # Idle =>
        /\ Open(callbacks[c].session) /\ sessions[callbacks[c].session].result
        /\ callbacks[c].stage = "COMPLETE" => callbacks[c].subject \in Subjects
        /\ callbacks[c].stage = "ISSUE" => callbacks[c].context = callbacks[c].session

\* A session that was launched is linked to its request until its result is stored, and
\* has no other request from then on.
Linked ==
    \A r \in Requests :
        /\ sessions[r].stage = "CREATING" => r \in correlations
        /\ sessions[r].stage \in {"NEW", "CREATING"} => ~sessions[r].result
        /\ sessions[r].result => r \notin linked
        /\ Open(r) => r \in linked \/ pending[r] \in {r, None}

Issuing(c, r) == callbacks[c].stage = "ISSUE" /\ callbacks[c].session = r
Coded(r) == \E i \in DOMAIN codes : codes[i].session = r

\* A session that earned a code has no request left to resume.
Spent ==
    \A r \in Requests : (\E c \in Callbacks : Issuing(c, r)) \/ Coded(r) =>
        /\ pending[r] = None /\ r \notin linked
        /\ sessions[r].stage \in {"OPEN", "LOST"}

\* A session earns one code.
OneIssue ==
    /\ \A r \in Requests : \A c, d \in Callbacks : Issuing(c, r) /\ Issuing(d, r) => c = d
    /\ \A r \in Requests : \A c \in Callbacks : Issuing(c, r) => ~Coded(r)
    /\ \A i, j \in DOMAIN codes : codes[i].session = codes[j].session => i = j

\* The inductive invariant.
LoginInv ==
    /\ TypeOK /\ Webhooked /\ Returned /\ Linked /\ Spent /\ OneIssue /\ CodesToOwnRequest

-----------------------------------------------------------------------------
(* Shapes of the records.                                                  *)

\* A delivery that is handled has a session of its own.
LEMMA DeliveryTyped ==
    ASSUME TypeOK, NEW w \in Webhooks, webhooks[w] # Idle
    PROVE  /\ webhooks[w] \in [stage : Resolving, session : Requests, subject : Subjects \cup {None}]
           /\ webhooks[w].session \in Requests
BY DEF TypeOK, Deliveries

\* So has a return, before it issues
LEMMA ReturnTyped ==
    ASSUME TypeOK, NEW c \in Callbacks, callbacks[c] # Idle, callbacks[c].stage # "ISSUE"
    PROVE  /\ callbacks[c] \in [stage : {"FACE", "USER", "COMPLETE"}, session : Requests,
                                subject : Subjects \cup {None}, cookie : BOOLEAN]
           /\ callbacks[c].session \in Requests
<1>1. callbacks[c] \in Returns
  BY DEF TypeOK
<1>2. callbacks[c] \notin [stage : {"ISSUE"}, session : Requests, context : Requests,
                           user : Users, cookie : BOOLEAN]
  OBVIOUS
<1> QED
  BY <1>1, <1>2 DEF Returns

\* and when it does.
LEMMA IssueTyped ==
    ASSUME TypeOK, NEW c \in Callbacks, callbacks[c].stage = "ISSUE"
    PROVE  /\ callbacks[c] \in [stage : {"ISSUE"}, session : Requests, context : Requests,
                                user : Users, cookie : BOOLEAN]
           /\ callbacks[c] # Idle /\ callbacks[c].session \in Requests
<1>1. callbacks[c] \in Returns
  BY DEF TypeOK
<1>2. callbacks[c] # Idle
  BY DEF Idle
<1>3. callbacks[c] \notin [stage : {"FACE", "USER", "COMPLETE"}, session : Requests,
                           subject : Subjects \cup {None}, cookie : BOOLEAN]
  OBVIOUS
<1> QED
  BY <1>1, <1>2, <1>3 DEF Returns

\* The subject of a face that was found
LEMMA FoundTyped ==
    ASSUME TypeOK, NEW r \in Requests, FaceFound(r)
    PROVE  owners[sessions[r].presented] \in Subjects
BY DEF TypeOK, FaceFound, SessionRecords

\* Changes stay within their bound.
LEMMA ChangeTyped ==
    ASSUME TypeOK, Change
    PROVE  changes' \in 0..MaxChanges
<1>1. changes \in Int /\ MaxChanges \in Int /\ 0 =< changes
  BY BoundedChanges DEF TypeOK
<1> QED
  BY <1>1 DEF Change

-----------------------------------------------------------------------------
(* The steps.                                                              *)

\* Steps that leave logins, sessions, webhooks, callbacks and codes alone.
LEMMA TableSteps ==
    ASSUME LoginInv,
           \/ \E r \in Requests : ReturnSpent(r)
           \/ \E f \in Faces, s \in Subjects \cup {None} : FaceChanges(f, s)
           \/ \E s \in Subjects : SubjectRetires(s)
           \/ UNCHANGED vars
    PROVE  LoginInv'
<1> USE DEF LoginInv
<1>1. UNCHANGED <<slot, correlations, linked, pending, sessions, webhooks, callbacks, codes>>
  BY DEF ReturnSpent, FaceChanges, SubjectRetires, login, table, vars
<1>2. TypeOK'
  <2>1. changes' \in 0..MaxChanges
    BY ChangeTyped DEF ReturnSpent, FaceChanges, SubjectRetires, table, vars, TypeOK
  <2>2. /\ returns' \subseteq Requests /\ owners' \in [Faces -> Subjects \cup {None}]
        /\ eligible' \subseteq Subjects
    BY DEF ReturnSpent, FaceChanges, SubjectRetires, table, vars, TypeOK
  <2> QED
    BY <1>1, <2>1, <2>2 DEF TypeOK
<1>3. Webhooked' /\ Returned' /\ Linked'
  BY <1>1 DEF Webhooked, Returned, Linked, Open
<1>4. Spent' /\ OneIssue' /\ CodesToOwnRequest'
  BY <1>1 DEF Spent, OneIssue, CodesToOwnRequest, Issuing, Coded
<1> QED
  BY <1>2, <1>3, <1>4

\* Steps of a webhook on its own record alone.
LEMMA ResolvingSteps ==
    ASSUME LoginInv, NEW w \in Webhooks,
           \/ \E r \in Requests : WebhookReceived(w, r)
           \/ WebhookFindsFace(w) \/ WebhookFindsUser(w) \/ WebhookFails(w)
    PROVE  LoginInv'
<1> USE DEF LoginInv
<1>1. UNCHANGED <<slot, correlations, linked, pending, sessions, returns, owners, eligible,
                  callbacks, codes, changes>>
  BY DEF WebhookReceived, WebhookFindsFace, WebhookFindsUser, WebhookFails, login, table
<1>2. \E x \in Deliveries :
         /\ webhooks' = [webhooks EXCEPT ![w] = x]
         /\ x # Idle => /\ Open(x.session)
                        /\ x.stage = "COMPLETE" => x.subject \in Subjects
  <2>1. ASSUME NEW r \in Requests, WebhookReceived(w, r)
        PROVE  /\ [stage |-> "CAPTURE", session |-> r, subject |-> None] \in Deliveries
               /\ Open(r)
               /\ webhooks' = [webhooks EXCEPT ![w] =
                      [stage |-> "CAPTURE", session |-> r, subject |-> None]]
    BY <2>1 DEF WebhookReceived, Deliveries, Resolving
  <2>2. CASE WebhookFindsFace(w)
    <3> DEFINE r == webhooks[w].session
    <3>1. /\ webhooks[w] # Idle /\ webhooks[w].stage = "FACE"
          /\ webhooks' = [webhooks EXCEPT ![w] = Found(webhooks[w], r)]
      BY <2>2 DEF WebhookFindsFace, Idle, TypeOK
    <3>2. webhooks[w] \in [stage : Resolving, session : Requests, subject : Subjects \cup {None}]
          /\ r \in Requests /\ Open(r)
      BY <3>1, DeliveryTyped DEF Webhooked
    <3>3. CASE FaceFound(r)
      <4>1. Found(webhooks[w], r) = [webhooks[w] EXCEPT !.stage = "USER",
                                         !.subject = owners[sessions[r].presented]]
        BY <3>3 DEF Found
      <4>2. owners[sessions[r].presented] \in Subjects
        BY <3>2, <3>3, FoundTyped
      <4>3. /\ Found(webhooks[w], r) \in Deliveries
            /\ Found(webhooks[w], r).session = r /\ Found(webhooks[w], r).stage = "USER"
        BY <3>2, <4>1, <4>2 DEF Deliveries, Resolving
      <4> QED
        BY <3>1, <3>2, <4>3
    <3>4. CASE ~FaceFound(r)
      BY <3>1, <3>4 DEF Found, Deliveries
    <3> QED
      BY <3>3, <3>4
  <2>3. CASE WebhookFindsUser(w)
    <3> DEFINE x == [webhooks[w] EXCEPT !.stage = "COMPLETE"]
    <3>1. /\ webhooks[w] # Idle
          /\ webhooks' = [webhooks EXCEPT ![w] = IF UserFound(webhooks[w].subject) THEN x ELSE Idle]
      BY <2>3 DEF WebhookFindsUser, Idle, TypeOK
    <3>2. webhooks[w] \in [stage : Resolving, session : Requests, subject : Subjects \cup {None}]
          /\ Open(webhooks[w].session)
      BY <3>1, DeliveryTyped DEF Webhooked
    <3>3. /\ x \in Deliveries /\ x.session = webhooks[w].session
          /\ x.subject = webhooks[w].subject
      BY <3>2 DEF Deliveries, Resolving
    <3>4. UserFound(webhooks[w].subject) => webhooks[w].subject \in Subjects
      BY DEF UserFound, TypeOK
    <3> HIDE DEF x
    <3> QED
      BY <3>1, <3>2, <3>3, <3>4 DEF Deliveries
  <2>4. CASE WebhookFails(w)
    BY <2>4 DEF WebhookFails, Deliveries
  <2> QED
    BY <2>1, <2>2, <2>3, <2>4
<1>3. TypeOK'
  BY <1>1, <1>2 DEF TypeOK
<1>4. Webhooked'
  BY <1>1, <1>2 DEF Webhooked, Open, TypeOK
<1>5. Returned' /\ Linked' /\ Spent' /\ OneIssue' /\ CodesToOwnRequest'
  BY <1>1 DEF Returned, Linked, Spent, OneIssue, CodesToOwnRequest, Open, Issuing, Coded
<1> QED
  BY <1>3, <1>4, <1>5

\* Steps of a callback on its own record alone, before it resumes a request.
LEMMA ReturningSteps ==
    ASSUME LoginInv, NEW c \in Callbacks,
           \/ \E r \in Requests, cookie \in BOOLEAN : CallbackReceived(c, r, cookie)
           \/ CallbackFindsFace(c) \/ CallbackFindsUser(c) \/ CallbackFails(c)
    PROVE  LoginInv'
<1> USE DEF LoginInv
<1>1. UNCHANGED <<slot, correlations, linked, pending, sessions, returns, owners, eligible,
                  webhooks, codes, changes>>
  BY DEF CallbackReceived, CallbackFindsFace, CallbackFindsUser, CallbackFails, login, table
<1>2. \E x \in Returns :
         /\ callbacks' = [callbacks EXCEPT ![c] = x]
         /\ x.stage # "ISSUE"
         /\ x # Idle => /\ Open(x.session) /\ sessions[x.session].result
                        /\ x.stage = "COMPLETE" => x.subject \in Subjects
  <2>1. ASSUME NEW r \in Requests, NEW cookie \in BOOLEAN, CallbackReceived(c, r, cookie)
        PROVE  /\ [stage |-> "FACE", session |-> r, subject |-> None, cookie |-> cookie] \in Returns
               /\ Open(r) /\ sessions[r].result
               /\ callbacks' = [callbacks EXCEPT ![c] =
                      [stage |-> "FACE", session |-> r, subject |-> None, cookie |-> cookie]]
    BY <2>1 DEF CallbackReceived, Returns
  <2>2. CASE CallbackFindsFace(c)
    <3> DEFINE r == callbacks[c].session
    <3>1. /\ callbacks[c] # Idle /\ callbacks[c].stage = "FACE"
          /\ callbacks' = [callbacks EXCEPT ![c] = Found(callbacks[c], r)]
      BY <2>2 DEF CallbackFindsFace, Idle, TypeOK
    <3>2. /\ callbacks[c] \in [stage : {"FACE", "USER", "COMPLETE"}, session : Requests,
                               subject : Subjects \cup {None}, cookie : BOOLEAN]
          /\ r \in Requests /\ Open(r) /\ sessions[r].result
      BY <3>1, ReturnTyped DEF Returned
    <3>3. CASE FaceFound(r)
      <4>1. Found(callbacks[c], r) = [callbacks[c] EXCEPT !.stage = "USER",
                                         !.subject = owners[sessions[r].presented]]
        BY <3>3 DEF Found
      <4>2. owners[sessions[r].presented] \in Subjects
        BY <3>2, <3>3, FoundTyped
      <4>3. /\ Found(callbacks[c], r) \in Returns
            /\ Found(callbacks[c], r).session = r /\ Found(callbacks[c], r).stage = "USER"
        BY <3>2, <4>1, <4>2 DEF Returns
      <4> QED
        BY <3>1, <3>2, <4>3
    <3>4. CASE ~FaceFound(r)
      BY <3>1, <3>4 DEF Found, Returns, Idle
    <3> QED
      BY <3>3, <3>4
  <2>3. CASE CallbackFindsUser(c)
    <3> DEFINE x == [callbacks[c] EXCEPT !.stage = "COMPLETE"]
    <3>1. /\ callbacks[c] # Idle /\ callbacks[c].stage = "USER"
          /\ callbacks' = [callbacks EXCEPT ![c] = IF UserFound(callbacks[c].subject) THEN x ELSE Idle]
      BY <2>3 DEF CallbackFindsUser, Idle, TypeOK
    <3>2. /\ callbacks[c] \in [stage : {"FACE", "USER", "COMPLETE"}, session : Requests,
                               subject : Subjects \cup {None}, cookie : BOOLEAN]
          /\ Open(callbacks[c].session) /\ sessions[callbacks[c].session].result
      BY <3>1, ReturnTyped DEF Returned
    <3>3. /\ x \in Returns /\ x.session = callbacks[c].session
          /\ x.subject = callbacks[c].subject /\ x.stage = "COMPLETE"
      BY <3>2 DEF Returns
    <3>4. UserFound(callbacks[c].subject) => callbacks[c].subject \in Subjects
      BY DEF UserFound, TypeOK
    <3>5. Idle \in Returns /\ Idle.stage # "ISSUE"
      BY DEF Returns, Idle
    <3> HIDE DEF x
    <3> QED
      BY <3>1, <3>2, <3>3, <3>4, <3>5
  <2>4. CASE CallbackFails(c)
    BY <2>4 DEF CallbackFails, Returns, Idle
  <2> QED
    BY <2>1, <2>2, <2>3, <2>4
<1>3. TypeOK'
  BY <1>1, <1>2 DEF TypeOK
<1>4. Returned'
  BY <1>1, <1>2 DEF Returned, Open, TypeOK
<1>5. \A d \in Callbacks, r \in Requests : Issuing(d, r)' => Issuing(d, r)
  BY <1>1, <1>2 DEF Issuing, TypeOK
<1>6. Webhooked' /\ Linked' /\ CodesToOwnRequest'
  BY <1>1 DEF Webhooked, Linked, CodesToOwnRequest, Open
<1>7. Spent' /\ OneIssue'
  BY <1>1, <1>5 DEF Spent, OneIssue, Coded
<1> QED
  BY <1>3, <1>4, <1>6, <1>7

\* The request's side: its session is begun, launched, or fails to be.
LEMMA LaunchSteps ==
    ASSUME LoginInv, NEW r \in Requests, Begin(r) \/ Launched(r) \/ LaunchFails(r)
    PROVE  LoginInv'
<1> USE DEF LoginInv
<1>1. /\ UNCHANGED <<owners, eligible, webhooks, callbacks, codes, changes>>
      /\ \E stage \in {"CREATING", "OPEN", "FAILED"} :
            sessions' = [sessions EXCEPT ![r].stage = stage]
      /\ sessions[r].stage \in {"NEW", "CREATING"}
  BY DEF Begin, Launched, LaunchFails, login, table
<1>2. sessions[r] \in SessionRecords
  BY DEF TypeOK
<1>3. /\ sessions' \in [Requests -> SessionRecords]
      /\ \A q \in Requests : q # r => sessions'[q] = sessions[q]
      /\ sessions'[r].result = sessions[r].result
  BY <1>1, <1>2 DEF TypeOK, SessionRecords
<1>4. /\ slot' \in Requests \cup {None} /\ correlations' \subseteq Requests
      /\ linked' \subseteq Requests /\ returns' \subseteq Requests
      /\ pending' \in [Requests -> Requests \cup {None}]
  BY DEF Begin, Launched, LaunchFails, login, TypeOK
<1>5. TypeOK'
  BY <1>1, <1>3, <1>4 DEF TypeOK
<1>6. ~sessions[r].result /\ ~Open(r)
  BY <1>1 DEF Linked, Open
<1>7. \A q \in Requests : Open(q) => q # r /\ sessions'[q] = sessions[q]
  BY <1>3, <1>6
<1>8. Webhooked'
  BY <1>1, <1>7, DeliveryTyped DEF Webhooked, Open
<1>9. Returned'
  <2> SUFFICES ASSUME NEW c \in Callbacks, callbacks'[c] # Idle
               PROVE  /\ Open(callbacks[c].session)' /\ sessions'[callbacks'[c].session].result
                      /\ callbacks'[c].stage = "COMPLETE" => callbacks'[c].subject \in Subjects
                      /\ callbacks'[c].stage = "ISSUE" => callbacks'[c].context = callbacks'[c].session
    BY DEF Returned
  <2>1. callbacks[c].session \in Requests
    BY <1>1, ReturnTyped, IssueTyped
  <2> QED
    BY <1>1, <1>7, <2>1 DEF Returned, Open
<1>10. \A q \in Requests : q # r =>
          /\ pending'[q] = pending[q] /\ (q \in linked' <=> q \in linked)
          /\ q \in correlations => q \in correlations'
  BY DEF Begin, Launched, LaunchFails, login, TypeOK
<1>11. Linked'
  <2>1. ASSUME NEW q \in Requests, q # r
        PROVE  /\ sessions'[q].stage = "CREATING" => q \in correlations'
               /\ sessions'[q].stage \in {"NEW", "CREATING"} => ~sessions'[q].result
               /\ sessions'[q].result => q \notin linked'
               /\ Open(q)' => q \in linked' \/ pending'[q] \in {q, None}
    BY <1>3, <1>10, <2>1 DEF Linked, Open
  <2>2. /\ sessions'[r].stage = "CREATING" => r \in correlations'
        /\ Open(r)' => r \in linked'
    <3>1. CASE Begin(r)
      BY <3>1, <1>2 DEF Begin, Open, TypeOK, SessionRecords
    <3>2. CASE Launched(r)
      BY <3>2, <1>2 DEF Launched, Linked, Open, TypeOK, SessionRecords
    <3>3. CASE LaunchFails(r)
      BY <3>3, <1>2 DEF LaunchFails, Open, TypeOK, SessionRecords
    <3> QED
      BY <3>1, <3>2, <3>3
  <2>3. ~sessions'[r].result
    BY <1>3, <1>6
  <2> QED
    BY <2>1, <2>2, <2>3 DEF Linked
<1>12. Spent'
  <2> SUFFICES ASSUME NEW q \in Requests, (\E c \in Callbacks : Issuing(c, q)) \/ Coded(q)
               PROVE  /\ pending'[q] = None /\ q \notin linked'
                      /\ sessions'[q].stage \in {"OPEN", "LOST"}
    BY <1>1 DEF Spent, Issuing, Coded
  <2>1. q # r
    BY <1>1 DEF Spent
  <2> QED
    BY <1>3, <1>10, <2>1 DEF Spent
<1>13. OneIssue' /\ CodesToOwnRequest'
  BY <1>1 DEF OneIssue, CodesToOwnRequest, Issuing, Coded
<1> QED
  BY <1>5, <1>8, <1>9, <1>11, <1>12, <1>13

\* The result is stored, and the session's own request takes the place of any other.
LEMMA CapturedStep ==
    ASSUME LoginInv, NEW w \in Webhooks, WebhookCaptured(w)
    PROVE  LoginInv'
<1> USE DEF LoginInv
<1> DEFINE r == webhooks[w].session
<1>1. /\ UNCHANGED <<slot, returns, callbacks, codes, owners, eligible, changes>>
      /\ webhooks[w].stage = "CAPTURE" /\ webhooks[w] # Idle
      /\ sessions' = [sessions EXCEPT ![r].result = TRUE]
  BY DEF WebhookCaptured, table, Idle
<1>2. /\ r \in Requests /\ Open(r) /\ sessions[r] \in SessionRecords
      /\ webhooks[w] \in [stage : Resolving, session : Requests, subject : Subjects \cup {None}]
  BY <1>1, DeliveryTyped DEF Webhooked, TypeOK
<1>3. /\ sessions' \in [Requests -> SessionRecords]
      /\ \A q \in Requests : q # r => sessions'[q] = sessions[q]
      /\ sessions'[r].result /\ sessions'[r].stage = "OPEN"
  BY <1>1, <1>2 DEF TypeOK, SessionRecords, Open
<1>4. \A q \in Requests : /\ sessions'[q].stage = sessions[q].stage
                          /\ sessions[q].result => sessions'[q].result
                          /\ Open(q)' <=> Open(q)
  BY <1>2, <1>3 DEF Open
<1>5. /\ r \notin linked'
      /\ pending' \in [Requests -> Requests \cup {None}]
      /\ pending'[r] \in {r, None}
      /\ linked' \subseteq linked /\ correlations' \subseteq correlations
      /\ \A q \in Requests : q # r => /\ pending'[q] = pending[q]
                                      /\ q \in linked => q \in linked'
                                      /\ q \in correlations => q \in correlations'
      /\ (r \notin linked => pending' = pending)
  <2>1. CASE r \in linked
    BY <1>2, <2>1 DEF WebhookCaptured, Correlate, TypeOK
  <2>2. CASE r \notin linked
    BY <1>2, <2>2 DEF WebhookCaptured, Linked, TypeOK
  <2> QED
    BY <2>1, <2>2
<1>6. /\ webhooks' \in [Webhooks -> Deliveries]
      /\ \A v \in Webhooks : webhooks'[v] # Idle =>
            /\ webhooks[v] # Idle /\ webhooks'[v].session = webhooks[v].session
            /\ webhooks'[v].stage = "COMPLETE" => webhooks'[v] = webhooks[v]
  <2>1. CASE webhooks' = [webhooks EXCEPT ![w].stage = "FACE"]
    <3>1. /\ [webhooks[w] EXCEPT !.stage = "FACE"] \in Deliveries
          /\ [webhooks[w] EXCEPT !.stage = "FACE"].session = r
          /\ [webhooks[w] EXCEPT !.stage = "FACE"].stage = "FACE"
      BY <1>2 DEF Deliveries, Resolving
    <3> QED
      BY <1>1, <2>1, <3>1 DEF TypeOK
  <2>2. CASE webhooks' = [webhooks EXCEPT ![w] = Idle]
    BY <2>2 DEF TypeOK, Deliveries
  <2> QED
    BY <2>1, <2>2 DEF WebhookCaptured
<1> HIDE DEF r
<1>7. TypeOK'
  BY <1>1, <1>3, <1>5, <1>6 DEF TypeOK
<1>8. Webhooked'
  BY <1>4, <1>6, DeliveryTyped DEF Webhooked
<1>9. Returned'
  <2> SUFFICES ASSUME NEW c \in Callbacks, callbacks'[c] # Idle
               PROVE  /\ Open(callbacks[c].session)' /\ sessions'[callbacks'[c].session].result
                      /\ callbacks'[c].stage = "COMPLETE" => callbacks'[c].subject \in Subjects
                      /\ callbacks'[c].stage = "ISSUE" => callbacks'[c].context = callbacks'[c].session
    BY DEF Returned
  <2>1. callbacks[c].session \in Requests
    BY <1>1, ReturnTyped, IssueTyped
  <2> QED
    BY <1>1, <1>4, <2>1 DEF Returned, Open
<1>10. Linked'
  BY <1>2, <1>3, <1>4, <1>5 DEF Linked, Open
<1>11. Spent'
  BY <1>1, <1>2, <1>4, <1>5 DEF Spent, Issuing, Coded
<1>12. OneIssue' /\ CodesToOwnRequest'
  BY <1>1 DEF OneIssue, CodesToOwnRequest, Issuing, Coded
<1> QED
  BY <1>7, <1>8, <1>9, <1>10, <1>11, <1>12

\* A webhook stores the user of its session.
LEMMA StoresUserStep ==
    ASSUME LoginInv, NEW w \in Webhooks, WebhookStoresUser(w)
    PROVE  LoginInv'
<1> USE DEF LoginInv
<1> DEFINE r == webhooks[w].session
           u == [subject |-> webhooks[w].subject, byFace |-> TRUE]
<1>1. /\ UNCHANGED <<slot, correlations, linked, pending, returns, callbacks, codes, owners,
                     eligible, changes>>
      /\ webhooks[w].stage = "COMPLETE" /\ webhooks[w] # Idle
      /\ sessions' = [sessions EXCEPT ![r].user = u]
      /\ webhooks' = [webhooks EXCEPT ![w] = Idle]
  BY DEF WebhookStoresUser, login, table, Idle
<1>2. r \in Requests /\ u \in Users
  BY <1>1, DeliveryTyped DEF Webhooked, Users
<1> HIDE DEF r, u
<1>3. /\ sessions' \in [Requests -> SessionRecords]
      /\ \A q \in Requests : /\ sessions'[q].stage = sessions[q].stage
                             /\ sessions'[q].result = sessions[q].result
  <2>1. [sessions[r] EXCEPT !.user = u] \in SessionRecords
        /\ [sessions[r] EXCEPT !.user = u].stage = sessions[r].stage
        /\ [sessions[r] EXCEPT !.user = u].result = sessions[r].result
    BY <1>2 DEF TypeOK, SessionRecords
  <2> QED
    BY <1>1, <1>2, <2>1 DEF TypeOK
<1>4. TypeOK'
  BY <1>1, <1>3 DEF TypeOK, Deliveries
<1>5. Webhooked'
  BY <1>1, <1>3, DeliveryTyped DEF Webhooked, Open, TypeOK
<1>6. Returned'
  <2> SUFFICES ASSUME NEW c \in Callbacks, callbacks'[c] # Idle
               PROVE  /\ Open(callbacks[c].session)' /\ sessions'[callbacks'[c].session].result
                      /\ callbacks'[c].stage = "COMPLETE" => callbacks'[c].subject \in Subjects
                      /\ callbacks'[c].stage = "ISSUE" => callbacks'[c].context = callbacks'[c].session
    BY DEF Returned
  <2>1. callbacks[c].session \in Requests
    BY <1>1, ReturnTyped, IssueTyped
  <2> QED
    BY <1>1, <1>3, <2>1 DEF Returned, Open
<1>7. Linked' /\ Spent'
  BY <1>1, <1>3 DEF Linked, Open, Spent, Issuing, Coded
<1>8. OneIssue' /\ CodesToOwnRequest'
  BY <1>1 DEF OneIssue, CodesToOwnRequest, Issuing, Coded
<1> QED
  BY <1>4, <1>5, <1>6, <1>7, <1>8

\* The user a callback stores is one.
LEMMA CallbackUserTyped ==
    ASSUME LoginInv, NEW c \in Callbacks, callbacks[c].stage = "COMPLETE"
    PROVE  CallbackUser(c) \in Users /\ CallbackUser(c).subject = callbacks[c].subject
<1> DEFINE stored == sessions[callbacks[c].session].user
<1>1. callbacks[c].session \in Requests /\ callbacks[c].subject \in Subjects
  BY ReturnTyped DEF LoginInv, Returned, Idle
<1>2. stored \in Users \cup {None}
  BY <1>1 DEF LoginInv, TypeOK, SessionRecords
<1>3. (stored # None /\ stored.byFace) \in BOOLEAN
  OBVIOUS
<1> QED
  BY <1>1, <1>3 DEF CallbackUser, Users

\* A callback stores its user and consumes the session's request.
LEMMA ResumesStep ==
    ASSUME LoginInv, NEW c \in Callbacks, CallbackResumes(c)
    PROVE  LoginInv'
<1> USE DEF LoginInv
<1> DEFINE r == callbacks[c].session
           u == CallbackUser(c)
           x == [stage |-> "ISSUE", session |-> r, context |-> pending[r], user |-> u,
                 cookie |-> callbacks[c].cookie]
<1>1. /\ UNCHANGED <<slot, correlations, linked, webhooks, codes, owners, eligible, changes>>
      /\ callbacks[c].stage = "COMPLETE" /\ callbacks[c] # Idle
      /\ sessions' = [sessions EXCEPT ![r].user = u]
      /\ pending' = [pending EXCEPT ![r] = None]
      /\ returns' \subseteq returns
      /\ \/ callbacks' = [callbacks EXCEPT ![c] = Idle]
         \/ pending[r] # None /\ callbacks' = [callbacks EXCEPT ![c] = x]
  BY DEF CallbackResumes, ConsumePending, table, Idle
<1>2. /\ r \in Requests /\ u \in Users /\ callbacks[c].cookie \in BOOLEAN
      /\ Open(r) /\ sessions[r].result
  BY <1>1, ReturnTyped, CallbackUserTyped DEF Returned
<1>3. r \notin linked /\ pending[r] \in {r, None}
  BY <1>2 DEF Linked
<1>4. x.stage = "ISSUE" /\ x.session = r /\ x.context = pending[r]
  OBVIOUS
<1>5. pending[r] # None => x \in Returns /\ x.context = r
  BY <1>2, <1>3 DEF Returns
<1>6. /\ callbacks' \in [Callbacks -> Returns]
      /\ \A d \in Callbacks : d # c => callbacks'[d] = callbacks[d]
      /\ \/ callbacks'[c] = Idle
         \/ /\ pending[r] # None /\ callbacks'[c].stage = "ISSUE"
            /\ callbacks'[c].session = r /\ callbacks'[c].context = r
  BY <1>1, <1>4, <1>5 DEF TypeOK, Returns
<1> HIDE DEF r, u, x
<1>7. /\ sessions' \in [Requests -> SessionRecords]
      /\ \A q \in Requests : /\ sessions'[q].stage = sessions[q].stage
                             /\ sessions'[q].result = sessions[q].result
  <2>1. [sessions[r] EXCEPT !.user = u] \in SessionRecords
        /\ [sessions[r] EXCEPT !.user = u].stage = sessions[r].stage
        /\ [sessions[r] EXCEPT !.user = u].result = sessions[r].result
    BY <1>2 DEF TypeOK, SessionRecords
  <2> QED
    BY <1>1, <1>2, <2>1 DEF TypeOK
<1>8. /\ pending' \in [Requests -> Requests \cup {None}] /\ pending'[r] = None
      /\ \A q \in Requests : q # r => pending'[q] = pending[q]
  BY <1>1, <1>2 DEF TypeOK
<1>9. TypeOK'
  BY <1>1, <1>6, <1>7, <1>8 DEF TypeOK
<1>10. Webhooked'
  BY <1>1, <1>7, DeliveryTyped DEF Webhooked, Open
<1>11. Returned'
  <2> SUFFICES ASSUME NEW d \in Callbacks, callbacks'[d] # Idle
               PROVE  /\ Open(callbacks[d].session)' /\ sessions'[callbacks'[d].session].result
                      /\ callbacks'[d].stage = "COMPLETE" => callbacks'[d].subject \in Subjects
                      /\ callbacks'[d].stage = "ISSUE" => callbacks'[d].context = callbacks'[d].session
    BY DEF Returned
  <2>1. CASE d = c
    BY <1>2, <1>6, <1>7, <2>1 DEF Open
  <2>2. CASE d # c
    <3>1. callbacks'[d] = callbacks[d]
      BY <1>6, <2>2
    <3>2. callbacks[d].session \in Requests
      BY <3>1, ReturnTyped, IssueTyped
    <3> QED
      BY <1>7, <3>1, <3>2 DEF Returned, Open
  <2> QED
    BY <2>1, <2>2
<1>12. Linked'
  BY <1>1, <1>7, <1>8 DEF Linked, Open
<1>13. \A d \in Callbacks, q \in Requests : Issuing(d, q)' =>
          Issuing(d, q) \/ (d = c /\ q = r /\ pending[r] # None)
  BY <1>6 DEF Issuing, Idle
<1>14. pending[r] # None => ~Coded(r) /\ \A d \in Callbacks : ~Issuing(d, r)
  BY <1>2 DEF Spent
<1>15. Spent'
  <2> SUFFICES ASSUME NEW q \in Requests, (\E d \in Callbacks : Issuing(d, q)') \/ Coded(q)'
               PROVE  /\ pending'[q] = None /\ q \notin linked'
                      /\ sessions'[q].stage \in {"OPEN", "LOST"}
    BY DEF Spent
  <2>1. CASE q = r
    BY <1>1, <1>2, <1>3, <1>7, <1>8, <2>1 DEF Open
  <2>2. CASE q # r
    BY <1>1, <1>7, <1>8, <1>13, <2>2 DEF Spent, Coded
  <2> QED
    BY <2>1, <2>2
<1>16. OneIssue'
  <2>1. \A q \in Requests : \A d, e \in Callbacks : Issuing(d, q)' /\ Issuing(e, q)' => d = e
    BY <1>13, <1>14 DEF OneIssue
  <2>2. \A q \in Requests : \A d \in Callbacks : Issuing(d, q)' => ~Coded(q)'
    BY <1>1, <1>13, <1>14 DEF OneIssue, Coded
  <2> QED
    BY <1>1, <2>1, <2>2 DEF OneIssue
<1>17. CodesToOwnRequest'
  BY <1>1 DEF CodesToOwnRequest
<1> QED
  BY <1>9, <1>10, <1>11, <1>12, <1>15, <1>16, <1>17

\* A code is stored.
LEMMA IssuesStep ==
    ASSUME LoginInv, NEW c \in Callbacks, CallbackIssues(c)
    PROVE  LoginInv'
<1> USE DEF LoginInv
<1> DEFINE r == callbacks[c].session
           x == [request |-> callbacks[c].context, session |-> r, user |-> callbacks[c].user]
           S == [request : Requests, session : Requests, user : Users]
<1>1. /\ UNCHANGED <<slot, correlations, linked, pending, sessions, webhooks, owners,
                     eligible, changes>>
      /\ callbacks[c].stage = "ISSUE" /\ callbacks[c] # Idle
      /\ codes' = Append(codes, x)
      /\ returns' \subseteq returns
      /\ callbacks' = [callbacks EXCEPT ![c] = Idle]
  BY DEF CallbackIssues, login, table, Idle
<1>2. /\ r \in Requests /\ callbacks[c].context = r /\ x \in S
      /\ x.request = r /\ x.session = r
  BY <1>1, IssueTyped DEF Returned
<1>3. codes \in Seq(S)
  BY DEF TypeOK
<1> HIDE DEF x, S
<1>4. /\ codes' \in Seq(S) /\ Len(codes') = Len(codes) + 1
      /\ \A i \in 1..Len(codes) : codes'[i] = codes[i]
      /\ codes'[Len(codes) + 1] = x
  BY <1>1, <1>2, <1>3, AppendProperties
<1>5. /\ DOMAIN codes = 1..Len(codes) /\ DOMAIN codes' = 1..Len(codes) + 1 /\ Len(codes) \in Nat
  BY <1>3, <1>4, LenProperties
<1>6. \A i \in DOMAIN codes' : \/ i \in DOMAIN codes /\ codes'[i] = codes[i]
                               \/ i = Len(codes) + 1 /\ codes'[i] = x
  BY <1>4, <1>5
<1>7. \A q \in Requests : Coded(q)' => Coded(q) \/ q = r
  BY <1>2, <1>6 DEF Coded
<1>8. Issuing(c, r)
  BY <1>1 DEF Issuing
<1>9. \A d \in Callbacks, q \in Requests : Issuing(d, q)' => Issuing(d, q) /\ d # c
  BY <1>1 DEF Issuing, Idle, TypeOK
<1> HIDE DEF r
<1>10. TypeOK'
  BY <1>1, <1>4 DEF TypeOK, Returns, S
<1>11. Webhooked' /\ Linked'
  BY <1>1 DEF Webhooked, Linked, Open
<1>12. Returned'
  BY <1>1 DEF Returned, Open, TypeOK
<1>13. Spent'
  BY <1>1, <1>2, <1>7, <1>8, <1>9 DEF Spent
<1>14. OneIssue'
  <2>1. \A q \in Requests : \A d, e \in Callbacks : Issuing(d, q)' /\ Issuing(e, q)' => d = e
    BY <1>9 DEF OneIssue
  <2>2. \A q \in Requests : \A d \in Callbacks : Issuing(d, q)' => ~Coded(q)'
    BY <1>2, <1>7, <1>8, <1>9 DEF OneIssue
  <2>3. ~Coded(r)
    BY <1>2, <1>8 DEF OneIssue
  <2>4. \A i, j \in DOMAIN codes' : codes'[i].session = codes'[j].session => i = j
    BY <1>2, <1>6, <2>3 DEF OneIssue, Coded
  <2> QED
    BY <2>1, <2>2, <2>4 DEF OneIssue
<1>15. CodesToOwnRequest'
  BY <1>2, <1>6 DEF CodesToOwnRequest
<1> QED
  BY <1>10, <1>11, <1>12, <1>13, <1>14, <1>15

\* The process restarts: no session it had is open any more.
LEMMA RestartStep ==
    ASSUME LoginInv, Restart
    PROVE  LoginInv'
<1> USE DEF LoginInv
<1> DEFINE lost(r) == [sessions[r] EXCEPT !.stage = "LOST", !.result = FALSE, !.user = None]
<1>1. /\ UNCHANGED <<owners, eligible, codes>>
      /\ slot' = None /\ correlations' = {} /\ linked' = {} /\ returns' = {}
      /\ pending' = [r \in Requests |-> None]
      /\ webhooks' = [w \in Webhooks |-> Idle] /\ callbacks' = [c \in Callbacks |-> Idle]
      /\ changes' \in 0..MaxChanges
  BY ChangeTyped DEF Restart
<1>2. \A r \in Requests : /\ lost(r) \in SessionRecords /\ lost(r).stage = "LOST"
                          /\ ~lost(r).result
  BY DEF TypeOK, SessionRecords
<1>3. sessions' = [r \in Requests |-> IF sessions[r].stage = "NEW" THEN sessions[r] ELSE lost(r)]
  BY DEF Restart
<1> HIDE DEF lost
<1>4. /\ sessions' \in [Requests -> SessionRecords]
      /\ \A r \in Requests : /\ sessions'[r].stage \in {"NEW", "LOST"} /\ ~sessions'[r].result
                             /\ sessions[r].stage # "NEW" => sessions'[r].stage = "LOST"
  BY <1>2, <1>3 DEF TypeOK, Linked
<1>5. TypeOK'
  BY <1>1, <1>4 DEF TypeOK, Deliveries, Returns
<1>6. Webhooked' /\ Returned' /\ Linked'
  BY <1>1, <1>4 DEF Webhooked, Returned, Linked, Open
<1>7. \A r \in Requests, c \in Callbacks : ~Issuing(c, r)'
  BY <1>1 DEF Issuing, Idle
<1>8. Spent'
  BY <1>1, <1>4, <1>7 DEF Spent, Coded
<1>9. OneIssue' /\ CodesToOwnRequest'
  BY <1>1, <1>7 DEF OneIssue, Coded, CodesToOwnRequest
<1> QED
  BY <1>5, <1>6, <1>8, <1>9

-----------------------------------------------------------------------------
(* The invariant, and what follows from it.                                *)

\* The process starts with empty maps.
LEMMA LoginInit == Init => LoginInv
<1> SUFFICES ASSUME Init PROVE LoginInv
  OBVIOUS
<1>1. TypeOK
  <2>1. changes \in 0..MaxChanges
    BY BoundedChanges DEF Init
  <2>2. codes \in Seq([request : Requests, session : Requests, user : Users])
    BY EmptySeq DEF Init
  <2>3. sessions \in [Requests -> SessionRecords]
    BY DEF Init, SessionRecords
  <2>4. webhooks \in [Webhooks -> Deliveries] /\ callbacks \in [Callbacks -> Returns]
    BY DEF Init, Deliveries, Returns
  <2>5. /\ slot \in Requests \cup {None} /\ pending \in [Requests -> Requests \cup {None}]
        /\ correlations \subseteq Requests /\ linked \subseteq Requests
        /\ returns \subseteq Requests /\ eligible \subseteq Subjects
        /\ owners \in [Faces -> Subjects \cup {None}]
    BY DEF Init
  <2> QED
    BY <2>1, <2>2, <2>3, <2>4, <2>5 DEF TypeOK
<1>2. /\ codes = <<>> /\ linked = {}
      /\ \A r \in Requests : sessions[r].stage = "NEW" /\ ~sessions[r].result
      /\ \A w \in Webhooks : webhooks[w] = Idle
      /\ \A c \in Callbacks : callbacks[c] = Idle
  BY DEF Init
<1>3. DOMAIN codes = {}
  BY <1>2
<1>4. \A r \in Requests, c \in Callbacks : ~Issuing(c, r)
  BY <1>2 DEF Issuing, Idle
<1> QED
  BY <1>1, <1>2, <1>3, <1>4
     DEF LoginInv, Webhooked, Returned, Linked, Spent, OneIssue, CodesToOwnRequest, Coded, Open

\* Every step keeps the invariant.
LEMMA LoginStep == LoginInv /\ [Next]_vars => LoginInv'
<1> SUFFICES ASSUME LoginInv, [Next]_vars PROVE LoginInv'
  OBVIOUS
<1>1. CASE RequestNext
  BY <1>1, LaunchSteps, TableSteps DEF RequestNext
<1>2. CASE WebhookNext
  BY <1>2, ResolvingSteps, CapturedStep, StoresUserStep DEF WebhookNext
<1>3. CASE CallbackNext
  BY <1>3, ReturningSteps, ResumesStep, IssuesStep DEF CallbackNext
<1>4. CASE OthersNext
  BY <1>4, TableSteps, RestartStep DEF OthersNext
<1>5. CASE UNCHANGED vars
  BY <1>5, TableSteps
<1> QED
  BY <1>1, <1>2, <1>3, <1>4, <1>5 DEF Next

\* The invariant holds throughout.
LEMMA LoginInvHolds == Spec => []LoginInv
BY LoginInit, LoginStep, PTL DEF Spec

\* Every record of a login has its type.
THEOREM TypeCorrect == Spec => []TypeOK
<1>1. LoginInv => TypeOK
  BY DEF LoginInv
<1> QED
  BY <1>1, LoginInvHolds, PTL

\* Codes and the requests they answer are one to one, each through the session that the
\* request launched, although requests share a slot and webhooks and callbacks repeat.
THEOREM CodesConsistentHolds == Spec => []CodesConsistent
<1>1. LoginInv => CodesConsistent
  BY DEF LoginInv, OneIssue, CodesToOwnRequest, OneCodePerRequest, CodesConsistent
<1> QED
  BY <1>1, LoginInvHolds, PTL

\* Who is retired, and whom no callback has already read, is named by no code any more.
LEMMA RetiredIsOut ==
    ASSUME LoginInv, LoginInv', [Next]_vars, NEW s \in Subjects, s \notin eligible, ~InHand(s)
    PROVE  /\ ~InHand(s)'
           /\ codes' # codes => codes'[Len(codes')].user.subject # s
<1> USE DEF LoginInv
<1>1. ASSUME UNCHANGED <<callbacks, codes>>
      PROVE  /\ ~InHand(s)'
             /\ codes' # codes => codes'[Len(codes')].user.subject # s
  BY <1>1 DEF InHand
<1>2. ASSUME NEW c \in Callbacks, UNCHANGED codes,
             \A d \in Callbacks : d # c => callbacks'[d] = callbacks[d],
             callbacks'[c].stage = "COMPLETE" => callbacks'[c].subject # s,
             callbacks'[c].stage = "ISSUE" => callbacks'[c].user.subject # s
      PROVE  /\ ~InHand(s)'
             /\ codes' # codes => codes'[Len(codes')].user.subject # s
  BY <1>2 DEF InHand
<1>3. CASE CallbackNext
  <2>1. PICK c \in Callbacks :
           \/ \E r \in Requests, cookie \in BOOLEAN : CallbackReceived(c, r, cookie)
           \/ CallbackFindsFace(c) \/ CallbackFindsUser(c) \/ CallbackResumes(c)
           \/ CallbackIssues(c) \/ CallbackFails(c)
    BY <1>3 DEF CallbackNext
  <2>2. CASE \E r \in Requests, cookie \in BOOLEAN : CallbackReceived(c, r, cookie)
    BY <1>2, <2>2 DEF CallbackReceived, TypeOK
  <2>3. CASE CallbackFindsFace(c)
    <3>1. /\ callbacks' = [callbacks EXCEPT ![c] = Found(callbacks[c], callbacks[c].session)]
          /\ UNCHANGED codes /\ callbacks[c] # Idle /\ callbacks[c].stage = "FACE"
      BY <2>3 DEF CallbackFindsFace, TypeOK, Idle
    <3>2. callbacks[c] \in [stage : {"FACE", "USER", "COMPLETE"}, session : Requests,
                            subject : Subjects \cup {None}, cookie : BOOLEAN]
      BY <3>1, ReturnTyped
    <3>3. Found(callbacks[c], callbacks[c].session).stage \in {"USER", "IDLE"}
      BY <3>2 DEF Found, Idle
    <3> QED
      BY <1>2, <3>1, <3>3 DEF TypeOK
  <2>4. CASE CallbackFindsUser(c)
    <3>1. /\ callbacks' = [callbacks EXCEPT ![c] = IF UserFound(callbacks[c].subject)
                              THEN [callbacks[c] EXCEPT !.stage = "COMPLETE"] ELSE Idle]
          /\ UNCHANGED codes /\ callbacks[c] # Idle /\ callbacks[c].stage = "USER"
      BY <2>4 DEF CallbackFindsUser, TypeOK, Idle
    <3>2. callbacks[c] \in [stage : {"FACE", "USER", "COMPLETE"}, session : Requests,
                            subject : Subjects \cup {None}, cookie : BOOLEAN]
      BY <3>1, ReturnTyped
    <3>3. /\ [callbacks[c] EXCEPT !.stage = "COMPLETE"].stage = "COMPLETE"
          /\ [callbacks[c] EXCEPT !.stage = "COMPLETE"].subject = callbacks[c].subject
      BY <3>2
    <3>4. UserFound(callbacks[c].subject) => callbacks[c].subject # s
      BY DEF UserFound
    <3> QED
      BY <1>2, <3>1, <3>3, <3>4 DEF TypeOK, Idle
  <2>5. CASE CallbackResumes(c)
    <3> DEFINE x == [stage |-> "ISSUE", session |-> callbacks[c].session,
                     context |-> pending[callbacks[c].session],
                     user |-> CallbackUser(c), cookie |-> callbacks[c].cookie]
    <3>1. /\ callbacks[c].stage = "COMPLETE" /\ UNCHANGED codes
          /\ \/ callbacks' = [callbacks EXCEPT ![c] = Idle]
             \/ callbacks' = [callbacks EXCEPT ![c] = x]
      BY <2>5 DEF CallbackResumes
    <3>2. CallbackUser(c).subject # s
      BY <3>1, CallbackUserTyped DEF InHand
    <3>3. x.stage = "ISSUE" /\ x.user.subject # s
      BY <3>2
    <3> HIDE DEF x
    <3> QED
      BY <1>2, <3>1, <3>3 DEF TypeOK, Idle
  <2>6. CASE CallbackIssues(c)
    <3> DEFINE x == [request |-> callbacks[c].context, session |-> callbacks[c].session,
                     user |-> callbacks[c].user]
    <3>1. /\ callbacks[c].stage = "ISSUE" /\ codes' = Append(codes, x)
          /\ callbacks' = [callbacks EXCEPT ![c] = Idle]
      BY <2>6 DEF CallbackIssues
    <3>2. x.user.subject # s
      BY <3>1 DEF InHand
    <3>3. x \in [request : Requests, session : Requests, user : Users]
      BY <3>1, IssueTyped
    <3> HIDE DEF x
    <3>4. codes'[Len(codes')] = x
      BY <3>1, <3>3, AppendProperties DEF TypeOK
    <3>5. ~InHand(s)'
      BY <3>1 DEF InHand, Idle, TypeOK
    <3> QED
      BY <3>2, <3>4, <3>5
  <2>7. CASE CallbackFails(c)
    BY <1>2, <2>7 DEF CallbackFails, TypeOK, Idle
  <2> QED
    BY <2>1, <2>2, <2>3, <2>4, <2>5, <2>6, <2>7
<1>4. CASE RequestNext
  BY <1>1, <1>4 DEF RequestNext, Begin, Launched, LaunchFails, ReturnSpent
<1>5. CASE WebhookNext
  BY <1>1, <1>5 DEF WebhookNext, WebhookReceived, WebhookCaptured, WebhookFindsFace,
                    WebhookFindsUser, WebhookStoresUser, WebhookFails
<1>6. CASE OthersNext
  <2>1. CASE Restart
    BY <2>1 DEF Restart, InHand, Idle
  <2> QED
    BY <1>1, <1>6, <2>1 DEF OthersNext, FaceChanges, SubjectRetires
<1>7. CASE UNCHANGED vars
  BY <1>1, <1>7 DEF vars
<1> QED
  BY <1>3, <1>4, <1>5, <1>6, <1>7 DEF Next

\* A webhook that stored a subject while it was good does not get it a code once it is
\* retired.
THEOREM RetiredStaysOutHolds == Spec => RetiredStaysOut
<1>1. LoginInv /\ LoginInv' /\ [Next]_vars =>
        [\A s \in Subjects : s \notin eligible /\ ~InHand(s) =>
            /\ ~InHand(s)'
            /\ codes' # codes => codes'[Len(codes')].user.subject # s]_vars
  BY RetiredIsOut
<1> QED
  BY <1>1, LoginInvHolds, PTL DEF Spec, RetiredStaysOut
=============================================================================
