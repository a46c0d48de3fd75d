------------------------------- MODULE FaceLogin -------------------------------
(***************************************************************************)
(* Signing in with a face: an authorization request launches a session at  *)
(* the provider, the provider's webhook reports whose face it saw, and the *)
(* browser's callback turns the session into an authorization code.        *)
(* Sessions, pending requests and correlations live in maps of the one     *)
(* process; every await lets another request, another delivery of the same *)
(* webhook, a change of the identity table or a restart come between.      *)
(***************************************************************************)
EXTENDS Integers, Sequences, FiniteSets

CONSTANTS
    Requests,      \* authorization requests; one launches one session and names it
    Subjects,      \* canonical subjects
    Faces,         \* PUIDs
    Webhooks,      \* SUCCESS deliveries handled at once
    Callbacks,     \* browser returns handled at once
    None,          \* absence
    MaxChanges     \* bound of changes of the identity table and restarts

ASSUME BoundedChanges == MaxChanges \in Nat

VARIABLES
    slot,          \* PrivateIDAuthenticationProvider.pendingAuthorizationContext
    correlations,  \* recordsByCorrelationId: requests not yet consumed
    linked,        \* correlationIdBySessionId: sessions linked to their request
    pending,       \* pendingAuthorizationRequests: the request a session resumes
    sessions,      \* sessionRecords
    returns,       \* browserReturns: sessions that a cookie leads to
    owners,        \* user_authenticators: the subject of an active face
    eligible,      \* ACTIVE subjects of HAPI_EMAIL with their verified address
    webhooks, callbacks,
    codes,         \* authorization codes, in the order they were stored
    changes

vars == <<slot, correlations, linked, pending, sessions, returns, owners,
          eligible, webhooks, callbacks, codes, changes>>
login == <<slot, correlations, linked, pending>>
table == <<owners, eligible, changes>>

\* An AuthenticatedUser; byFace says that it carries authenticationMethod
\* PRIVATEID_FACE with the time of the webhook.
Users == [subject : Subjects, byFace : BOOLEAN]
\* A session record.  The person in front of it has one face, presented, that
\* every SUCCESS of the session reports.
SessionRecords ==
    [stage : {"NEW", "CREATING", "FAILED", "LOST", "OPEN"}, presented : Faces,
     result : BOOLEAN, user : Users \cup {None}]
Idle == [stage |-> "IDLE"]
Resolving == {"CAPTURE", "FACE", "USER", "COMPLETE"}
Deliveries ==
    {Idle} \cup [stage : Resolving, session : Requests, subject : Subjects \cup {None}]
Returns ==
    {Idle} \cup [stage : {"FACE", "USER", "COMPLETE"}, session : Requests,
                 subject : Subjects \cup {None}, cookie : BOOLEAN]
           \cup [stage : {"ISSUE"}, session : Requests, context : Requests,
                 user : Users, cookie : BOOLEAN]

Open(r) == sessions[r].stage = "OPEN"

-----------------------------------------------------------------------------
(* The authorization request.                                              *)

\* beginFaceAuthorization up to the call of the provider
Begin(r) ==
    /\ sessions[r].stage = "NEW"
    /\ slot' = r /\ correlations' = correlations \cup {r}
    /\ sessions' = [sessions EXCEPT ![r].stage = "CREATING"]
    /\ UNCHANGED <<linked, pending, returns, webhooks, callbacks, codes, table>>

\* The provider answers: the session is stored, it takes whatever request is in
\* the slot and empties it, and it is linked to the request that launched it.
Launched(r) ==
    /\ sessions[r].stage = "CREATING"
    /\ sessions' = [sessions EXCEPT ![r].stage = "OPEN"]
    /\ pending' = IF slot = None THEN pending ELSE [pending EXCEPT ![r] = slot]
    /\ slot' = None
    /\ linked' = IF r \in correlations THEN linked \cup {r} ELSE linked
    /\ returns' = returns \cup {r}
    /\ UNCHANGED <<correlations, webhooks, callbacks, codes, table>>

\* createSession throws: slot and correlation stay behind.
LaunchFails(r) ==
    /\ sessions[r].stage = "CREATING"
    /\ sessions' = [sessions EXCEPT ![r].stage = "FAILED"]
    /\ UNCHANGED <<login, returns, webhooks, callbacks, codes, table>>

\* The handle in the cookie lapses, or a return without success spends it.
ReturnSpent(r) ==
    /\ r \in returns /\ returns' = returns \ {r}
    /\ UNCHANGED <<login, sessions, webhooks, callbacks, codes, table>>

-----------------------------------------------------------------------------
(* AuthenticatorLoginResolver.resolveLogin, step by step: the authenticator *)
(* of the face, then its user, then the transaction record.                *)

FaceFound(r) == owners[sessions[r].presented] # None
UserFound(s) == s \in eligible

Found(x, r) ==
    IF FaceFound(r) THEN [x EXCEPT !.stage = "USER", !.subject = owners[sessions[r].presented]]
    ELSE Idle

-----------------------------------------------------------------------------
(* POST /privateid/webhook with SUCCESS.  Other statuses only change the    *)
(* session's own status, which no step of a login reads.                   *)

WebhookReceived(w, r) ==
    /\ webhooks[w] = Idle /\ Open(r)
    /\ webhooks' = [webhooks EXCEPT ![w] =
            [stage |-> "CAPTURE", session |-> r, subject |-> None]]
    /\ UNCHANGED <<login, sessions, returns, callbacks, codes, table>>

\* Mutant: the context that the correlation carries is not put in the place of
\* the one that came from the slot.
CorrelateOnly(r) ==
    /\ correlations' = correlations \ {r} /\ linked' = linked \ {r}
    /\ UNCHANGED pending

\* consumeByCorrelationId and storePendingAuthorizationRequest
Correlate(r) ==
    /\ correlations' = correlations \ {r} /\ linked' = linked \ {r}
    /\ pending' = [pending EXCEPT ![r] = r]

\* After the diagnostics capture: the result is stored and the session is
\* correlated, with no await between; a session without correlation ends here.
WebhookCaptured(w) ==
    LET r == webhooks[w].session IN
    /\ webhooks[w].stage = "CAPTURE"
    /\ sessions' = [sessions EXCEPT ![r].result = TRUE]
    /\ \/ /\ r \in linked /\ Correlate(r)
          /\ webhooks' = [webhooks EXCEPT ![w].stage = "FACE"]
       \/ /\ r \notin linked
          /\ webhooks' = [webhooks EXCEPT ![w] = Idle]
          /\ UNCHANGED <<correlations, linked, pending>>
    /\ UNCHANGED <<slot, returns, callbacks, codes, table>>

WebhookFindsFace(w) ==
    /\ webhooks[w].stage = "FACE"
    /\ webhooks' = [webhooks EXCEPT ![w] = Found(@, @.session)]
    /\ UNCHANGED <<login, sessions, returns, callbacks, codes, table>>

WebhookFindsUser(w) ==
    /\ webhooks[w].stage = "USER"
    /\ webhooks' = [webhooks EXCEPT ![w] =
            IF UserFound(@.subject) THEN [@ EXCEPT !.stage = "COMPLETE"] ELSE Idle]
    /\ UNCHANGED <<login, sessions, returns, callbacks, codes, table>>

\* storePrivateIDAuthenticatedUser
WebhookStoresUser(w) ==
    /\ webhooks[w].stage = "COMPLETE"
    /\ sessions' = [sessions EXCEPT ![webhooks[w].session].user =
            [subject |-> webhooks[w].subject, byFace |-> TRUE]]
    /\ webhooks' = [webhooks EXCEPT ![w] = Idle]
    /\ UNCHANGED <<login, returns, callbacks, codes, table>>

\* The capture or a query fails.
WebhookFails(w) ==
    /\ webhooks[w] # Idle
    /\ webhooks' = [webhooks EXCEPT ![w] = Idle]
    /\ UNCHANGED <<login, sessions, returns, callbacks, codes, table>>

-----------------------------------------------------------------------------
(* GET /privateid/callback                                                 *)

\* A return with success, by the provider's identifiers or by the cookie
CallbackReceived(c, r, cookie) ==
    /\ callbacks[c] = Idle /\ Open(r) /\ sessions[r].result
    /\ cookie => r \in returns
    /\ callbacks' = [callbacks EXCEPT ![c] =
            [stage |-> "FACE", session |-> r, subject |-> None, cookie |-> cookie]]
    /\ UNCHANGED <<login, sessions, returns, webhooks, codes, table>>

\* Mutant: the user that the webhook stored is taken without looking again.
CallbackFindsFaceTrusting(c) ==
    LET stored == sessions[callbacks[c].session].user IN
    /\ callbacks[c].stage = "FACE" /\ stored # None
    /\ callbacks' = [callbacks EXCEPT ![c].stage = "COMPLETE", ![c].subject = stored.subject]
    /\ UNCHANGED <<login, sessions, returns, webhooks, codes, table>>

CallbackFindsFace(c) ==
    /\ callbacks[c].stage = "FACE"
    /\ callbacks' = [callbacks EXCEPT ![c] = Found(@, @.session)]
    /\ UNCHANGED <<login, sessions, returns, webhooks, codes, table>>

CallbackFindsUser(c) ==
    /\ callbacks[c].stage = "USER"
    /\ callbacks' = [callbacks EXCEPT ![c] =
            IF UserFound(@.subject) THEN [@ EXCEPT !.stage = "COMPLETE"] ELSE Idle]
    /\ UNCHANGED <<login, sessions, returns, webhooks, codes, table>>

\* Mutant: the pending request is read and left where it is.
ConsumePendingKept(r) == UNCHANGED pending

\* consumePendingAuthorizationRequest
ConsumePending(r) == pending' = [pending EXCEPT ![r] = None]

\* Mutant: without a user stored by a webhook, no method is written.
CallbackUserBare(c) ==
    LET stored == sessions[callbacks[c].session].user IN
    IF stored = None THEN [subject |-> callbacks[c].subject]
    ELSE [subject |-> callbacks[c].subject, byFace |-> stored.byFace]

\* The method and time of a webhook's login are kept, if one is there by now.
CallbackUser(c) ==
    LET stored == sessions[callbacks[c].session].user IN
    [subject |-> callbacks[c].subject, byFace |-> stored # None /\ stored.byFace]

\* The user is stored and the pending request consumed, with no await between.
CallbackResumes(c) ==
    LET r == callbacks[c].session IN
    /\ callbacks[c].stage = "COMPLETE"
    /\ sessions' = [sessions EXCEPT ![r].user = CallbackUser(c)]
    /\ ConsumePending(r)
    /\ \/ /\ pending[r] = None
          /\ callbacks' = [callbacks EXCEPT ![c] = Idle]
          /\ returns' = IF callbacks[c].cookie THEN returns \ {r} ELSE returns
       \/ /\ pending[r] # None
          /\ callbacks' = [callbacks EXCEPT ![c] =
                [stage |-> "ISSUE", session |-> r, context |-> pending[r],
                 user |-> CallbackUser(c), cookie |-> callbacks[c].cookie]]
          /\ UNCHANGED returns
    /\ UNCHANGED <<slot, correlations, linked, webhooks, codes, table>>

\* issueAuthorizationRedirect stores the code of the context's client.
CallbackIssues(c) ==
    LET b == callbacks[c] IN
    /\ b.stage = "ISSUE"
    /\ codes' = Append(codes, [request |-> b.context, session |-> b.session, user |-> b.user])
    /\ returns' = IF b.cookie THEN returns \ {b.session} ELSE returns
    /\ callbacks' = [callbacks EXCEPT ![c] = Idle]
    /\ UNCHANGED <<login, sessions, webhooks, table>>

\* A query fails, or the application no longer allows the method.
CallbackFails(c) ==
    /\ callbacks[c] # Idle
    /\ callbacks' = [callbacks EXCEPT ![c] = Idle]
    /\ UNCHANGED <<login, sessions, returns, webhooks, codes, table>>

-----------------------------------------------------------------------------
(* The identity table, and the process.                                    *)

Change == changes < MaxChanges /\ changes' = changes + 1

\* A face is attached, revoked, or handed to another subject.
FaceChanges(f, s) ==
    /\ Change /\ owners[f] # s /\ owners' = [owners EXCEPT ![f] = s]
    /\ UNCHANGED <<login, sessions, returns, eligible, webhooks, callbacks, codes>>

SubjectRetires(s) ==
    /\ Change /\ s \in eligible /\ eligible' = eligible \ {s}
    /\ UNCHANGED <<login, sessions, returns, owners, webhooks, callbacks, codes>>

\* The process restarts: its maps are empty and what it was serving is gone.
Restart ==
    /\ Change
    /\ slot' = None /\ correlations' = {} /\ linked' = {} /\ returns' = {}
    /\ pending' = [r \in Requests |-> None]
    /\ sessions' = [r \in Requests |->
            IF sessions[r].stage = "NEW" THEN sessions[r]
            ELSE [sessions[r] EXCEPT !.stage = "LOST", !.result = FALSE, !.user = None]]
    /\ webhooks' = [w \in Webhooks |-> Idle] /\ callbacks' = [c \in Callbacks |-> Idle]
    /\ UNCHANGED <<owners, eligible, codes>>

-----------------------------------------------------------------------------
Init ==
    /\ slot = None /\ correlations = {} /\ linked = {} /\ returns = {}
    /\ pending = [r \in Requests |-> None]
    /\ sessions \in [Requests -> [stage : {"NEW"}, presented : Faces, result : {FALSE}, user : {None}]]
    /\ owners \in [Faces -> Subjects] /\ eligible = Subjects
    /\ webhooks = [w \in Webhooks |-> Idle] /\ callbacks = [c \in Callbacks |-> Idle]
    /\ codes = <<>> /\ changes = 0

RequestNext == \E r \in Requests :
    Begin(r) \/ Launched(r) \/ LaunchFails(r) \/ ReturnSpent(r)

WebhookNext == \E w \in Webhooks :
    \/ \E r \in Requests : WebhookReceived(w, r)
    \/ WebhookCaptured(w) \/ WebhookFindsFace(w) \/ WebhookFindsUser(w)
    \/ WebhookStoresUser(w) \/ WebhookFails(w)

CallbackNext == \E c \in Callbacks :
    \/ \E r \in Requests, cookie \in BOOLEAN : CallbackReceived(c, r, cookie)
    \/ CallbackFindsFace(c) \/ CallbackFindsUser(c) \/ CallbackResumes(c)
    \/ CallbackIssues(c) \/ CallbackFails(c)

OthersNext ==
    \/ \E f \in Faces, s \in Subjects \cup {None} : FaceChanges(f, s)
    \/ \E s \in Subjects : SubjectRetires(s)
    \/ Restart

Next == RequestNext \/ WebhookNext \/ CallbackNext \/ OthersNext

Spec == Init /\ [][Next]_vars

-----------------------------------------------------------------------------
(* Properties.                                                             *)

\* The variables have their types.
TypeOK ==
    /\ slot \in Requests \cup {None}
    /\ correlations \subseteq Requests /\ linked \subseteq Requests /\ returns \subseteq Requests
    /\ pending \in [Requests -> Requests \cup {None}]
    /\ sessions \in [Requests -> SessionRecords]
    /\ owners \in [Faces -> Subjects \cup {None}] /\ eligible \subseteq Subjects
    /\ webhooks \in [Webhooks -> Deliveries] /\ callbacks \in [Callbacks -> Returns]
    /\ codes \in Seq([request : Requests, session : Requests, user : Users])
    /\ changes \in 0..MaxChanges

\* A code answers the request that launched its session, although concurrent
\* requests share one slot and a session may take another's request from it.
CodesToOwnRequest == \A i \in DOMAIN codes : codes[i].request = codes[i].session

\* A request is answered with one code at most, whatever webhooks and returns
\* come twice.
OneCodePerRequest ==
    \A i, j \in DOMAIN codes : codes[i].request = codes[j].request => i = j

\* A callback past its reading of the user holds subject s.
InHand(s) == \E c \in Callbacks :
    \/ callbacks[c].stage = "COMPLETE" /\ callbacks[c].subject = s
    \/ callbacks[c].stage = "ISSUE" /\ callbacks[c].user.subject = s

\* Once a subject is retired and no callback has already read it, no code names
\* it any more, although a webhook stored it while it was good.
RetiredStaysOut ==
    [][\A s \in Subjects : s \notin eligible /\ ~InHand(s) =>
        /\ ~InHand(s)'
        /\ codes' # codes => codes'[Len(codes')].user.subject # s]_vars

\* A code of a login by face says so: the callback keeps method and time of the
\* webhook.
CodesCarryFace == \A i \in DOMAIN codes : codes[i].user.byFace

\* The maps are well-formed, and codes and the requests they answer are one to one,
\* each through the session the request launched.
CodesConsistent == TypeOK /\ CodesToOwnRequest /\ OneCodePerRequest
=============================================================================
