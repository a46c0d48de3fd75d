----------------------------- MODULE TokenIssuance -----------------------------
(***************************************************************************)
(* From the authorization request to the tokens and the claims they open    *)
(* (oidc/OIDCService.ts: POST /authorize, POST /login/email/code,           *)
(* issueAuthorizationRedirect, /token, /userinfo), with everything that is  *)
(* read on the way while administrators change it.  Client, application and *)
(* tenant are read one after the other, several times over                  *)
(* (identity/H1ClientAuthority.ts); the subject is read once to see whether *)
(* it may have tokens and again for its claims.  That a code is consumed    *)
(* once is AuthorizationCode's subject, that an interaction is won once is  *)
(* AuthorizationInteraction's.                                              *)
(***************************************************************************)
EXTENDS Naturals, Sequences

CONSTANTS Requests, Codes, Emails,
    Handle,         \* the address the subject is registered by
    MaxChanges      \* bound on the changes administrators make

VARIABLES
    standing,       \* client, its redirect URI, application, tenant, methods: active or not
    subject,        \* row of the identity subject
    codes,          \* authorization codes: issued, with the method that earned them
    tokens,         \* access tokens in Redis: the request that stored each, its code
    requests,       \* requests being served
    barred,         \* what has been withdrawn ever since a request began
    seen,           \* claims the registry has had since then
    answered,       \* answers: what was barred, the claims that were sent, those seen
    changes

vars == <<standing, subject, codes, tokens, requests, barred, seen, answered, changes>>

Methods == {"HAPI_EMAIL", "PRIVATEID_FACE"}
Parts == {"client", "redirect", "application", "tenant"} \cup Methods
Idle == [kind |-> "IDLE"]
Unissued == [state |-> "none"]
NoClaims == [email |-> "none", verified |-> FALSE]
ClaimsOf(row) == [email |-> row.email, verified |-> row.verified]

\* The email subject that may have tokens: active, with its own address verified
EligibleRow(row) == row.active /\ row.verified /\ row.email = Handle

-----------------------------------------------------------------------------
(* The reads and checks of each endpoint, in order.                        *)

\* resolveRegisteredClient, and requireApplicationMethod
Registered == <<"client", "application", "tenant">>
WithMethod == <<"client", "allowed", "tenant">>

\* requireApplicationMethod, and the authority of the email handoff that is asked next
EmailAuthority == WithMethod \o WithMethod

\* The redirect URIs come with the client that resolveClient reads.
Authorize ==
    <<"limit">> \o Registered \o <<"redirect", "input">> \o Registered \o <<"input">>
        \o EmailAuthority \o <<"principal">> \o WithMethod \o <<"code">>

ClientStillValid == Registered \o <<"redirect">> \o Registered

\* The code of Universal Login's email form
Login ==
    <<"limit">> \o EmailAuthority \o ClientStillValid \o <<"input", "principal">>
        \o WithMethod \o <<"code">>

\* A face login does not read the redirect URI again.
Callback == WithMethod \o <<"code">>

Token ==
    <<"input">> \o Registered \o WithMethod
        \o <<"input", "subject", "claims", "limit", "access", "refresh", "sign">>

UserInfo == <<"limit", "record", "limit", "claims", "answer">>

Program == [authorize |-> Authorize, login |-> Login, callback |-> Callback,
            token |-> Token, userinfo |-> UserInfo]
Step(q) == IF requests[q] = Idle THEN "IDLE" ELSE Program[requests[q].kind][requests[q].pc]
Method(q) == requests[q].method
Advance(q) == requests' = [requests EXCEPT ![q].pc = @ + 1]
Answer(q) == requests' = [requests EXCEPT ![q] = Idle]

\* Mutant: the subject is not looked at again.
EligibleOnce(q) == TRUE

\* /token looks at the subject of an email code, and at no other.
Eligible(q) == Method(q) = "HAPI_EMAIL" => EligibleRow(subject)

\* Whether a read finds what the step asks for; what depends on the request alone, and
\* the rate limits, may go either way.
Holds(q) ==
    CASE Step(q) \in {"client", "redirect", "application", "tenant"} -> standing[Step(q)]
      [] Step(q) = "allowed" -> standing["application"] /\ standing[Method(q)]
      [] Step(q) = "principal" -> EligibleRow(subject)
      [] Step(q) = "subject" -> Eligible(q)
      [] Step(q) = "record" -> \E t \in tokens : t.code = requests[q].code
      [] OTHER -> TRUE

Checks == {"limit", "input", "client", "redirect", "application", "tenant", "allowed",
           "principal", "subject", "record"}

Check(q) ==
    /\ Step(q) \in Checks /\ Holds(q) /\ Advance(q)
    /\ UNCHANGED <<standing, subject, codes, tokens, barred, seen, answered, changes>>

\* Refused: what it consumed stays consumed.
Refuse(q) ==
    /\ Step(q) \in Checks /\ (Step(q) \in {"limit", "input"} \/ ~Holds(q))
    /\ Answer(q)
    /\ UNCHANGED <<standing, subject, codes, tokens, barred, seen, answered, changes>>

-----------------------------------------------------------------------------
(* Requests.                                                               *)

Withdrawn(kind, method, row) ==
    {p \in {"client", "application", "tenant", method} : ~standing[p]}
        \cup (IF kind \in {"authorize", "login"} /\ ~standing["redirect"]
              THEN {"redirect"} ELSE {})
        \cup (IF method = "HAPI_EMAIL" /\ ~EligibleRow(row) THEN {"subject"} ELSE {})

Begin(q, kind, method, x) ==
    /\ requests[q] = Idle
    /\ requests' = [requests EXCEPT ![q] =
            [kind |-> kind, pc |-> 1, method |-> method, code |-> x, claims |-> NoClaims]]
    /\ barred' = [barred EXCEPT ![q] = Withdrawn(kind, method, subject)]
    /\ seen' = [seen EXCEPT ![q] = {ClaimsOf(subject)}]
    /\ UNCHANGED <<standing, subject, tokens, answered, changes>>

\* POST /authorize with an email result, the email form of Universal Login, and the
\* callback of a face login
BeginAuthorize(q, x) ==
    /\ codes[x] = Unissued /\ \A p \in Requests : requests[p] # Idle => requests[p].code # x
    /\ \/ \E kind \in {"authorize", "login"} : Begin(q, kind, "HAPI_EMAIL", x)
       \/ subject.active /\ Begin(q, "callback", "PRIVATEID_FACE", x)
    /\ UNCHANGED codes

\* /token has taken the code out of Redis.
BeginToken(q, x) ==
    /\ codes[x].state = "issued" /\ codes' = [codes EXCEPT ![x].state = "consumed"]
    /\ Begin(q, "token", codes[x].method, x)

BeginUserInfo(q, x) ==
    /\ codes[x].state = "answered" /\ Begin(q, "userinfo", codes[x].method, x)
    /\ UNCHANGED codes

Record(q, claims) ==
    answered' = answered \cup {[kind |-> requests[q].kind, barred |-> barred[q],
                                live |-> claims \in seen[q]]}

IssueCode(q) ==
    /\ Step(q) = "code" /\ Answer(q)
    /\ codes' = [codes EXCEPT ![requests[q].code] =
            [state |-> "issued", method |-> Method(q), claims |-> ClaimsOf(subject)]]
    /\ Record(q, ClaimsOf(subject))
    /\ UNCHANGED <<standing, subject, tokens, barred, seen, changes>>

\* Mutant: the claims that the subject had when the code was issued.
CodeClaims(q) == codes[requests[q].code].claims

\* resolveCurrentClaims
CurrentClaims(q) == ClaimsOf(subject)

Claims(q) ==
    /\ Step(q) = "claims"
    /\ requests' = [requests EXCEPT ![q].claims = CurrentClaims(q), ![q].pc = @ + 1]
    /\ UNCHANGED <<standing, subject, codes, tokens, barred, seen, answered, changes>>

\* The access token, then the refresh token, which nothing reads
Store(q) ==
    /\ Step(q) \in {"access", "refresh"} /\ Advance(q)
    /\ tokens' = IF Step(q) = "access" THEN tokens \cup {[code |-> requests[q].code]} ELSE tokens
    /\ UNCHANGED <<standing, subject, codes, barred, seen, answered, changes>>

\* The id token is signed and all three are answered.
Sign(q) ==
    /\ Step(q) = "sign" /\ Answer(q) /\ Record(q, requests[q].claims)
    /\ codes' = [codes EXCEPT ![requests[q].code].state = "answered"]
    /\ UNCHANGED <<standing, subject, tokens, barred, seen, changes>>

AnswerUserInfo(q) ==
    /\ Step(q) = "answer" /\ Answer(q)
    /\ answered' = answered \cup {[kind |-> "userinfo", barred |-> {},
                                   live |-> requests[q].claims \in seen[q]]}
    /\ UNCHANGED <<standing, subject, codes, tokens, barred, seen, changes>>

\* Five minutes are over.
ExpireToken ==
    /\ tokens # {} /\ \E t \in tokens : tokens' = tokens \ {t}
    /\ UNCHANGED <<standing, subject, codes, requests, barred, seen, answered, changes>>

Crash(q) ==
    /\ requests[q] # Idle /\ Answer(q)
    /\ UNCHANGED <<standing, subject, codes, tokens, barred, seen, answered, changes>>

-----------------------------------------------------------------------------
(* Administrators.                                                         *)

Change(p) ==
    /\ changes < MaxChanges /\ changes' = changes + 1
    /\ standing' = [standing EXCEPT ![p] = ~@]
    /\ barred' = IF standing[p] THEN barred ELSE [q \in Requests |-> barred[q] \ {p}]
    /\ UNCHANGED <<subject, codes, tokens, requests, seen, answered>>

ChangeSubject ==
    /\ changes < MaxChanges /\ changes' = changes + 1
    /\ subject' \in [active : BOOLEAN, email : Emails, verified : BOOLEAN] \ {subject}
    /\ barred' = IF EligibleRow(subject') THEN [q \in Requests |-> barred[q] \ {"subject"}]
                 ELSE barred
    /\ seen' = [q \in Requests |-> IF requests[q] = Idle THEN seen[q]
                                   ELSE seen[q] \cup {ClaimsOf(subject')}]
    /\ UNCHANGED <<standing, codes, tokens, requests, answered>>

Init ==
    /\ standing = [p \in Parts |-> TRUE]
    /\ subject = [active |-> TRUE, email |-> Handle, verified |-> TRUE]
    /\ codes = [x \in Codes |-> Unissued] /\ tokens = {} /\ answered = {}
    /\ requests = [q \in Requests |-> Idle] /\ changes = 0
    /\ barred = [q \in Requests |-> {}] /\ seen = [q \in Requests |-> {}]

Next ==
    \/ \E q \in Requests :
        \/ \E x \in Codes : BeginAuthorize(q, x) \/ BeginToken(q, x) \/ BeginUserInfo(q, x)
        \/ Check(q) \/ Refuse(q) \/ IssueCode(q) \/ Claims(q) \/ Store(q) \/ Sign(q)
        \/ AnswerUserInfo(q) \/ Crash(q)
    \/ ExpireToken
    \/ \E p \in Parts : Change(p)
    \/ ChangeSubject

Spec == Init /\ [][Next]_vars

-----------------------------------------------------------------------------
\* No code and no token comes out of a request through the whole of which its client, its
\* application, its tenant, its method or its email subject was withdrawn, and no code for
\* an email login whose redirect URI was, however the separate reads fall between the
\* changes.
WithdrawnStaysOut == \A a \in answered : a.barred = {}

\* The claims of an id token and of /userinfo are the registry's at some moment of the
\* request, never older: not those of the time the code was issued.
ClaimsAreLive == \A a \in answered : a.live

\* Every answer is one that the registry justified at some moment of its request.
AnswersJustified == WithdrawnStaysOut /\ ClaimsAreLive
=============================================================================
