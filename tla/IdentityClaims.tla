----------------------------- MODULE IdentityClaims -----------------------------
(***************************************************************************)
(* The administration of identity subjects: claims with the source that     *)
(* owns each (IdentityClaimResolver, IdentityClaimPolicy), links of Bookwrm *)
(* accounts (IdentityAccountLinkService), merges (IdentityMergeService) and *)
(* recoveries (IdentityRecoveryService).  Every operation is a series of    *)
(* separate statements with no transaction around them; operations overlap  *)
(* and die between two statements.  Display names are left out: they are    *)
(* accepted whatever their owner.  "none" is a column without a value.      *)
(***************************************************************************)
EXTENDS Naturals

CONSTANTS Subjects, Accounts, Faces, Principals, Emails, Requests,
    Suggestions,    \* claims that Bookwrm sends with a link
    InitialSubjects, \* rows of identity_subjects to begin with
    MaxOperations   \* bound on the operations that begin

VARIABLES
    subjects,       \* rows of identity_subjects
    provenance,     \* rows of identity_claim_provenance: the owner of each claim
    links,          \* rows of application_account_links for Bookwrm
    faces,          \* active faces of user_authenticators: their subject
    requests,       \* operations being served
    linked,         \* links that were answered
    merged,         \* merges that were answered
    writers,        \* who wrote the value of each claim
    disturbed,      \* subjects with two resolutions at once, or one that died
    operations      \* operations that began

rows == <<subjects, provenance, links, faces>>
vars == <<rows, requests, linked, merged, writers, disturbed, operations>>

Claims == {"email", "verified"}
Administrative == {"MANUAL", "SYSTEM", "BOOKWRM"}
Idle == [step |-> "IDLE"]
Absent == [status |-> "none", email |-> "none", verified |-> "none", principal |-> "none"]

At(q, step) == requests[q].step = step
Goto(q, step) == requests' = [requests EXCEPT ![q].step = step]
Answer(q) == requests' = [requests EXCEPT ![q] = Idle]
Begin(q, r) ==
    /\ requests[q] = Idle /\ operations < MaxOperations /\ operations' = operations + 1
    /\ requests' = [requests EXCEPT ![q] = r]
Exists(s) == subjects[s] # Absent
Holders(p) == {s \in Subjects : Exists(s) /\ subjects[s].principal = p}

-----------------------------------------------------------------------------
(* Claims.                                                                 *)

\* evaluateClaim: whether the proposed value takes effect
Accepts(c, current, owner, proposed, source) ==
    /\ proposed # current
    /\ \/ current = "none" \/ owner = "none"
       \/ c = "verified" /\ proposed = "true"
       \/ source \in Administrative
       \/ source = owner /\ ~(c = "verified" /\ proposed = "false")

\* The suggested claims that the policy accepts, on the row that was read
Accepted(r, row, owners) ==
    {c \in Claims : /\ r.suggested[c] # "none"
                    /\ Accepts(c, row[c], owners[c], r.suggested[c], r.source)}

\* Mutant: the source of an ignored claim is recorded too.
RecordedAll(r, changes) == {c \in Claims : r.suggested[c] # "none"}

\* Only a claim that changes changes hands.
Recorded(r, changes) == changes

Resolving(q) == requests[q].step \in {"RECORD", "APPLY"}
Target(q) == requests[q].target

\* resolve reads the row and the owners once and decides every claim on them.
Decide(q) ==
    /\ At(q, "RESOLVE")
    /\ LET s == Target(q)
           changes == Accepted(requests[q], subjects[s], provenance[s])
           todo == Recorded(requests[q], changes)
       IN  /\ requests' = [requests EXCEPT
                 ![q].step = IF todo = {} THEN requests[q].then ELSE "RECORD",
                 ![q].changes = changes, ![q].todo = todo]
           /\ disturbed' = IF \E p \in Requests \ {q} : Resolving(p) /\ Target(p) = s
                           THEN disturbed \cup {s} ELSE disturbed
    /\ UNCHANGED <<rows, linked, merged, writers, operations>>

\* recordClaimSource, the address first, each before the value it speaks of
Record(q) ==
    /\ At(q, "RECORD")
    /\ LET c == IF "email" \in requests[q].todo THEN "email" ELSE "verified" IN
       /\ provenance' = [provenance EXCEPT ![Target(q)][c] = requests[q].source]
       /\ requests' = [requests EXCEPT
             ![q].todo = @ \ {c},
             ![q].step = IF requests[q].todo = {c} THEN "APPLY" ELSE "RECORD"]
    /\ UNCHANGED <<subjects, links, faces, linked, merged, writers, disturbed, operations>>

\* applyClaimUpdate: one UPDATE with the fields that changed
Apply(q) ==
    /\ At(q, "APPLY") /\ Goto(q, requests[q].then)
    /\ LET s == Target(q)
           New(c, old) == IF c \in requests[q].changes THEN requests[q].suggested[c] ELSE old
       IN  /\ subjects' = [subjects EXCEPT ![s].email = New("email", @),
                                           ![s].verified = New("verified", @)]
           /\ writers' = [writers EXCEPT ![s] =
                 [c \in Claims |-> IF c \in requests[q].changes THEN requests[q].source ELSE @[c]]]
    /\ UNCHANGED <<provenance, links, faces, linked, merged, disturbed, operations>>

\* A resolution, and the link of an account or the merge of a loser that it is part of
Resolution(step, s, source, suggested, then, account, loser) ==
    [step |-> step, target |-> s, source |-> source, suggested |-> suggested, then |-> then,
     changes |-> {}, todo |-> {}, account |-> account, loser |-> loser]

-----------------------------------------------------------------------------
(* Links of Bookwrm accounts.                                              *)

LinkOf(a) == {l \in links : l.account = a}

\* The route and the first lookup: an unknown subject is answered 404.
BeginLink(q, a, s, claims) ==
    /\ Exists(s)
    /\ Begin(q, Resolution("FIND", s, "BOOKWRM", claims, "LINKED", a, "none"))
    /\ UNCHANGED <<rows, linked, merged, writers, disturbed>>

\* An account that is linked already goes on, or is answered 409.
Find(q) ==
    /\ At(q, "FIND")
    /\ LET found == LinkOf(requests[q].account) IN
       CASE found = {} -> Goto(q, "CREATE")
         [] \E l \in found : l.subject = Target(q) -> Goto(q, "RESOLVE")
         [] OTHER -> Answer(q)
    /\ UNCHANGED <<rows, linked, merged, writers, disturbed, operations>>

\* The insert and its mirror: one link per account, and one per subject.
Insertable(a, s) == \A l \in links : l.account # a /\ l.subject # s

Create(q) ==
    /\ At(q, "CREATE")
    /\ LET a == requests[q].account IN
       IF Insertable(a, Target(q))
       THEN /\ links' = links \cup {[account |-> a, subject |-> Target(q)]}
            /\ Goto(q, "RESOLVE")
       ELSE Goto(q, "REFIND") /\ UNCHANGED links
    /\ UNCHANGED <<subjects, provenance, faces, linked, merged, writers, disturbed, operations>>

\* Mutant: a link made meanwhile is accepted whoever's it is.
ConcurrentAny(q) == LinkOf(requests[q].account) # {}

\* The link made meanwhile is the one asked for.
Concurrent(q) == \E l \in LinkOf(requests[q].account) : l.subject = Target(q)

Refind(q) ==
    /\ At(q, "REFIND")
    /\ IF Concurrent(q) THEN Goto(q, "RESOLVE") ELSE Answer(q)
    /\ UNCHANGED <<rows, linked, merged, writers, disturbed, operations>>

Linked(q) ==
    /\ At(q, "LINKED") /\ Answer(q)
    /\ linked' = linked \cup {[account |-> requests[q].account, subject |-> Target(q)]}
    /\ UNCHANGED <<rows, merged, writers, disturbed, operations>>

-----------------------------------------------------------------------------
(* Merges.                                                                 *)

BeginMerge(q, survivor, loser) ==
    /\ survivor # loser /\ Exists(survivor) /\ Exists(loser)
    /\ Begin(q, [step |-> "READ", survivor |-> survivor, loser |-> loser,
                 mine |-> Absent, theirs |-> Absent])
    /\ UNCHANGED <<rows, linked, merged, writers, disturbed>>

\* Two reads side by side
Read(q) ==
    /\ At(q, "READ")
    /\ \/ /\ requests[q].mine = Absent
          /\ requests' = [requests EXCEPT ![q].mine = subjects[requests[q].survivor]]
       \/ /\ requests[q].theirs = Absent
          /\ requests' = [requests EXCEPT ![q].theirs = subjects[requests[q].loser]]
    /\ UNCHANGED <<rows, linked, merged, writers, disturbed, operations>>

\* What the loser has and the survivor does not, as an administrator's claims
Reconcile(q) ==
    /\ At(q, "READ") /\ requests[q].mine # Absent /\ requests[q].theirs # Absent
    /\ LET r == requests[q]
           claims == [email |-> IF r.theirs.email # r.mine.email THEN r.theirs.email ELSE "none",
                      verified |-> IF r.theirs.verified = "true" /\ r.mine.verified # "true"
                                   THEN "true" ELSE "none"]
       IN  requests' = [requests EXCEPT ![q] =
                Resolution("RESOLVE", r.survivor, "MANUAL", claims, "DISABLE", "none", r.loser)]
    /\ UNCHANGED <<rows, linked, merged, writers, disturbed, operations>>

Disable(q) ==
    /\ At(q, "DISABLE") /\ Goto(q, "REASSIGN")
    /\ subjects' = [subjects EXCEPT ![requests[q].loser].status = "DISABLED"]
    /\ UNCHANGED <<provenance, links, faces, linked, merged, writers, disturbed, operations>>

\* Mutant: the faces move the other way.
ReassignedBack(survivor, loser) == [f \in Faces |-> IF faces[f] = survivor THEN loser ELSE faces[f]]

\* UPDATE ... SET user_id = survivor WHERE user_id = loser
Reassigned(survivor, loser) == [f \in Faces |-> IF faces[f] = loser THEN survivor ELSE faces[f]]

\* One active face per subject, or the statement fails and the merge is answered 409.
OneFaceEach(owners) ==
    \A f, g \in Faces : owners[f] = owners[g] /\ owners[f] # "none" => f = g

Reassign(q) ==
    /\ At(q, "REASSIGN") /\ Answer(q)
    /\ LET loser == requests[q].loser
           owners == Reassigned(Target(q), loser)
       IN  IF OneFaceEach(owners)
           THEN /\ faces' = owners
                /\ merged' = merged \cup {[survivor |-> Target(q), loser |-> loser]}
           ELSE UNCHANGED <<faces, merged>>
    /\ UNCHANGED <<subjects, provenance, links, linked, writers, disturbed, operations>>

-----------------------------------------------------------------------------
(* Principals: recoveries, and the upsert that mints subjects.              *)

\* The conflict that recoverIdentity looks for before it writes
BeginRecovery(q, s, p) ==
    /\ Exists(s) /\ Holders(p) \subseteq {s}
    /\ Begin(q, [step |-> "RELINK", target |-> s, principal |-> p])
    /\ UNCHANGED <<rows, linked, merged, writers, disturbed>>

\* Mutant: the table takes a principal twice.
RelinkableAlways(s, p) == TRUE

\* UNIQUE (primary_provider, primary_provider_subject)
Relinkable(s, p) == Holders(p) \subseteq {s}

Relink(q) ==
    /\ At(q, "RELINK") /\ Answer(q)
    /\ LET s == Target(q)
           p == requests[q].principal
       IN  subjects' = IF Relinkable(s, p) THEN [subjects EXCEPT ![s].principal = p] ELSE subjects
    /\ UNCHANGED <<provenance, links, faces, linked, merged, writers, disturbed, operations>>

\* resolveOrCreate: a new row, or the one that holds the principal
Mint(s, p, e) ==
    /\ ~Exists(s) /\ Holders(p) = {}
    /\ subjects' = [subjects EXCEPT ![s] =
            [status |-> "ACTIVE", email |-> e, verified |-> "none", principal |-> p]]
    /\ UNCHANGED <<provenance, links, faces, requests, linked, merged, writers, disturbed, operations>>

\* The process dies, or a statement fails.
Crash(q) ==
    /\ requests[q] # Idle /\ Answer(q)
    /\ disturbed' = IF Resolving(q) THEN disturbed \cup {Target(q)} ELSE disturbed
    /\ UNCHANGED <<rows, linked, merged, writers, operations>>

\* A subject registered by email owns its claims; a legacy one has no owners.
Init ==
    /\ subjects \in InitialSubjects
    /\ provenance = [s \in Subjects |-> [c \in Claims |->
            IF subjects[s].verified = "true" THEN "HAPI_EMAIL" ELSE "none"]]
    /\ faces \in [Faces -> {s \in Subjects : Exists(s)}] /\ OneFaceEach(faces)
    /\ writers = provenance /\ links = {} /\ linked = {} /\ merged = {} /\ disturbed = {}
    /\ requests = [q \in Requests |-> Idle] /\ operations = 0

Next ==
    \/ \E q \in Requests :
        \/ \E a \in Accounts, s \in Subjects, c \in Suggestions : BeginLink(q, a, s, c)
        \/ Find(q) \/ Create(q) \/ Refind(q) \/ Linked(q)
        \/ Decide(q) \/ Record(q) \/ Apply(q)
        \/ \E s, t \in Subjects : BeginMerge(q, s, t)
        \/ Read(q) \/ Reconcile(q) \/ Disable(q) \/ Reassign(q)
        \/ \E s \in Subjects, p \in Principals : BeginRecovery(q, s, p)
        \/ Relink(q) \/ Crash(q)
    \/ \E s \in Subjects, p \in Principals, e \in Emails : Mint(s, p, e)

Spec == Init /\ [][Next]_vars

-----------------------------------------------------------------------------
\* An account that was answered to be a subject's is that subject's for good: however
\* links overlap, no account is answered for two subjects and no subject for two accounts.
LinkedAsAnswered ==
    /\ linked \subseteq links
    /\ \A l, m \in linked : (l.account = m.account) = (l.subject = m.subject)

\* The recorded owner of a claim is who wrote its value, whenever no resolution of the
\* subject is under way; unless two of them overlapped or one died.
ProvenanceOwned ==
    \A s \in Subjects :
        s \notin disturbed /\ ~(\E q \in Requests : Resolving(q) /\ Target(q) = s)
            => provenance[s] = writers[s]

\* After a merge was answered its loser is disabled and has no face left, whatever other
\* merges did meanwhile, unless it is itself the survivor of a merge.
MergeCompletes ==
    \A m \in merged :
        /\ subjects[m.loser].status = "DISABLED"
        /\ \/ \A f \in Faces : faces[f] # m.loser
           \/ \E n \in merged : n.survivor = m.loser

\* However recoveries and first authentications race, a principal is one subject's.
PrincipalsUnique == \A p \in Principals : \A s, t \in Holders(p) : s = t

\* Accounts, subjects and principals stay one to one.
OneToOne == LinkedAsAnswered /\ PrincipalsUnique
=============================================================================
