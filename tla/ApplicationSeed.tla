---------------------------- MODULE ApplicationSeed ----------------------------
(***************************************************************************)
(* What every process does before it serves (server.ts): bring the schema   *)
(* up to date and write the first tenant, its application and its client    *)
(* (adapters/base44/Base44ApplicationSeed.ts), file the subjects that have  *)
(* no application under it, and copy the legacy account links.  The writes  *)
(* are statements of their own, several processes start at once, any may    *)
(* fail or die on the way, and meanwhile administrators suspend what the    *)
(* seed writes and Bookwrm links accounts.                                  *)
(***************************************************************************)
EXTENDS Naturals

CONSTANTS
    Processes, Accounts, Subjects,
    Configurations,     \* client settings of a deployment; "none" if it has none
    MaxChanges          \* bound on what others change

VARIABLES
    installed,  \* the schema, with the trigger that mirrors legacy links
    links,      \* identity_account_links: the subject of each Bookwrm account
    registry,   \* what the seed writes
    starts,     \* processes, with what each read and what changed since it began
    decided,    \* what administrators decided last of application and client
    crossed,    \* that was between the two steps of a start on the application
    settled,    \* the configuration whose seed is complete, nothing changed since
    changes

vars == <<installed, links, registry, starts, decided, crossed, settled, changes>>

Statuses == {"active", "suspended"}
Absent == [status |-> "absent"]
Down == [step |-> "DOWN"]
Up == [step |-> "UP"]
At(p, step) == starts[p].step = step

\* UNIQUE (identity_subject_id, application_id)
OneAccountEach(mirror) ==
    \A a, b \in Accounts : mirror[a] = mirror[b] /\ mirror[a] # "none" => a = b

-----------------------------------------------------------------------------
(* Every step of a start, with what it does to the registry.               *)

\* Process p takes a step; a changed registry has disturbed the others.
Takes(p, after) ==
    LET stirred(s) == IF s \in {Down, Up} \/ registry' = registry THEN s
                      ELSE [s EXCEPT !.quiet = FALSE, !.calm = FALSE]
    IN  starts' = [q \in Processes |-> IF q = p THEN after ELSE stirred(starts[q])]

Goes(p, from, to) == At(p, from) /\ Takes(p, [starts[p] EXCEPT !.step = to, !.read = "active"])

Unsettled == settled' = IF registry' = registry THEN settled ELSE "no"

Begin(p, c) ==
    /\ starts[p] = Down
    /\ starts' = [starts EXCEPT ![p] = [step |-> "SCHEMA", conf |-> c, read |-> "active",
                                        quiet |-> TRUE, calm |-> settled = c]]
    /\ UNCHANGED <<installed, links, registry, decided, crossed, settled, changes>>

\* ensureIdentitySchema is one transaction; its failure does not stop the start.
Schema(p) ==
    /\ UNCHANGED <<links, registry, decided, crossed, settled, changes>>
    /\ Goes(p, "SCHEMA", "TENANT") /\ installed' \in {installed, TRUE}

\* A write of the seed; without the schema it fails.
Writes(p, from, to, r) ==
    /\ At(p, from) /\ installed /\ registry' = r /\ Goes(p, from, to) /\ Unsettled
    /\ UNCHANGED <<installed, links, decided, crossed, changes>>

\* A tenant that was suspended is active again.
UpsertTenant(p) ==
    Writes(p, "TENANT", "READ", [registry EXCEPT !.tenant = "active"])

ReadApplication(p) ==
    /\ At(p, "READ") /\ installed
    /\ LET status == registry.application.status
       IN  starts' = [starts EXCEPT ![p].step = "APPLICATION",
                        ![p].read = IF status = "absent" THEN "active" ELSE status]
    /\ UNCHANGED <<installed, links, registry, decided, crossed, settled, changes>>

\* Mutant: the application is written as active, like its tenant.
StatusActive(p) == "active"

\* currentApplication?.status ?? "active"
Status(p) == starts[p].read

\* Its methods are those of the seed again.
UpsertApplication(p) ==
    Writes(p, "APPLICATION", "CLIENT",
           [registry EXCEPT !.application = [status |-> Status(p), face |-> FALSE]])

\* ON CONFLICT (client_id): a client keeps the status it has.
SeededClient(p) ==
    [status |-> IF registry.client = Absent THEN "active" ELSE registry.client.status,
     conf |-> starts[p].conf]

UpsertClient(p) ==
    Writes(p, "CLIENT", "BACKFILL",
           IF starts[p].conf = "none" THEN registry
           ELSE [registry EXCEPT !.client = SeededClient(p)])

\* UPDATE ... WHERE application_id IS NULL
Filed == [s \in Subjects |-> IF registry.filed[s] = "null" THEN "seeded" ELSE registry.filed[s]]

Backfill(p) == Writes(p, "BACKFILL", "MIGRATE", [registry EXCEPT !.filed = Filed])

\* Mutant: each link is audited, not each link that was inserted.
MigratedAudited ==
    [registry EXCEPT
        !.mirror = [a \in Accounts |-> IF @[a] = "none" THEN links[a] ELSE @[a]],
        !.audits = [a \in Accounts |-> IF links[a] # "none" /\ @[a] < 2 THEN @[a] + 1 ELSE @[a]]]

\* INSERT ... SELECT ... ON CONFLICT (id) DO NOTHING, with one audit row for each
\* row it inserted
Migrated ==
    LET copied(a) == registry.mirror[a] = "none" /\ links[a] # "none"
    IN  [registry EXCEPT
            !.mirror = [a \in Accounts |-> IF copied(a) THEN links[a] ELSE @[a]],
            !.audits = [a \in Accounts |-> IF copied(a) THEN @[a] + 1 ELSE @[a]]]

\* One statement: a subject with two legacy accounts lets none through.
Migrate(p) ==
    /\ At(p, "MIGRATE") /\ installed /\ OneAccountEach(Migrated.mirror)
    /\ registry' = Migrated /\ Takes(p, Up)
    /\ settled' = IF starts[p].quiet THEN starts[p].conf
                  ELSE IF registry' = registry THEN settled ELSE "no"
    /\ UNCHANGED <<installed, links, decided, crossed, changes>>

\* The rest of the seed is given up, and the process serves.
Fail(p) ==
    /\ starts[p] \notin {Down, Up} /\ ~At(p, "SCHEMA") /\ starts' = [starts EXCEPT ![p] = Up]
    /\ UNCHANGED <<installed, links, registry, decided, crossed, settled, changes>>

Crash(p) ==
    /\ starts[p] # Down /\ starts' = [starts EXCEPT ![p] = Down]
    /\ UNCHANGED <<installed, links, registry, decided, crossed, settled, changes>>

-----------------------------------------------------------------------------
(* Everybody else.                                                         *)

\* Mutant: only the links of an active application are mirrored.
MirrorsActive == installed /\ registry.application.status = "active"

\* The trigger of the schema
Mirrors == installed

\* identityAccountLinkService creates a link; the trigger mirrors it or refuses it.
Link(a, s) ==
    /\ links[a] = "none" /\ links' = [links EXCEPT ![a] = s]
    /\ IF Mirrors
       THEN /\ registry.application # Absent
            /\ registry' = [registry EXCEPT !.mirror[a] = s, !.audits[a] = @ + 1]
            /\ OneAccountEach(registry'.mirror)
       ELSE registry' = registry
    /\ Takes("nobody", Down) /\ Unsettled
    /\ UNCHANGED <<installed, decided, crossed, changes>>

Flip(status) == IF status = "active" THEN "suspended" ELSE "active"

\* An administrator suspends or readmits the tenant, the application or the client, or
\* allows the application face logins.
Changed(r) ==
    /\ changes < MaxChanges /\ changes' = changes + 1
    /\ registry' = r /\ Takes("nobody", Down) /\ Unsettled /\ UNCHANGED <<installed, links>>

ChangeTenant ==
    /\ registry.tenant # "absent" /\ Changed([registry EXCEPT !.tenant = Flip(@)])
    /\ UNCHANGED <<decided, crossed>>

ChangeApplication ==
    /\ registry.application # Absent
    /\ \/ /\ Changed([registry EXCEPT !.application.status = Flip(@)])
          /\ decided' = [decided EXCEPT !.application = registry'.application.status]
          /\ crossed' = \E p \in Processes : At(p, "APPLICATION")
       \/ /\ Changed([registry EXCEPT !.application.face = TRUE])
          /\ UNCHANGED <<decided, crossed>>

ChangeClient ==
    /\ registry.client # Absent /\ Changed([registry EXCEPT !.client.status = Flip(@)])
    /\ decided' = [decided EXCEPT !.client = registry'.client.status] /\ UNCHANGED crossed

\* A subject of the PrivateID path is created, without an application.
Mint(s) ==
    /\ registry.filed[s] = "absent" /\ Changed([registry EXCEPT !.filed[s] = "null"])
    /\ UNCHANGED <<decided, crossed>>

\* A database from before the seed, with the links of that time.
Init ==
    /\ installed = FALSE /\ links \in [Accounts -> Subjects \cup {"none"}]
    /\ registry = [tenant |-> "absent", application |-> Absent, client |-> Absent,
                   filed |-> [s \in Subjects |-> "absent"],
                   mirror |-> [a \in Accounts |-> "none"], audits |-> [a \in Accounts |-> 0]]
    /\ starts = [p \in Processes |-> Down] /\ changes = 0
    /\ decided = [application |-> "active", client |-> "active"]
    /\ crossed = FALSE /\ settled = "no"

Next ==
    \/ \E p \in Processes :
        \/ \E c \in Configurations : Begin(p, c)
        \/ Schema(p) \/ UpsertTenant(p) \/ ReadApplication(p) \/ UpsertApplication(p)
        \/ UpsertClient(p) \/ Backfill(p) \/ Migrate(p) \/ Fail(p) \/ Crash(p)
    \/ \E a \in Accounts, s \in Subjects : Link(a, s)
    \/ \E s \in Subjects : Mint(s)
    \/ ChangeTenant \/ ChangeApplication \/ ChangeClient

Spec == Init /\ [][Next]_vars

-----------------------------------------------------------------------------
\* Once a seed has come to its end the application knows every legacy link, whatever else
\* starts or fails.
LinksMirrored == settled # "no" => \A a \in Accounts : registry.mirror[a] = links[a]

\* Every link of the application was audited once, by the trigger or by one of the
\* starts that copy the legacy links at the same time.
AuditedOnce ==
    \A a \in Accounts : registry.audits[a] = IF registry.mirror[a] = "none" THEN 0 ELSE 1

\* No start readmits an application or a client that administrators suspended, unless
\* they did so between the two steps of a start on the application.  (A suspended tenant
\* is readmitted by every start.)
DecisionsStand ==
    /\ registry.client # Absent => registry.client.status = decided.client
    /\ registry.application # Absent /\ ~crossed =>
            registry.application.status = decided.application

\* A start repeats a seed of its configuration that nothing has disturbed since: it
\* changes nothing ("Idempotent -- safe to run on every process start").
Idempotent ==
    \A p \in Processes :
        starts[p] \notin {Down, Up} /\ starts'[p].step # starts[p].step /\ starts[p].calm
            => registry' = registry

\* No legacy link is lost on its way to the application, and none is audited twice.
LinksMigrated == LinksMirrored /\ AuditedOnce
=============================================================================
