---------------------------- MODULE IdentityServices ----------------------------
(***************************************************************************)
(* The services of a deployment that share no state with each other: Face   *)
(* Setup, the legacy enrollment, the administration of subjects, the         *)
(* signing keys, the cached identity context, the issuance of tokens, the   *)
(* seed of a start, a bucket of the rate limiter and the client of the       *)
(* platform.  `which` is the service that runs; the variables of the others  *)
(* are "off".  The constants of a service are its own, but for names of the *)
(* same things.                                                             *)
(***************************************************************************)
EXTENDS Integers, Sequences

CONSTANTS
    Requests,       \* requests being served, of any service that serves them
    Handles,        \* Face Setup: interactions
    MaxChanges,     \* bound on what others change, in Face Setup and issuance
    Transactions, Webhooks, Faces,                              \* legacy enrollment
    Subjects, Accounts, Principals, Emails, Suggestions,        \* administration
    InitialSubjects, MaxOperations,
    Calls,          \* calls being served, to the signing keys or the platform
    Ring, Interval, MaxStall,                                   \* signing keys
    Readers, Resolutions, TTL, Stall, MaxVersion,               \* cached context
    Codes, Addresses, Handle,                                   \* issuance
    Processes, Members, Configurations, MaxDecisions,           \* seed
    Limit, Window,                                              \* rate limiter
    Probe, Threshold, Reset, Refresh, MaxRetries                \* client of the platform

VARIABLES
    which,
    fStore, fRequests, fFresh, fTrusted, fConsented, fFace, fChallenges, fStarts,
    fEnrollments, fLapsed, fOutcomes, fAbandoned, fChanges,
    lTransactions, lPuids, lLate, lSessions, lIdentities, lEnrolledBy, lWebhooks,
    lConfirmed, lDied,
    aSubjects, aProvenance, aLinks, aFaces, aRequests, aLinked, aMerged, aWriters,
    aDisturbed, aOperations,
    kActive, kRecorded, kHeld, kCalls, kCrossed,
    cVersion, cRetired, cEntry, cReaders, cChanges, cServed,
    iStanding, iSubject, iCodes, iTokens, iRequests, iBarred, iSeen, iAnswered, iChanges,
    sInstalled, sLinks, sRegistry, sStarts, sDecided, sCrossed, sSettled, sChanges,
    bCount, bLifetime, bRequests, bAdmitted, bTorn,
    pBreaker, pCalls, pMonitor

fVars == <<fStore, fRequests, fFresh, fTrusted, fConsented, fFace, fChallenges, fStarts,
           fEnrollments, fLapsed, fOutcomes, fAbandoned, fChanges>>
lVars == <<lTransactions, lPuids, lLate, lSessions, lIdentities, lEnrolledBy, lWebhooks,
           lConfirmed, lDied>>
aVars == <<aSubjects, aProvenance, aLinks, aFaces, aRequests, aLinked, aMerged, aWriters,
           aDisturbed, aOperations>>
kVars == <<kActive, kRecorded, kHeld, kCalls, kCrossed>>
cVars == <<cVersion, cRetired, cEntry, cReaders, cChanges, cServed>>
iVars == <<iStanding, iSubject, iCodes, iTokens, iRequests, iBarred, iSeen, iAnswered, iChanges>>
sVars == <<sInstalled, sLinks, sRegistry, sStarts, sDecided, sCrossed, sSettled, sChanges>>
bVars == <<bCount, bLifetime, bRequests, bAdmitted, bTorn>>
pVars == <<pBreaker, pCalls, pMonitor>>
all == <<which, fVars, lVars, aVars, kVars, cVars, iVars, sVars, bVars, pVars>>

-----------------------------------------------------------------------------
Setup == INSTANCE FaceSetup WITH
    store <- fStore, requests <- fRequests, fresh <- fFresh, trusted <- fTrusted,
    consented <- fConsented, face <- fFace, challenges <- fChallenges, starts <- fStarts,
    enrollments <- fEnrollments, lapsed <- fLapsed, outcomes <- fOutcomes,
    abandoned <- fAbandoned, changes <- fChanges

Legacy == INSTANCE LegacyEnrollment WITH
    transactions <- lTransactions, puids <- lPuids, late <- lLate, sessions <- lSessions,
    identities <- lIdentities, enrolledBy <- lEnrolledBy, webhooks <- lWebhooks,
    confirmed <- lConfirmed, died <- lDied

Admin == INSTANCE IdentityClaims WITH
    subjects <- aSubjects, provenance <- aProvenance, links <- aLinks, faces <- aFaces,
    requests <- aRequests, linked <- aLinked, merged <- aMerged, writers <- aWriters,
    disturbed <- aDisturbed, operations <- aOperations

Keys == INSTANCE KeyRotation WITH
    active <- kActive, recorded <- kRecorded, held <- kHeld, calls <- kCalls,
    crossed <- kCrossed

Cache == INSTANCE IdentityContextCache WITH
    version <- cVersion, retired <- cRetired, entry <- cEntry, readers <- cReaders,
    changes <- cChanges, served <- cServed, Changes <- Resolutions

Issuance == INSTANCE TokenIssuance WITH
    standing <- iStanding, subject <- iSubject, codes <- iCodes, tokens <- iTokens,
    requests <- iRequests, barred <- iBarred, seen <- iSeen, answered <- iAnswered,
    changes <- iChanges, Emails <- Addresses

Startup == INSTANCE ApplicationSeed WITH
    installed <- sInstalled, links <- sLinks, registry <- sRegistry, starts <- sStarts,
    decided <- sDecided, crossed <- sCrossed, settled <- sSettled, changes <- sChanges,
    Subjects <- Members, MaxChanges <- MaxDecisions

Limiter == INSTANCE RateLimiter WITH
    count <- bCount, lifetime <- bLifetime, requests <- bRequests,
    admitted <- bAdmitted, torn <- bTorn

Platform == INSTANCE PlatformClient WITH
    breaker <- pBreaker, calls <- pCalls, monitor <- pMonitor

-----------------------------------------------------------------------------
(* What the constants are.                                                 *)

\* The changes that others make are counted.
ASSUME ChangesAssumption == MaxChanges \in Nat

\* A row that is not there, and one that some other enrollment created, are no rows.
ASSUME TransactionsAssumption == "none" \notin Transactions /\ "other" \notin Transactions

\* "none" is no subject.  Suggestions and the first rows have the columns of their tables,
\* where "principal" is UNIQUE.
ASSUME AdministrationAssumption ==
    /\ "none" \notin Subjects
    /\ \A c \in Suggestions : c \in [email : {c.email}, verified : {"none", "true", "false"}]
    /\ \A first \in InitialSubjects :
        /\ first \in [Subjects -> {Admin!Absent} \cup
                [status : {"ACTIVE", "DISABLED"}, email : {first[s].email : s \in Subjects},
                 verified : {"none", "true", "false"}, principal : Principals]]
        /\ \A s, t \in Subjects :
            first[s] # Admin!Absent /\ first[t] # Admin!Absent
                /\ first[s].principal = first[t].principal => s = t

\* Durations are natural; there is a signing key, and "none" is not one.
ASSUME KeysAssumption ==
    /\ Interval \in Nat /\ MaxStall \in Nat
    /\ Ring \in Seq(STRING) /\ Ring # <<>> /\ \A i \in DOMAIN Ring : Ring[i] # "none"
ASSUME CacheAssumption == TTL \in Nat /\ Stall \in Nat /\ MaxVersion \in Nat

\* Names of what is not there name nothing.
ASSUME StartupAssumption ==
    "nobody" \notin Processes /\ "none" \notin Members /\ "no" \notin Configurations

\* A bucket's window has a length, and a breaker opens after some failure.
ASSUME LimiterAssumption == Limit \in Nat /\ Window \in Nat \ {0}
ASSUME PlatformAssumption == Threshold \in Nat \ {0} /\ Reset \in Nat

-----------------------------------------------------------------------------
SetupOff ==
    /\ fStore = "off" /\ fRequests = "off" /\ fFresh = "off" /\ fTrusted = "off"
    /\ fConsented = "off" /\ fFace = "off" /\ fChallenges = "off" /\ fStarts = "off"
    /\ fEnrollments = "off" /\ fLapsed = "off" /\ fOutcomes = "off" /\ fAbandoned = "off"
    /\ fChanges = "off"
LegacyOff ==
    /\ lTransactions = "off" /\ lPuids = "off" /\ lLate = "off" /\ lSessions = "off"
    /\ lIdentities = "off" /\ lEnrolledBy = "off" /\ lWebhooks = "off"
    /\ lConfirmed = "off" /\ lDied = "off"
AdministrationOff ==
    /\ aSubjects = "off" /\ aProvenance = "off" /\ aLinks = "off" /\ aFaces = "off"
    /\ aRequests = "off" /\ aLinked = "off" /\ aMerged = "off" /\ aWriters = "off"
    /\ aDisturbed = "off" /\ aOperations = "off"
KeysOff ==
    kActive = "off" /\ kRecorded = "off" /\ kHeld = "off" /\ kCalls = "off" /\ kCrossed = "off"
CacheOff ==
    /\ cVersion = "off" /\ cRetired = "off" /\ cEntry = "off" /\ cReaders = "off"
    /\ cChanges = "off" /\ cServed = "off"
IssuanceOff ==
    /\ iStanding = "off" /\ iSubject = "off" /\ iCodes = "off" /\ iTokens = "off"
    /\ iRequests = "off" /\ iBarred = "off" /\ iSeen = "off" /\ iAnswered = "off"
    /\ iChanges = "off"
StartupOff ==
    /\ sInstalled = "off" /\ sLinks = "off" /\ sRegistry = "off" /\ sStarts = "off"
    /\ sDecided = "off" /\ sCrossed = "off" /\ sSettled = "off" /\ sChanges = "off"
LimiterOff ==
    /\ bCount = "off" /\ bLifetime = "off" /\ bRequests = "off" /\ bAdmitted = "off"
    /\ bTorn = "off"
PlatformOff == pBreaker = "off" /\ pCalls = "off" /\ pMonitor = "off"

Init ==
    /\ which \in {"setup", "legacy", "administration", "keys", "cache", "issuance",
                  "startup", "limiter", "platform"}
    /\ IF which = "setup" THEN Setup!Init ELSE SetupOff
    /\ IF which = "legacy" THEN Legacy!Init ELSE LegacyOff
    /\ IF which = "administration" THEN Admin!Init ELSE AdministrationOff
    /\ IF which = "keys" THEN Keys!Init ELSE KeysOff
    /\ IF which = "cache" THEN Cache!Init ELSE CacheOff
    /\ IF which = "issuance" THEN Issuance!Init ELSE IssuanceOff
    /\ IF which = "startup" THEN Startup!Init ELSE StartupOff
    /\ IF which = "limiter" THEN Limiter!Init ELSE LimiterOff
    /\ IF which = "platform" THEN Platform!Init ELSE PlatformOff

Next ==
    /\ UNCHANGED which
    /\ \/ /\ which = "setup" /\ Setup!Next
          /\ UNCHANGED <<lVars, aVars, kVars, cVars, iVars, sVars, bVars, pVars>>
       \/ /\ which = "legacy" /\ Legacy!Next
          /\ UNCHANGED <<fVars, aVars, kVars, cVars, iVars, sVars, bVars, pVars>>
       \/ /\ which = "administration" /\ Admin!Next
          /\ UNCHANGED <<fVars, lVars, kVars, cVars, iVars, sVars, bVars, pVars>>
       \/ /\ which = "keys" /\ Keys!Next
          /\ UNCHANGED <<fVars, lVars, aVars, cVars, iVars, sVars, bVars, pVars>>
       \/ /\ which = "cache" /\ Cache!Next
          /\ UNCHANGED <<fVars, lVars, aVars, kVars, iVars, sVars, bVars, pVars>>
       \/ /\ which = "issuance" /\ Issuance!Next
          /\ UNCHANGED <<fVars, lVars, aVars, kVars, cVars, sVars, bVars, pVars>>
       \/ /\ which = "startup" /\ Startup!Next
          /\ UNCHANGED <<fVars, lVars, aVars, kVars, cVars, iVars, bVars, pVars>>
       \/ /\ which = "limiter" /\ Limiter!Next
          /\ UNCHANGED <<fVars, lVars, aVars, kVars, cVars, iVars, sVars, pVars>>
       \/ /\ which = "platform" /\ Platform!Next
          /\ UNCHANGED <<fVars, lVars, aVars, kVars, cVars, iVars, sVars, bVars>>

Spec == Init /\ [][Next]_all

-----------------------------------------------------------------------------
(* The properties, each stated in the module of its service.               *)

\* Forms that are repeated, late or cancelled have their effects once, and the
\* application is told one true outcome (routes/faceSetup.ts).
SetupConsistent == which = "setup" => Setup!SetupConsistent

\* A browser is kept waiting only while a request works on its interaction, or after
\* that request died.
ProcessingHasWorker == which = "setup" => Setup!ProcessingHasWorker

\* No stale writer takes an interaction back to an earlier phase.
PhasesAdvance == [][which = "setup" => Setup!Advances]_all

\* A completed legacy enrollment enrolled its own face, and one whose face is in place
\* is completed, unless the webhook that put it there still works or has died.
EnrollmentsAgree == which = "legacy" => Legacy!EnrollmentsAgree

\* A link that was answered is the link on record, and no recovery or registration
\* gives two subjects the same principal.
OneToOne == which = "administration" => Admin!OneToOne

\* The owner on record of a claim is who wrote its value.
ProvenanceOwned == which = "administration" => Admin!ProvenanceOwned

\* A merge that was answered left nothing active of the subject that was merged.
MergeCompletes == which = "administration" => Admin!MergeCompletes

\* A signing key that a rotation activated stays for its interval.
KeysKeepTheirInterval == [][which = "keys" => Keys!KeepsItsInterval]_all

\* No cached answer is served longer after it ended than an entry and a call last.
StalenessBounded == which = "cache" => Cache!StalenessBounded

\* What was withdrawn before a request began earns that request nothing, and the claims
\* it is answered with are claims the registry had while it was served.
AnswersJustified == which = "issuance" => Issuance!AnswersJustified

\* Once a seed is complete the application has every legacy link, audited once.
LinksMigrated == which = "startup" => Startup!LinksMigrated

\* No start readmits a client or an application that was suspended.
DecisionsStand == which = "startup" => Startup!DecisionsStand

\* A start that repeats an undisturbed seed changes nothing.
SeedIsIdempotent == [][which = "startup" => Startup!Idempotent]_all

\* One counter lets no more than its limit through, and only a request that died between
\* its two commands leaves it without a lifetime.
BucketBounded == which = "limiter" => Limiter!BucketBounded

\* However late results come in, the breaker agrees with its counts and an open one can
\* always end.
BreakerAgrees == which = "platform" => Platform!BreakerAgrees
=============================================================================
