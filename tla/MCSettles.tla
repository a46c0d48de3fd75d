------------------------------- MODULE MCSettles -------------------------------
(***************************************************************************)
(* What must eventually happen, on small instances of the components that   *)
(* share no state with each other, in one state space: `which` says the     *)
(* component that runs, and the others stay in their initial state, where   *)
(* none of their fair actions is enabled.  The mail of H2 is the module that *)
(* this one extends, with one challenge and two sends, of which either may  *)
(* fail, be reported late or never.                                         *)
(***************************************************************************)
EXTENDS EmailVerification, TLC

CONSTANTS NoEmail, NoApplication, NoSubject, NoResult, NoClient, NoRecord, NoRequest

VARIABLES
    which,
    sClock, sChallenges, sSubjects, sEvidence, sResults, sRequests, sPrincipals, sChanges,
    cClock, cRecords, cLocks, cRequests, cIssued,
    lCount, lLifetime, lRequests, lAdmitted, lTorn,
    pBreaker, pCalls, pMonitor

sVars == <<sClock, sChallenges, sSubjects, sEvidence, sResults, sRequests, sPrincipals, sChanges>>
cVars == <<cClock, cRecords, cLocks, cRequests, cIssued>>
lVars == <<lCount, lLifetime, lRequests, lAdmitted, lTorn>>
pVars == <<pBreaker, pCalls, pMonitor>>
all == <<which, vars, sVars, cVars, lVars, pVars>>

-----------------------------------------------------------------------------
\* One address, one challenge, and two requests that may claim it.
SignIn == INSTANCE EmailSignIn WITH
    clock <- sClock, challenges <- sChallenges, subjects <- sSubjects,
    evidence <- sEvidence, results <- sResults, requests <- sRequests,
    principals <- sPrincipals, changes <- sChanges,
    Clients <- {"k1"}, Applications <- {"a1"}, ApplicationOf <- "k1" :> "a1",
    Emails <- {"e1"}, ChallengeIds <- {"c1"}, SubjectIds <- {"s1", "s2"},
    RequestIds <- {"r1", "r2"}, Expiration <- 2, ResultTTL <- 2, MaxTime <- 2,
    MaxChanges <- 1

\* One code and two requests, of which either may hold the lock.
Code == INSTANCE AuthorizationCode WITH
    clock <- cClock, records <- cRecords, locks <- cLocks, requests <- cRequests,
    issued <- cIssued,
    Clients <- {"k1"}, Codes <- {"x1"}, RequestIds <- {"r1", "r2"},
    CodeTTL <- 4, LockTTL <- 2, ConsumedTTL <- 3, MaxTime <- 3

\* A bucket of two, and two requests that keep coming.
Limiter == INSTANCE RateLimiter WITH
    count <- lCount, lifetime <- lLifetime, requests <- lRequests,
    admitted <- lAdmitted, torn <- lTorn,
    Requests <- {"q1", "q2"}, Limit <- 2, Window <- 2

\* Two calls and the probe, and a breaker that two failures open.
Platform == INSTANCE PlatformClient WITH
    breaker <- pBreaker, calls <- pCalls, monitor <- pMonitor,
    Calls <- {"c1", "c2"}, Probe <- "p", Threshold <- 2, Reset <- 2, Refresh <- 1,
    MaxRetries <- 1

-----------------------------------------------------------------------------
SettlesInit ==
    /\ which \in {"delivery", "sign-in", "code", "limiter", "platform"}
    /\ Init /\ SignIn!Init /\ Code!Init /\ Limiter!Init /\ Platform!Init

SettlesNext ==
    /\ UNCHANGED which
    /\ \/ which = "delivery" /\ Next /\ UNCHANGED <<sVars, cVars, lVars, pVars>>
       \/ which = "sign-in" /\ SignIn!Next /\ UNCHANGED <<vars, cVars, lVars, pVars>>
       \/ which = "code" /\ Code!Next /\ UNCHANGED <<vars, sVars, lVars, pVars>>
       \/ which = "limiter" /\ Limiter!Next /\ UNCHANGED <<vars, sVars, cVars, pVars>>
       \/ which = "platform" /\ Platform!Next /\ UNCHANGED <<vars, sVars, cVars, lVars>>

SettlesSpec ==
    /\ SettlesInit /\ [][SettlesNext]_all
    /\ Fairness /\ SignIn!Fairness /\ Code!Fairness /\ Limiter!Fairness
    /\ Platform!Fairness

-----------------------------------------------------------------------------
(* The properties, each stated in the module of its component, as those of  *)
(* the mail are in the module that is extended.                             *)

\* Everything that is taken up ends, unless its process died: the outcome of a send is
\* recorded, a sign-in is answered, and so is an exchange of a code, whoever holds the lock.
EveryRequestEnds ==
    EverySendSettles /\ SignIn!EveryRequestSettles /\ Code!EveryRequestAnswered

\* An exhausted bucket opens again, however many requests keep coming.
BucketReopens == Limiter!BucketReopens

\* Calls that keep coming make an open breaker try the platform again, and a background
\* probe ends whatever its attempts meet.
BreakerRecovers == Platform!BreakerRecovers
=============================================================================
