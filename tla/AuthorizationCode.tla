--------------------------- MODULE AuthorizationCode ---------------------------
(***************************************************************************)
(* Exchange of an authorization code at POST /token:                       *)
(*   src/oidc/infrastructure/RedisLockService.ts (Redlock over one Redis), *)
(*   src/oidc/infrastructure/RedisOIDCStore.ts,                            *)
(*   src/oidc/OIDCService.ts.                                              *)
(*                                                                         *)
(* The code's record is read and written back by two Redis commands, under *)
(* a lock that lapses by itself.  A request may stall at any point, so two *)
(* requests can be between the two commands at once; what is left to       *)
(* protect the code is that releasing a lapsed lock fails the request.     *)
(***************************************************************************)
EXTENDS Integers, FiniteSets

CONSTANTS
    Clients, Codes, RequestIds,
    NoRecord, NoRequest, NoCode, NoClient,
    CodeTTL,      \* AUTHORIZATION_CODE_TTL_MS
    LockTTL,      \* how long Redlock holds the lock
    ConsumedTTL,  \* how long the record of a consumed code is kept
    MaxTime       \* bound on the clock

ASSUME TimesAssumption ==
    /\ CodeTTL \in Nat \ {0} /\ LockTTL \in Nat \ {0} /\ ConsumedTTL \in Nat \ {0}
    /\ MaxTime \in Nat

\* The Redis value of a code, and the time at which the key lapses.
Record == [client : Clients, expiresAt : Nat, consumed : BOOLEAN, lapsesAt : Nat]

Lock == [holder : RequestIds \cup {NoRequest}, lapsesAt : Nat]

\* A token request: waiting for the lock, holding it, having read a usable or
\* no usable record, having written it back, past the lock with the record,
\* and its ends: REJECTED is the end of a request that redeemed its code and
\* then got no tokens for it.
Stages == {"IDLE", "LOCKING", "LOCKED", "USABLE", "USELESS", "CONSUMED", "REFUSED",
           "REDEEMED", "TOKENS", "REJECTED", "DENIED", "FAILED", "CRASHED"}

\* The record that a request has read is known by its client and deadline.
Request == [stage : Stages, code : Codes \cup {NoCode}, client : Clients \cup {NoClient},
            issuedTo : Clients \cup {NoClient}]

ASSUME AbsenceAssumption ==
    /\ NoRecord \notin Record /\ NoRequest \notin RequestIds
    /\ NoCode \notin Codes /\ NoClient \notin Clients

VARIABLES
    clock, records, locks, requests,
    issued   \* issued[k]: what code k was issued with, kept after its record is gone

vars == <<clock, records, locks, requests, issued>>

Init ==
    /\ clock = 0
    /\ records = [k \in Codes |-> NoRecord]
    /\ locks = [k \in Codes |-> [holder |-> NoRequest, lapsesAt |-> 0]]
    /\ requests = [r \in RequestIds |->
         [stage |-> "IDLE", code |-> NoCode, client |-> NoClient, issuedTo |-> NoClient]]
    /\ issued = [k \in Codes |-> [client |-> NoClient, expiresAt |-> 0]]

-----------------------------------------------------------------------------
\* What Redis answers for a key: lapsed keys are gone.
Stored(k) == records[k] # NoRecord /\ clock < records[k].lapsesAt

Usable(k) == Stored(k) /\ ~records[k].consumed /\ clock < records[k].expiresAt

Held(k) == locks[k].holder # NoRequest /\ clock < locks[k].lapsesAt

HeldBy(k, r) == Held(k) /\ locks[k].holder = r

Goto(r, stage) == requests' = [requests EXCEPT ![r].stage = stage]

\* storeAuthorizationCode, with a fresh random code.  The time is read before
\* SET reaches Redis, so the key may outlive the deadline in it.
Issue(k, client) ==
    /\ records[k] = NoRecord
    /\ issued[k].client = NoClient
    /\ \E createdAt \in 0 .. clock :
         /\ records' = [records EXCEPT ![k] =
              [client |-> client, expiresAt |-> createdAt + CodeTTL, consumed |-> FALSE,
               lapsesAt |-> clock + CodeTTL]]
         /\ issued' = [issued EXCEPT ![k] =
              [client |-> client, expiresAt |-> createdAt + CodeTTL]]
    /\ UNCHANGED <<clock, locks, requests>>

\* POST /token with a code; the code may be one that was never issued.
Present(r, k, client) ==
    /\ requests[r].stage = "IDLE"
    /\ requests' = [requests EXCEPT ![r] =
         [stage |-> "LOCKING", code |-> k, client |-> client, issuedTo |-> NoClient]]
    /\ UNCHANGED <<clock, records, locks, issued>>

\* redlock.acquire: SET NX PX; a few retries and then an error.
Acquire(r) ==
    LET k == requests[r].code IN
    /\ requests[r].stage = "LOCKING"
    /\ ~Held(k)
    /\ locks' = [locks EXCEPT ![k] = [holder |-> r, lapsesAt |-> clock + LockTTL]]
    /\ Goto(r, "LOCKED")
    /\ UNCHANGED <<clock, records, issued>>

\* Mutant: the retries go on while the lock's holder is dead.
GiveUpOnLiving(r) ==
    LET k == requests[r].code IN
    /\ requests[r].stage = "LOCKING"
    /\ Held(k) /\ requests[locks[k].holder].stage # "CRASHED"
    /\ Goto(r, "FAILED")
    /\ UNCHANGED <<clock, records, locks, issued>>

GiveUp(r) ==
    /\ requests[r].stage = "LOCKING"
    /\ Held(requests[r].code)
    /\ Goto(r, "FAILED")
    /\ UNCHANGED <<clock, records, locks, issued>>

\* consumeAuthorizationCode: GET and the checks.  An absent key is refused
\* right away, a useless record is deleted first.
Get(r) ==
    LET k == requests[r].code IN
    /\ requests[r].stage = "LOCKED"
    /\ \/ ~Stored(k) /\ Goto(r, "REFUSED")
       \/ Stored(k) /\ ~Usable(k) /\ Goto(r, "USELESS")
       \/ /\ Usable(k)
          /\ requests' = [requests EXCEPT ![r].stage = "USABLE", ![r].issuedTo = records[k].client]
    /\ UNCHANGED <<clock, records, locks, issued>>

\* DEL of a useless record.  The deadline of a usable one may be over by the
\* time the answer of the GET arrives.
Delete(r) ==
    /\ \/ requests[r].stage = "USELESS"
       \/ requests[r].stage = "USABLE" /\ issued[requests[r].code].expiresAt <= clock
    /\ records' = [records EXCEPT ![requests[r].code] = NoRecord]
    /\ Goto(r, "REFUSED")
    /\ UNCHANGED <<clock, locks, issued>>

\* Mutant: the record is written back as it was read.
ConsumedRecordUnmarked(k, client) ==
    [client |-> client, expiresAt |-> issued[k].expiresAt, consumed |-> FALSE,
     lapsesAt |-> clock + ConsumedTTL]

ConsumedRecord(k, client) ==
    [client |-> client, expiresAt |-> issued[k].expiresAt, consumed |-> TRUE,
     lapsesAt |-> clock + ConsumedTTL]

\* SET of the consumed record, whatever the key holds by now.
Put(r) ==
    LET k == requests[r].code IN
    /\ requests[r].stage = "USABLE"
    /\ records' = [records EXCEPT ![k] = ConsumedRecord(k, requests[r].issuedTo)]
    /\ Goto(r, "CONSUMED")
    /\ UNCHANGED <<clock, locks, issued>>

\* Mutant: nobody looks at the answer of the release.
ReleasedAnyway(r, stage) == stage

\* release is answered with an error if the lock is no longer the request's.
Released(r, stage) == IF HeldBy(requests[r].code, r) THEN stage ELSE "FAILED"

Release(r) ==
    LET k == requests[r].code IN
    /\ requests[r].stage \in {"CONSUMED", "REFUSED"}
    /\ locks' = IF HeldBy(k, r) THEN [locks EXCEPT ![k].holder = NoRequest] ELSE locks
    /\ Goto(r, Released(r, IF requests[r].stage = "CONSUMED" THEN "REDEEMED" ELSE "DENIED"))
    /\ UNCHANGED <<clock, records, issued>>

\* Mutant: any client gets the tokens.
ExchangeForAnyone(r) ==
    /\ requests[r].stage = "REDEEMED"
    /\ Goto(r, "REJECTED") \/ Goto(r, "TOKENS")
    /\ UNCHANGED <<clock, records, locks, issued>>

\* The checks that follow the consumption: client, redirect URI, secret, PKCE
\* and identity.  All but the first may go either way here.
Exchange(r) ==
    /\ requests[r].stage = "REDEEMED"
    /\ \/ Goto(r, "REJECTED")
       \/ requests[r].issuedTo = requests[r].client /\ Goto(r, "TOKENS")
    /\ UNCHANGED <<clock, records, locks, issued>>

\* The process dies; its lock stays until it lapses.
Crash(r) ==
    /\ requests[r].stage \in
         {"LOCKING", "LOCKED", "USABLE", "USELESS", "CONSUMED", "REFUSED", "REDEEMED"}
    /\ Goto(r, IF requests[r].stage = "REDEEMED" THEN "REJECTED" ELSE "CRASHED")
    /\ UNCHANGED <<clock, records, locks, issued>>

Tick ==
    /\ clock < MaxTime
    /\ clock' = clock + 1
    /\ UNCHANGED <<records, locks, requests, issued>>

-----------------------------------------------------------------------------
Handler(r) ==
    \/ Acquire(r) \/ GiveUp(r) \/ Get(r) \/ Delete(r) \/ Put(r) \/ Release(r) \/ Exchange(r)

Next ==
    \/ \E r \in RequestIds : Handler(r) \/ Crash(r)
    \/ \E k \in Codes, client \in Clients :
         \/ Issue(k, client)
         \/ \E r \in RequestIds : Present(r, k, client)
    \/ Tick

Spec == Init /\ [][Next]_vars

\* A request goes on unless it crashes: it takes the lock or gives up.
Fairness == \A r \in RequestIds : WF_vars(Handler(r))

LiveSpec == Spec /\ Fairness

-----------------------------------------------------------------------------
(* Properties.                                                             *)

TypeOK ==
    /\ clock \in Nat
    /\ records \in [Codes -> Record \cup {NoRecord}]
    /\ locks \in [Codes -> Lock]
    /\ requests \in [RequestIds -> Request]
    /\ issued \in [Codes -> [client : Clients \cup {NoClient}, expiresAt : Nat]]

\* The requests that got hold of code k for good.
Redeemers(k) ==
    {r \in RequestIds : /\ requests[r].code = k
                        /\ requests[r].stage \in {"REDEEMED", "TOKENS", "REJECTED"}}

\* A code is redeemed at most once, with tokens or without, although the lock
\* may lapse in the middle of reading and writing back its record.
RedeemedOnce == \A k \in Codes : \A q, r \in Redeemers(k) : q = r

\* Tokens are issued only to the client that the code was issued to, however
\* often its record was rewritten in between; a code presented by another
\* client is spent without tokens.
TokensToOwner ==
    \A r \in RequestIds :
      requests[r].stage = "TOKENS" => requests[r].client = issued[requests[r].code].client

\* A code is redeemed within the lifetime of a lock from its expiry, however
\* long a request stalls between reading the record and releasing the lock.
RedeemedInTime ==
    [][\A r \in RequestIds :
         requests[r].stage = "CONSUMED" /\ requests'[r].stage = "REDEEMED"
         => clock < issued[requests[r].code].expiresAt - 1 + LockTTL]_vars

\* A code that once stopped being usable never is again: neither a stalled
\* request's late write nor a deletion revives it.
NeverUsableAgain ==
    [][\A k \in Codes : issued[k].client # NoClient /\ ~Usable(k) => ~Usable(k)']_vars

\* Every token request is answered, whoever holds the lock and even if the
\* holder died with it.
EveryRequestAnswered ==
    \A r \in RequestIds :
      requests[r].stage = "LOCKING" ~>
        requests[r].stage \in {"TOKENS", "REJECTED", "DENIED", "FAILED", "CRASHED"}

\* A code is used up by its one redemption: no second request redeems it and no
\* late write makes it usable again.
UsedOnce == [][RedeemedOnce']_vars /\ NeverUsableAgain
=============================================================================
