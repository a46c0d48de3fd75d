-------------------------- MODULE IdentityContextCache --------------------------
(***************************************************************************)
(* One entry of the cache in front of the identity platform                 *)
(* (identity/IdentityService.ts, cache/IdentityCache.ts).  A reader that    *)
(* misses fetches and stores; resolveIdentity and reverify delete the entry *)
(* and only then make the platform change, so that a reader in between      *)
(* stores the old answer again.                                             *)
(***************************************************************************)
EXTENDS Integers

CONSTANTS Readers, Changes,
    TTL,            \* lifetime of an entry
    Stall,          \* what a call to the platform takes at most
    MaxVersion      \* bound on the versions of the platform's answer

VARIABLES
    version,        \* the platform's current answer
    retired,        \* how long ago each version stopped being the answer
    entry,          \* the cached answer and its age
    readers,        \* getIdentityContext, getSecurityContext, getPolicies
    changes,        \* resolveIdentity, reverify
    served          \* versions served, and how long each had been retired by then

vars == <<version, retired, entry, readers, changes, served>>

Versions == 0..MaxVersion
MaxAge == TTL + Stall + 1      \* where ages stop
NoEntry == [value |-> 0, age |-> TTL]
Idle == [step |-> "IDLE", value |-> 0, age |-> 0]
Grow(age) == IF age < MaxAge THEN age + 1 ELSE age
Serve(v) == served' = IF v = version THEN served ELSE served \cup {[value |-> v, late |-> retired[v]]}

\* A hit is served; a miss goes to the platform.
Get(r) ==
    /\ readers[r] = Idle
    /\ IF entry # NoEntry
       THEN Serve(entry.value) /\ UNCHANGED readers
       ELSE readers' = [readers EXCEPT ![r].step = "FETCH"] /\ UNCHANGED served
    /\ UNCHANGED <<version, retired, entry, changes>>

\* The platform answers with what is current.
Fetch(r) ==
    /\ readers[r].step = "FETCH"
    /\ readers' = [readers EXCEPT ![r] = [step |-> "SET", value |-> version, age |-> 0]]
    /\ UNCHANGED <<version, retired, entry, changes, served>>

\* The call fails, or its process dies.
Fails(r) ==
    /\ readers[r] # Idle /\ readers' = [readers EXCEPT ![r] = Idle]
    /\ UNCHANGED <<version, retired, entry, changes, served>>

\* Mutant: an entry without a lifetime.
StoredForGood(v) == [value |-> v, age |-> 0 - 1]

\* SET ... PX
Stored(v) == [value |-> v, age |-> 0]

Set(r) ==
    /\ readers[r].step = "SET"
    /\ entry' = Stored(readers[r].value) /\ Serve(readers[r].value)
    /\ readers' = [readers EXCEPT ![r] = Idle]
    /\ UNCHANGED <<version, retired, changes>>

\* invalidate
Invalidate(c) ==
    /\ changes[c] = "IDLE" /\ entry' = NoEntry
    /\ changes' = [changes EXCEPT ![c] = "CALL"]
    /\ UNCHANGED <<version, retired, readers, served>>

\* resolve or reverify at the platform, which may change its answer
Change(c) ==
    /\ changes[c] = "CALL" /\ changes' = [changes EXCEPT ![c] = "IDLE"]
    /\ \/ version < MaxVersion /\ version' = version + 1
       \/ UNCHANGED version
    /\ UNCHANGED <<retired, entry, readers, served>>

\* A unit of time; a call to the platform is never older than Stall.
Tick ==
    /\ \A r \in Readers : readers[r].step = "SET" => readers[r].age < Stall
    /\ entry' = IF entry.age < 0 THEN entry
                ELSE IF entry.age + 1 >= TTL THEN NoEntry ELSE [entry EXCEPT !.age = @ + 1]
    /\ retired' = [v \in Versions |-> IF v < version THEN Grow(retired[v]) ELSE 0]
    /\ readers' = [r \in Readers |-> IF readers[r].step = "SET"
                                     THEN [readers[r] EXCEPT !.age = @ + 1] ELSE readers[r]]
    /\ UNCHANGED <<version, changes, served>>

Init ==
    /\ version = 0 /\ retired = [v \in Versions |-> 0] /\ entry = NoEntry
    /\ readers = [r \in Readers |-> Idle] /\ changes = [c \in Changes |-> "IDLE"]
    /\ served = {}

Next ==
    \/ \E r \in Readers : Get(r) \/ Fetch(r) \/ Set(r) \/ Fails(r)
    \/ \E c \in Changes : Invalidate(c) \/ Change(c)
    \/ Tick

Spec == Init /\ [][Next]_vars

-----------------------------------------------------------------------------
\* Whatever invalidations and late fills do to each other, no answer is served longer
\* after it stopped being the platform's than an entry lives and a call takes.
StalenessBounded == \A s \in served : s.late =< TTL + Stall
=============================================================================
