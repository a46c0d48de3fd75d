------------------------------ MODULE KeyRotation ------------------------------
(***************************************************************************)
(* The active signing key (oidc/infrastructure/OIDCKeyRotationService.ts):  *)
(* every call that signs or publishes rotates it when the last rotation is  *)
(* an interval ago, with separate reads and writes of two Redis keys.       *)
(* Times are kept as ages: of the recorded rotation, of the active key, and *)
(* of each call, which takes at most MaxStall.                              *)
(***************************************************************************)
EXTENDS Integers, Sequences

CONSTANTS Calls, Ring, Interval, MaxStall

VARIABLES
    active,     \* keys:active_kid; "none", or a key that is not of the ring
    recorded,   \* the age of keys:last_rotation_at
    held,       \* how long ago a rotation activated the active key
    calls,      \* calls being served
    crossed     \* two calls were changing keys at once, or one died there

vars == <<active, recorded, held, calls, crossed>>

MaxAge == Interval + MaxStall      \* where ages stop
Grow(age) == IF age < MaxAge THEN age + 1 ELSE age
Idle == [step |-> "IDLE", age |-> 0]
At(c, step) == calls[c].step = step
Goto(c, step) == calls' = [calls EXCEPT ![c].step = step]
Answer(c) == calls' = [calls EXCEPT ![c] = Idle]
InRing(kid) == \E i \in DOMAIN Ring : Ring[i] = kid

\* findIndex, at least 0, then the next one around the ring
NextOf(kid) ==
    LET found == {i \in DOMAIN Ring : Ring[i] = kid}
        index == IF found = {} THEN 1 ELSE CHOOSE i \in found : TRUE
    IN  Ring[(index % Len(Ring)) + 1]

\* ensureKeyRing; a ring of one key is never rotated.
Begin(c) ==
    /\ calls[c] = Idle
    /\ Goto(c, IF Len(Ring) > 1 THEN "LAST" ELSE "ACTIVE")
    /\ UNCHANGED <<active, recorded, held>>

\* now - lastRotation, with the now of the call's begin, reaches the interval.
Due(c) == recorded - calls[c].age >= Interval

Last(c) ==
    /\ At(c, "LAST") /\ Goto(c, IF Due(c) THEN "CURRENT" ELSE "SEED")
    /\ UNCHANGED <<active, recorded, held>>

Seed(c) ==
    /\ At(c, "SEED") /\ Goto(c, IF active = "none" THEN "FIRST" ELSE "ACTIVE")
    /\ UNCHANGED <<active, recorded, held>>

\* A key that no rotation activated has no interval to itself.
Seeded(kid) == active' = kid /\ held' = MaxAge

\* The first key of the ring, when there was none
First(c) ==
    /\ At(c, "FIRST") /\ Goto(c, "ACTIVE") /\ Seeded(Ring[1]) /\ UNCHANGED recorded

Current(c) ==
    /\ At(c, "CURRENT")
    /\ calls' = [calls EXCEPT ![c] = [step |-> "ROTATE", age |-> @.age,
                    kid |-> IF active = "none" THEN Ring[1] ELSE active]]
    /\ UNCHANGED <<active, recorded, held>>

Rotate(c) ==
    /\ At(c, "ROTATE") /\ Goto(c, "STAMP") /\ active' = NextOf(calls[c].kid) /\ held' = 0
    /\ UNCHANGED recorded

\* Mutant: the rotation is not recorded.
StampedNever(c) == recorded

\* The rotation is recorded with the now of the call's begin.
Stamped(c) == calls[c].age

Stamp(c) ==
    /\ At(c, "STAMP") /\ recorded' = Stamped(c)
    /\ calls' = [calls EXCEPT ![c] = [step |-> "ACTIVE", age |-> @.age]]
    /\ UNCHANGED <<active, held>>

\* getActiveKid: a key that is not of the ring is replaced by its first.
Active(c) ==
    /\ At(c, "ACTIVE")
    /\ IF InRing(active) THEN Answer(c) ELSE Goto(c, "REPLACE")
    /\ UNCHANGED <<active, recorded, held>>

Replace(c) ==
    /\ At(c, "REPLACE") /\ Answer(c) /\ Seeded(Ring[1]) /\ UNCHANGED recorded

Crash(c) == calls[c] # Idle /\ Answer(c) /\ UNCHANGED <<active, recorded, held>>

Tick ==
    /\ \A c \in Calls : calls[c] # Idle => calls[c].age < MaxStall
    /\ calls' = [c \in Calls |-> IF calls[c] = Idle THEN Idle
                                 ELSE [calls[c] EXCEPT !.age = @ + 1]]
    /\ recorded' = Grow(recorded) /\ held' = Grow(held)
    /\ UNCHANGED active

Changing(c) == calls[c].step \in {"CURRENT", "ROTATE", "STAMP", "FIRST", "REPLACE"}
Crossing ==
    \/ \E c, d \in Calls : c # d /\ Changing(c)' /\ Changing(d)'
    \/ \E c \in Calls : At(c, "STAMP") /\ At(c, "IDLE")'

\* Redis holds what an earlier deployment left there, or nothing.
Init ==
    /\ active \in {"none", "old"} \cup {Ring[i] : i \in DOMAIN Ring}
    /\ recorded \in 0..MaxAge /\ held = MaxAge
    /\ calls = [c \in Calls |-> Idle] /\ crossed = FALSE

Step ==
    \/ Tick
    \/ \E c \in Calls :
        \/ Begin(c) \/ Last(c) \/ Seed(c) \/ First(c) \/ Current(c) \/ Rotate(c)
        \/ Stamp(c) \/ Active(c) \/ Replace(c) \/ Crash(c)

Next == Step /\ crossed' = (crossed \/ Crossing)

Spec == Init /\ [][Next]_vars

-----------------------------------------------------------------------------
\* A key that a rotation activated stays for the interval, less what a call may take, as
\* long as no two calls changed keys at once and none died between its two writes.
KeepsItsInterval ==
    active' # active /\ InRing(active) /\ ~crossed => held >= Interval - MaxStall

KeysKeepTheirInterval == [][KeepsItsInterval]_vars
=============================================================================
