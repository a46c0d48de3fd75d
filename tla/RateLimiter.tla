------------------------------ MODULE RateLimiter ------------------------------
(***************************************************************************)
(* One bucket of the rate limiter (oidc/infrastructure/OIDCRateLimiter.ts): *)
(* a counter in Redis that the first request of a window gives its lifetime *)
(* with a second command.  Every endpoint asks such a bucket for the        *)
(* address, then one for the client and one for the user.                   *)
(***************************************************************************)
EXTENDS Naturals

CONSTANTS Requests, Limit, Window

VARIABLES
    count,      \* the counter; 0: no key
    lifetime,   \* what is left of it; 0: the key has no lifetime
    requests,   \* requests being served
    admitted,   \* requests let through by this counter
    torn        \* a request died before it gave the counter its lifetime

vars == <<count, lifetime, requests, admitted, torn>>

Bound == Limit + 2     \* where the model stops counting
Idle == [step |-> "IDLE"]

\* Mutant: every request renews the lifetime.
SetsLifetimeAlways(n) == n > 0

\* count === 1
SetsLifetime(n) == n = 1

\* INCR
Increment(q) ==
    LET n == IF count < Bound THEN count + 1 ELSE Bound IN
    /\ requests[q] = Idle /\ count' = n
    /\ requests' = [requests EXCEPT ![q] =
            [step |-> IF SetsLifetime(n) THEN "EXPIRE" ELSE "DECIDE", count |-> n, live |-> TRUE]]
    /\ UNCHANGED <<lifetime, admitted, torn>>

\* EXPIRE, by the request that made the counter
Expire(q) ==
    /\ requests[q].step = "EXPIRE"
    /\ lifetime' = IF count > 0 THEN Window ELSE 0
    /\ requests' = [requests EXCEPT ![q].step = "DECIDE"]
    /\ UNCHANGED <<count, admitted, torn>>

\* Mutant: the request that meets the limit is let through.
RefusedLate(n) == n > Limit + 1

\* count > bucket.limit
Refused(n) == n > Limit

\* Let through or answered 429, by the counter the request saw
Decide(q) ==
    /\ requests[q].step = "DECIDE"
    /\ admitted' = IF ~Refused(requests[q].count) /\ requests[q].live
                   THEN admitted + 1 ELSE admitted
    /\ requests' = [requests EXCEPT ![q] = Idle]
    /\ UNCHANGED <<count, lifetime, torn>>

Crash(q) ==
    /\ requests[q] # Idle
    /\ requests' = [requests EXCEPT ![q] = Idle]
    /\ torn' = (torn \/ (requests[q].step = "EXPIRE" /\ requests[q].live))
    /\ UNCHANGED <<count, lifetime, admitted>>

\* A unit of time; the counter goes when its lifetime is over.
Tick ==
    /\ lifetime > 0
    /\ lifetime' = lifetime - 1
    /\ IF lifetime = 1
       THEN /\ count' = 0 /\ admitted' = 0
            /\ requests' = [q \in Requests |->
                    IF requests[q] = Idle THEN Idle ELSE [requests[q] EXCEPT !.live = FALSE]]
       ELSE UNCHANGED <<count, admitted, requests>>
    /\ UNCHANGED torn

Init ==
    /\ count = 0 /\ lifetime = 0 /\ requests = [q \in Requests |-> Idle]
    /\ admitted = 0 /\ torn = FALSE

Next == Tick \/ \E q \in Requests : Increment(q) \/ Expire(q) \/ Decide(q) \/ Crash(q)

Spec == Init /\ [][Next]_vars

\* A served request goes on, and time passes.
Fairness == WF_vars(Tick) /\ \A q \in Requests : WF_vars(Expire(q) \/ Decide(q))

LiveSpec == Spec /\ Fairness

-----------------------------------------------------------------------------
\* One counter lets no more than Limit requests through, and only a request that died
\* between the two commands leaves it without a lifetime.
BucketBounded ==
    /\ admitted =< Limit
    /\ count > 0 /\ lifetime = 0 => torn \/ \E q \in Requests : requests[q].step = "EXPIRE"

\* An exhausted bucket opens again, however many requests keep coming, unless the
\* request that made its counter died before it gave it a lifetime.
BucketReopens == count > Limit ~> (count =< Limit \/ torn)
=============================================================================
