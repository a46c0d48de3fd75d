---------------------------- MODULE PlatformClient ----------------------------
(***************************************************************************)
(* Calls to the identity platform (clients/IdentityPlatformClient.ts): up   *)
(* to three attempts each, all through one circuit breaker                  *)
(* (infrastructure/CircuitBreaker.ts), and the background probe that the    *)
(* readiness endpoint starts (infrastructure/DependencyHealthMonitor.ts).   *)
(* The breaker counts a fetch that was answered as a success whatever the   *)
(* answer; its own refusal is retried at once like a 500.                   *)
(***************************************************************************)
EXTENDS Integers

CONSTANTS Calls,      \* calls of the API
    Probe,            \* the call of the monitor
    Threshold, Reset, Refresh, MaxRetries

VARIABLES
    breaker,          \* state, failureCount, and the age of openedAt
    calls,            \* calls being served, the probe among them
    monitor           \* snapshot, inFlight, and the age of lastStartedAt

vars == <<breaker, calls, monitor>>

None == -1                         \* openedAt undefined
Idle == [step |-> "IDLE", attempt |-> 0]
At(c, step) == calls[c].step = step
Retryable == {500, 502, 503, 504}
Answers == {200, 404, 500}         \* answers of the platform, one of each kind
Closed == [state |-> "closed", failures |-> 0, opened |-> None]

\* Mutant: a success leaves the count of failures.
ClosedOnly == [breaker EXCEPT !.state = "closed", !.opened = None]

\* onSuccess
Succeeded == Closed

\* onFailure; the count stops at the threshold.
Failed ==
    LET n == IF breaker.failures < Threshold THEN breaker.failures + 1 ELSE Threshold
    IN  IF breaker.state = "half-open" \/ n = Threshold
        THEN [state |-> "open", failures |-> n, opened |-> 0]
        ELSE [breaker EXCEPT !.failures = n]

\* classifyFailure: an open breaker first, then the status
Classified(status, state) ==
    CASE status = 200 -> "healthy"
      [] state = "open" -> "degraded"
      [] status = 404 -> "unavailable"
      [] OTHER -> "degraded"

\* Mutant: only a success ends the probe.
SettledBySuccess(status, after) ==
    [monitor EXCEPT !.status = Classified(status, after.state), !.inFlight = status # 200]

\* record, and finally
Settled(status, after) ==
    [monitor EXCEPT !.status = Classified(status, after.state), !.inFlight = FALSE]

\* An attempt ends with a status, the breaker in state `after`: retried, or the answer.
Ends(c, status, after) ==
    IF status \in Retryable /\ calls[c].attempt < MaxRetries
    THEN /\ calls' = [calls EXCEPT ![c] = [step |-> "ATTEMPT", attempt |-> @.attempt + 1]]
         /\ UNCHANGED monitor
    ELSE /\ calls' = [calls EXCEPT ![c] = Idle]
         /\ monitor' = IF c = Probe THEN Settled(status, after) ELSE monitor

Begin(c) ==
    /\ calls[c] = Idle /\ c # Probe
    /\ calls' = [calls EXCEPT ![c].step = "ATTEMPT"]
    /\ UNCHANGED <<breaker, monitor>>

\* observe: a stale snapshot starts one probe in the background.
Observe ==
    /\ IF monitor.age >= Refresh /\ ~monitor.inFlight
       THEN /\ monitor' = [monitor EXCEPT !.inFlight = TRUE, !.age = 0]
            /\ calls' = [calls EXCEPT ![Probe].step = "ATTEMPT"]
       ELSE UNCHANGED <<monitor, calls>>
    /\ UNCHANGED breaker

Expired == breaker.opened # None /\ breaker.opened >= Reset
Fetch(c) == calls' = [calls EXCEPT ![c].step = "FETCH"] /\ UNCHANGED monitor

\* Mutant: a refusal renews the time the breaker opened.
RefusedAgain == [breaker EXCEPT !.opened = 0]

\* A refusal changes nothing.
Refused == breaker

\* execute: a breaker that is not open lets every call through; an open one lets one
\* through when its time is over, and refuses the others.
Admit(c) ==
    /\ At(c, "ATTEMPT")
    /\ CASE breaker.state # "open" -> Fetch(c) /\ UNCHANGED breaker
         [] breaker.state = "open" /\ Expired ->
                Fetch(c) /\ breaker' = [breaker EXCEPT !.state = "half-open"]
         [] OTHER -> breaker' = Refused /\ Ends(c, 500, Refused)

\* The platform answers; only a 200 goes on to its body.
Answer(c, status) ==
    /\ At(c, "FETCH") /\ breaker' = Succeeded
    /\ IF status = 200
       THEN calls' = [calls EXCEPT ![c].step = "BODY"] /\ UNCHANGED monitor
       ELSE Ends(c, status, Succeeded)

\* The request is aborted (408, not retried), or the network fails (503).
Breaks(c, status) ==
    /\ At(c, "FETCH") /\ breaker' = Failed /\ Ends(c, status, Failed)

\* The body is read, or is not JSON.
Body(c, status) == At(c, "BODY") /\ Ends(c, status, breaker) /\ UNCHANGED breaker

\* Time passes, until all that is measured by it is over.
Tick ==
    /\ (breaker.opened # None /\ breaker.opened < Reset) \/ monitor.age < Refresh
    /\ breaker' = [breaker EXCEPT !.opened = IF @ = None \/ @ >= Reset THEN @ ELSE @ + 1]
    /\ monitor' = [monitor EXCEPT !.age = IF @ < Refresh THEN @ + 1 ELSE @]
    /\ UNCHANGED calls

Init ==
    /\ breaker = Closed
    /\ calls = [c \in Calls \cup {Probe} |-> Idle]
    /\ monitor = [status |-> "unknown", inFlight |-> FALSE, age |-> Refresh]

Next ==
    \/ Observe \/ Tick
    \/ \E c \in Calls \cup {Probe} :
        \/ Begin(c) \/ Admit(c)
        \/ \E status \in Answers : Answer(c, status)
        \/ \E status \in {408, 503} : Breaks(c, status)
        \/ \E status \in {200, 500} : Body(c, status)

Spec == Init /\ [][Next]_vars

\* Fetches are answered or aborted after five seconds, and bodies end.
Served(c) ==
    \/ Admit(c)
    \/ \E status \in Answers : Answer(c, status)
    \/ \E status \in {408, 503} : Breaks(c, status)
    \/ \E status \in {200, 500} : Body(c, status)

Fairness == WF_vars(Tick) /\ \A c \in Calls \cup {Probe} : WF_vars(Served(c))

LiveSpec == Spec /\ Fairness

-----------------------------------------------------------------------------
\* However late the results of calls that began before come in, the breaker is closed
\* exactly while the failures since the last success are below the threshold, and it
\* knows when it opened exactly while it is not closed: an open one can always end.
BreakerAgrees ==
    /\ (breaker.state = "closed") = (breaker.failures < Threshold)
    /\ (breaker.state = "closed") = (breaker.opened = None)

\* Calls that keep coming make an open breaker try the platform again, although each of
\* them is refused and retried until then.
BreakerTries ==
    ([]<>(\E c \in Calls : At(c, "ATTEMPT"))) => (breaker.state = "open" ~> breaker.state # "open")

\* A background probe ends, whatever its attempts meet, so that another can follow.
EveryProbeSettles == monitor.inFlight ~> ~monitor.inFlight

\* An open breaker is tried again, and every probe ends.
BreakerRecovers == BreakerTries /\ EveryProbeSettles
=============================================================================
