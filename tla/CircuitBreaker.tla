--------------------------- MODULE CircuitBreaker ---------------------------
(***************************************************************************)
(* The circuit breaker of one mqweb client (internal/adapter/mqrest/       *)
(* circuit_breaker.go) and the requests that share it (roundTrip in        *)
(* resilience.go).  The breaker's methods run under its mutex; a request   *)
(* is split at its HTTP exchanges and its sleeps.                          *)
(***************************************************************************)
EXTENDS Naturals

CONSTANTS
    Requests,          \* the goroutines that use the client
    NoRequest,         \* none of them
    failureThreshold,  \* failures in a row that open the breaker
    maxAttempts,       \* HTTP exchanges per request
    initialBackoff,    \* the first sleep between two exchanges
    maxBackoff,        \* the longest
    Mqwebs,            \* states of mqweb that occur
    clientCertMode     \* the client authenticates with a certificate

ASSUME LimitsAssumption ==
    /\ failureThreshold \in Nat \ {0}
    /\ maxAttempts \in Nat \ {0}
    /\ initialBackoff \in Nat \ {0}
    /\ maxBackoff \in Nat \ {0}

ASSUME ClientAssumption ==
    /\ NoRequest \notin Requests
    /\ Mqwebs \subseteq {"up", "down", "certRejected"}
    /\ clientCertMode \in BOOLEAN

VARIABLES
    state,             \* of the breaker
    consecutiveFails,  \* counted up to failureThreshold, beyond which all is alike
    waited,            \* openTimeout has passed since openedAt
    probeInFlight,
    pc,                \* where each request is
    attempt,           \* the number of its exchange
    mqweb,             \* how mqweb answers
    prober,            \* history: the request last admitted as a probe
    lost,              \* history: that request returned without a record
    slow               \* history: requests outlasted the last openTimeout

breakerVars == <<state, consecutiveFails, waited, probeInFlight>>
requestVars == <<pc, attempt>>
probeVars   == <<prober, lost, slow>>
vars        == <<breakerVars, requestVars, mqweb, probeVars>>

\* Every variable of the breaker and of the requests has its type.
TypeOK ==
    /\ state \in {"closed", "open", "half_open"}
    /\ consecutiveFails \in 0 .. failureThreshold
    /\ waited \in BOOLEAN
    /\ probeInFlight \in BOOLEAN
    /\ pc \in [Requests -> {"idle", "send", "backoff"}]
    /\ attempt \in [Requests -> 0 .. maxAttempts - 1]
    /\ mqweb \in {"up", "down", "certRejected"}
    /\ prober \in Requests \cup {NoRequest}
    /\ lost \in BOOLEAN
    /\ slow \in BOOLEAN

InFlight == {r \in Requests : pc[r] # "idle"}

-----------------------------------------------------------------------------
(***************************************************************************)
(* The breaker                                                             *)
(***************************************************************************)

newCircuitBreaker ==
    /\ state = "closed"
    /\ consecutiveFails = 0
    /\ waited = FALSE
    /\ probeInFlight = FALSE

\* Mutant: everybody is let through while half open.
beforeRequestManyProbes(r) ==
    \/ /\ state = "closed"
       /\ UNCHANGED <<breakerVars, probeVars>>
    \/ /\ state = "open" => waited
       /\ state # "closed"
       /\ state' = "half_open"
       /\ probeInFlight' = TRUE
       /\ prober' = r
       /\ lost' = FALSE
       /\ UNCHANGED <<consecutiveFails, waited, slow>>

\* Mutant: an open breaker stays open.
beforeRequestNoProbe(r) == state = "closed" /\ UNCHANGED <<breakerVars, probeVars>>

\* The request is let through; as a probe unless the breaker is closed.
beforeRequest(r) ==
    \/ /\ state = "closed"
       /\ UNCHANGED <<breakerVars, probeVars>>
    \/ /\ state = "open" => waited
       /\ state = "half_open" => ~probeInFlight
       /\ state # "closed"
       /\ state' = "half_open"
       /\ probeInFlight' = TRUE
       /\ prober' = r
       /\ lost' = FALSE
       /\ UNCHANGED <<consecutiveFails, waited, slow>>

recordSuccess ==
    /\ consecutiveFails' = 0
    /\ probeInFlight' = FALSE
    /\ state' = "closed"
    /\ UNCHANGED waited

\* A failure while half open opens the breaker again; otherwise it is counted,
\* and each one at or beyond the threshold starts openTimeout anew.
recordFailure ==
    /\ probeInFlight' = FALSE
    /\ \/ /\ state = "half_open"
          /\ state' = "open" /\ waited' = FALSE
          /\ UNCHANGED consecutiveFails
       \/ /\ state # "half_open" /\ consecutiveFails + 1 < failureThreshold
          /\ consecutiveFails' = consecutiveFails + 1
          /\ UNCHANGED <<state, waited>>
       \/ /\ state # "half_open" /\ consecutiveFails + 1 >= failureThreshold
          /\ consecutiveFails' = failureThreshold
          /\ state' = "open" /\ waited' = FALSE

-----------------------------------------------------------------------------
(***************************************************************************)
(* The requests                                                            *)
(***************************************************************************)

Finish(r) ==
    /\ pc' = [pc EXCEPT ![r] = "idle"]
    /\ attempt' = [attempt EXCEPT ![r] = 0]

\* roundTrip asks the breaker first; a refused request returns at once.
Begin(r) ==
    /\ pc[r] = "idle"
    /\ beforeRequest(r)
    /\ pc' = [pc EXCEPT ![r] = "send"]
    /\ UNCHANGED <<attempt, mqweb>>

\* Any answer but 429 and 5xx, an error status included, counts as success.
Answered(r) ==
    /\ pc[r] = "send" /\ mqweb = "up"
    /\ recordSuccess
    /\ Finish(r)
    /\ UNCHANGED <<mqweb, probeVars>>

\* Mutant: the breaker is not told.
CertRejectedUnrecorded(r) ==
    /\ pc[r] = "send" /\ mqweb = "certRejected" /\ clientCertMode
    /\ Finish(r)
    /\ UNCHANGED <<breakerVars, mqweb, probeVars>>

\* mqweb refuses the client's certificate: no retry.
CertRejected(r) ==
    /\ pc[r] = "send" /\ mqweb = "certRejected" /\ clientCertMode
    /\ recordFailure
    /\ Finish(r)
    /\ UNCHANGED <<mqweb, probeVars>>

\* A network error, 429 or 5xx: the next attempt, or the end.
Failed(r) ==
    /\ pc[r] = "send"
    /\ mqweb = "down" \/ (mqweb = "certRejected" /\ ~clientCertMode)
    /\ \/ /\ attempt[r] + 1 < maxAttempts
          /\ pc' = [pc EXCEPT ![r] = "backoff"]
          /\ UNCHANGED <<breakerVars, attempt>>
       \/ /\ attempt[r] + 1 >= maxAttempts
          /\ recordFailure
          /\ Finish(r)
    /\ UNCHANGED <<mqweb, probeVars>>

\* Mutant: a sleep is capped only from the doubling after the one that passes
\* maxBackoff.
backoffCappedLate(n) ==
    LET d[i \in 1 .. n] == IF i = 1 THEN initialBackoff
                           ELSE IF d[i - 1] >= maxBackoff THEN maxBackoff
                           ELSE 2 * d[i - 1]
    IN  IF n <= 0 THEN initialBackoff ELSE d[n]

\* retryPolicy.backoff: how long a request sleeps before attempt n.
backoff(n) ==
    LET d[i \in 1 .. n] == IF i = 1 THEN initialBackoff
                           ELSE IF 2 * d[i - 1] >= maxBackoff THEN maxBackoff
                           ELSE 2 * d[i - 1]
    IN  IF n <= 0 THEN initialBackoff ELSE d[n]

sleepWithContext(r) ==
    /\ pc[r] = "backoff"
    /\ pc' = [pc EXCEPT ![r] = "send"]
    /\ attempt' = [attempt EXCEPT ![r] = @ + 1]
    /\ UNCHANGED <<breakerVars, mqweb, probeVars>>

\* The context ends during the exchange or the sleep, or the request cannot be
\* built: roundTrip returns and tells the breaker nothing.
Aborted(r) ==
    /\ pc[r] # "idle"
    /\ Finish(r)
    /\ lost' = (lost \/ r = prober)
    /\ UNCHANGED <<breakerVars, mqweb, prober, slow>>

roundTrip(r) ==
    Begin(r) \/ Answered(r) \/ CertRejected(r) \/ Failed(r) \/ sleepWithContext(r)

\* openTimeout passes, whether or not the requests that were admitted before the
\* breaker opened are over.
OpenTimeout ==
    /\ state = "open" /\ ~waited
    /\ waited' = TRUE
    /\ slow' = (InFlight # {})
    /\ UNCHANGED <<state, consecutiveFails, probeInFlight, requestVars, mqweb, prober, lost>>

MqwebChange(m) ==
    /\ m # mqweb
    /\ mqweb' = m
    /\ UNCHANGED <<breakerVars, requestVars, probeVars>>

-----------------------------------------------------------------------------
Init ==
    /\ newCircuitBreaker
    /\ pc = [r \in Requests |-> "idle"]
    /\ attempt = [r \in Requests |-> 0]
    /\ mqweb \in Mqwebs
    /\ prober = NoRequest
    /\ lost = FALSE
    /\ slow = FALSE

Faults == (\E r \in Requests : Aborted(r)) \/ (\E m \in Mqwebs : MqwebChange(m))

Next == (\E r \in Requests : roundTrip(r)) \/ OpenTimeout \/ Faults

Spec == Init /\ [][Next]_vars

\* Goroutines run, time passes, and the requeued reconciles of the workloads make
\* new requests; faults owe nothing.
FairSpec ==
    /\ Spec
    /\ \A r \in Requests : WF_vars(roundTrip(r))
    /\ WF_vars(OpenTimeout)

-----------------------------------------------------------------------------
\* beforeRequest admits nobody while a probe is in flight.  So a half-open
\* breaker must be waiting for a request that is still in flight and will tell it
\* how it went, whatever slow requests report meanwhile; the exception is a probe
\* that was aborted.
ProbeAccounted ==
    state = "half_open" => probeInFlight /\ (lost \/ prober \in InFlight)

\* A closed breaker has seen fewer failures in a row than the threshold, however
\* late failures, probes and successes interleave: newCircuitBreaker and
\* recordSuccess start a full count.
ClosedBelowThreshold == state = "closed" => consecutiveFails < failureThreshold

\* TestCircuitBreakerHalfOpenBlocksConcurrentProbe: while half open, the probe is
\* the only request on its way to mqweb, unless others outlasted openTimeout
\* (openTimeout and the timeout of one exchange are both 30 s by default).
OneProbe == ~slow /\ state = "half_open" => InFlight \subseteq {prober}

\* From some time on, requests and the clock make every step.
Quiet == <>[][(\E r \in Requests : roundTrip(r)) \/ OpenTimeout]_vars

\* mqadmin.TransientError, which an aborted or refused request returns, "wraps a
\* retryable failure": once mqweb answers and nothing is aborted any more, the
\* breaker closes for good, unless it ends up waiting for a probe that was
\* aborted.
RecoversUnlessLost ==
    (/\ <>[](mqweb = "up") /\ Quiet
     /\ <>[]~(lost /\ state = "half_open"))
        => <>[](state = "closed")

\* The first sleep, doubled n times.
Doubled(n) ==
    LET d[i \in 0 .. n] == IF i = 0 THEN initialBackoff ELSE 2 * d[i - 1]
    IN  d[n]

\* The sleeps of a request double up to maxBackoff: each is the first one
\* doubled once for every exchange that failed before it, or maxBackoff when
\* that is less, also at the doubling that reaches or passes it.  (The first
\* sleep is not capped.)
BackoffDoubles ==
    \A r \in Requests : pc[r] = "backoff" =>
        LET plain == Doubled(attempt[r])
        IN  backoff(attempt[r] + 1) =
                IF attempt[r] = 0 \/ plain < maxBackoff THEN plain ELSE maxBackoff
=============================================================================
