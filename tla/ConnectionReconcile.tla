-------------------------- MODULE ConnectionReconcile --------------------------
(***************************************************************************)
(* One QueueManagerConnection, the controller worker that reconciles it    *)
(* (internal/controller/queuemanagerconnection_controller.go), the Secret  *)
(* it names and the watch on that Secret (secret_watch.go), and the        *)
(* admission webhook.  The reconcile is split at its calls to the API      *)
(* server and to mqweb.  The worker reads the connection and the Secret    *)
(* from the API server, never from an informer; the informers only say     *)
(* when to reconcile.  The cache of clients is in module ClientFactory.    *)
(***************************************************************************)
EXTENDS Naturals

CONSTANTS
    MaxGeneration,  \* bound: users edit specs of lower generations only
    Secrets,        \* states of the Secret that occur
    Mqwebs,         \* states of mqweb that occur
    Apis,           \* states of the Kubernetes API server that occur
    Webhooks        \* whether the validating webhook is installed

\* wrong: mqweb refuses the credentials; malformed: no client can be built.
SecretStates == {"missing", "malformed", "wrong", "good"}

ASSUME ConnectionAssumption ==
    /\ MaxGeneration \in Nat
    /\ Secrets \subseteq SecretStates
    /\ Mqwebs \subseteq {"up", "down"}
    /\ Apis \subseteq {"up", "down"}
    /\ Webhooks \in BOOLEAN

VARIABLES
    qmc,          \* the QueueManagerConnection in the API server
    event,        \* an event about it is on its way to the work queue
    secret,       \* the Secret
    secretEvent,  \* an event about it that passes the filter is on its way
    queued,       \* the request is in the work queue
    timer,        \* a delayed or rate-limited add of the request is pending
    pc,           \* where the worker is
    conn,         \* the worker's copy of the connection
    current,      \* that copy carries the latest resourceVersion
    client,       \* the Secret that the worker's client was built from
    err,          \* the class of the error the worker is about to report
    mqweb,        \* how mqweb answers
    api,          \* how the API server answers
    pinged,       \* history: the generation of the last successful ping
    delayed,      \* history: the last reconcile asked for a delay
    woken         \* history: something else than its own writes wants a reconcile

objectVars  == <<qmc, event, secret, secretEvent>>
queueVars   == <<queued, timer>>
workerVars  == <<pc, conn, current, client, err>>
envVars     == <<mqweb, api>>
historyVars == <<pinged, delayed, woken>>
vars        == <<objectVars, queueVars, workerVars, envVars, historyVars>>

\* reason and generation of the Ready condition, which is True for "Available"
\* only, are condReason and condGeneration.
QMCType ==
    [exists : BOOLEAN, generation : Nat, deleting : BOOLEAN, finalizer : BOOLEAN,
     condReason : {"", "Progressing", "Available", "Error"}, condGeneration : Nat,
     observedGeneration : Nat]

WorkerStates ==
    {"idle", "addFinalizer", "removeFinalizer", "progressing", "forConnection",
     "ping", "fail", "available"}

\* Every variable of the connection, the Secret, the worker and the queue has
\* its type.
TypeOK ==
    /\ qmc \in QMCType /\ conn \in QMCType
    /\ event \in BOOLEAN /\ secretEvent \in BOOLEAN
    /\ secret \in SecretStates /\ client \in SecretStates
    /\ queued \in BOOLEAN /\ timer \in BOOLEAN
    /\ pc \in WorkerStates
    /\ current \in BOOLEAN
    /\ err \in {"none", "transient", "other"}
    /\ mqweb \in {"up", "down"} /\ api \in {"up", "down"}
    /\ pinged \in Nat
    /\ delayed \in BOOLEAN /\ woken \in BOOLEAN

-----------------------------------------------------------------------------
(***************************************************************************)
(* The API server and admission                                            *)
(***************************************************************************)

\* A connection that is not there; its other fields carry no meaning.
NoQMC ==
    [exists |-> FALSE, generation |-> 0, deleting |-> FALSE, finalizer |-> FALSE,
     condReason |-> "", condGeneration |-> 0, observedGeneration |-> 0]

\* The webhook looks for the Secret on every creation and update of the main
\* resource, finalizer updates and deleting objects included.  (A client
\* certificate must have its two keys as well; the malformed Secrets are those
\* that pass.)
ValidateQueueManagerConnectionSpec == Webhooks => secret # "missing"

\* A deleting object without finalizers is removed.
Stored(o) == IF o.deleting /\ ~o.finalizer THEN NoQMC ELSE o

\* The API server takes o.  A write that changes nothing makes no new version
\* and no event; the controller filters no events.
Store(o) ==
    /\ qmc' = Stored(o)
    /\ event' = (event \/ Stored(o) # qmc)

-----------------------------------------------------------------------------
(***************************************************************************)
(* The worker.  RequeueAfter and an error both leave a timer behind.       *)
(***************************************************************************)

Return(result) ==
    /\ pc' = "idle"
    /\ conn' = NoQMC
    /\ current' = FALSE
    /\ client' = "missing"
    /\ err' = "none"
    /\ timer' = (timer \/ result # "done")
    /\ delayed' = (result = "requeueAfter")

Goto(l) == pc' = l /\ UNCHANGED <<conn, current, client, err, timer, delayed>>

\* The worker goes on to report an error of the class.
GotoFail(class) ==
    /\ pc' = "fail"
    /\ err' = class
    /\ UNCHANGED <<conn, current, client, timer, delayed>>

\* The worker sends its copy, changed to o: the write is accepted only if the
\* copy is current and admission lets it pass; with the server down it fails,
\* although it may have landed.
Write(o, admitted, accepted) ==
    \/ /\ api = "up" /\ current /\ admitted
       /\ Store(o)
       /\ accepted
    \/ /\ api = "down" \/ ~current \/ ~admitted
       /\ Return("error")
       /\ UNCHANGED <<qmc, event>>
    \/ /\ api = "down" /\ current /\ admitted
       /\ Store(o)
       /\ Return("error")

alreadyReady(o) == o.condReason = "Available" /\ o.observedGeneration = o.generation

setCondition(o, reason) ==
    [o EXCEPT !.condReason = reason, !.condGeneration = o.generation]

\* Mutant: the client is built from its Secret to be released.
reconcileDeletionReadingSecret(o) ==
    IF o.finalizer /\ secret \notin {"missing", "malformed"} THEN "removeFinalizer"
    ELSE IF o.finalizer THEN "error" ELSE "done"

\* ReleaseConnection needs no Secret and does not fail.
reconcileDeletion(o) == IF o.finalizer THEN "removeFinalizer" ELSE "done"

\* Mutant: a ready connection is marked as being tested as well.
reconcileAlwaysTesting(o) ==
    IF ~o.exists THEN "done"
    ELSE IF o.deleting THEN reconcileDeletion(o)
    ELSE IF ~o.finalizer THEN "addFinalizer" ELSE "progressing"

\* Where the reconcile of o goes first, or how it ends.
reconcile(o) ==
    IF ~o.exists THEN "done"
    ELSE IF o.deleting THEN reconcileDeletion(o)
    ELSE IF ~o.finalizer THEN "addFinalizer"
    ELSE IF alreadyReady(o) THEN "forConnection" ELSE "progressing"

\* The worker takes the request and reads the connection.
Reconcile ==
    /\ pc = "idle" /\ queued
    /\ queued' = FALSE
    /\ woken' = FALSE
    /\ IF api = "down" \/ reconcile(qmc) \in {"done", "error"}
       THEN Return(IF api = "down" THEN "error" ELSE reconcile(qmc))
       ELSE /\ pc' = reconcile(qmc)
            /\ conn' = qmc
            /\ current' = TRUE
            /\ UNCHANGED <<client, err, timer, delayed>>
    /\ UNCHANGED <<objectVars, envVars, pinged>>

RemoveFinalizer ==
    /\ pc = "removeFinalizer"
    /\ Write([conn EXCEPT !.finalizer = FALSE], ValidateQueueManagerConnectionSpec,
             Return("done"))
    /\ UNCHANGED <<secret, secretEvent, queued, envVars, pinged, woken>>

\* Mutant: a failed update is not reported.
AddFinalizerSwallowed ==
    /\ pc = "addFinalizer"
    /\ \/ /\ api = "up" /\ current /\ ValidateQueueManagerConnectionSpec
          /\ Store([conn EXCEPT !.finalizer = TRUE])
       \/ UNCHANGED <<qmc, event>>
    /\ Return("done")
    /\ UNCHANGED <<secret, secretEvent, queued, envVars, pinged, woken>>

\* The event of the update brings the request back.
AddFinalizer ==
    /\ pc = "addFinalizer"
    /\ Write([conn EXCEPT !.finalizer = TRUE], ValidateQueueManagerConnectionSpec,
             Return("done"))
    /\ UNCHANGED <<secret, secretEvent, queued, envVars, pinged, woken>>

\* Until it is ready at this generation, the connection is marked as being tested.
MarkProgressing ==
    /\ pc = "progressing"
    /\ LET o == setCondition(conn, "Progressing")
       IN  Write(o, TRUE, /\ pc' = "forConnection"
                          /\ conn' = o
                          /\ UNCHANGED <<current, client, err, timer, delayed>>)
    /\ UNCHANGED <<secret, secretEvent, queued, envVars, pinged, woken>>

ForConnection ==
    /\ pc = "forConnection"
    /\ \/ /\ api = "down" \/ secret \in {"missing", "malformed"}
          /\ GotoFail("other")
       \/ /\ api = "up" /\ secret \notin {"missing", "malformed"}
          /\ pc' = "ping"
          /\ client' = secret
          /\ UNCHANGED <<conn, current, err, timer, delayed>>
    /\ UNCHANGED <<objectVars, queued, envVars, pinged, woken>>

\* Mutant: an unreachable mqweb passes for a healthy one.
PingIgnoringTransient ==
    /\ pc = "ping"
    /\ \/ /\ mqweb = "up" /\ client # "good"
          /\ GotoFail("other")
          /\ UNCHANGED pinged
       \/ /\ mqweb = "down" \/ client = "good"
          /\ IF alreadyReady(conn) THEN Return("done") ELSE Goto("available")
          /\ pinged' = IF mqweb = "up" THEN conn.generation ELSE pinged
    /\ UNCHANGED <<objectVars, queued, envVars, woken>>

\* GET of the queue manager with the client's credentials.
Ping ==
    /\ pc = "ping"
    /\ \/ /\ mqweb = "down"
          /\ GotoFail("transient")
          /\ UNCHANGED pinged
       \/ /\ mqweb = "up" /\ client # "good"
          /\ GotoFail("other")
          /\ UNCHANGED pinged
       \/ /\ mqweb = "up" /\ client = "good"
          /\ IF alreadyReady(conn) THEN Return("done") ELSE Goto("available")
          /\ pinged' = conn.generation
    /\ UNCHANGED <<objectVars, queued, envVars, woken>>

\* A transient failure leaves a ready connection ready; every other failure is
\* written to the condition, and all of them are retried after a while.
fail ==
    /\ pc = "fail"
    /\ IF alreadyReady(conn) /\ err = "transient"
       THEN Return("requeueAfter") /\ UNCHANGED <<qmc, event>>
       ELSE Write(setCondition(conn, "Error"), TRUE, Return("requeueAfter"))
    /\ UNCHANGED <<secret, secretEvent, queued, envVars, pinged, woken>>

\* Mutant: observedGeneration is not set.
MarkAvailableUnobserved ==
    /\ pc = "available"
    /\ Write(setCondition(conn, "Available"), TRUE, Return("done"))
    /\ UNCHANGED <<secret, secretEvent, queued, envVars, pinged, woken>>

MarkAvailable ==
    /\ pc = "available"
    /\ Write([setCondition(conn, "Available") EXCEPT !.observedGeneration = conn.generation],
             TRUE, Return("done"))
    /\ UNCHANGED <<secret, secretEvent, queued, envVars, pinged, woken>>

Worker ==
    \/ Reconcile \/ AddFinalizer \/ RemoveFinalizer \/ MarkProgressing
    \/ ForConnection \/ Ping \/ fail \/ MarkAvailable

-----------------------------------------------------------------------------
(***************************************************************************)
(* The watches and the work queue                                          *)
(***************************************************************************)

\* An event about the connection reaches the work queue.
Deliver ==
    /\ event
    /\ event' = FALSE
    /\ queued' = TRUE
    /\ UNCHANGED <<qmc, secret, secretEvent, timer, workerVars, envVars, historyVars>>

\* Mutant: the data are compared, which the informer has stripped.
secretWatchDataOnly(old, new) == old = "missing" \/ new = "missing"

\* Creations, removals, and updates that change the resourceVersion.
secretWatchPredicates(old, new) == old # new

\* The connections that name the Secret are listed; a failing List is logged
\* and the event is lost.
requestsForSecret ==
    /\ secretEvent
    /\ secretEvent' = FALSE
    /\ queued' = (queued \/ (api = "up" /\ qmc.exists))
    /\ woken' = (woken \/ (api = "up" /\ qmc.exists))
    /\ UNCHANGED <<qmc, event, secret, timer, workerVars, envVars, pinged, delayed>>

\* A requeue interval or a rate-limiter delay is over.
TimerFires ==
    /\ timer
    /\ timer' = FALSE
    /\ queued' = TRUE
    /\ woken' = TRUE
    /\ UNCHANGED <<objectVars, workerVars, envVars, pinged, delayed>>

\* The process dies and starts again: it lists connections and Secrets.
Restart ==
    /\ event' = FALSE
    /\ secretEvent' = FALSE
    /\ queued' = qmc.exists
    /\ timer' = FALSE
    /\ pc' = "idle"
    /\ conn' = NoQMC
    /\ current' = FALSE
    /\ client' = "missing"
    /\ err' = "none"
    /\ delayed' = FALSE
    /\ woken' = TRUE
    /\ UNCHANGED <<qmc, secret, envVars, pinged>>

-----------------------------------------------------------------------------
(***************************************************************************)
(* Users and the surroundings                                              *)
(***************************************************************************)

\* A write of somebody else than the worker, whose copy is out of date then.
OtherWrite(o) ==
    /\ api = "up"
    /\ Store(o)
    /\ current' = FALSE
    /\ woken' = TRUE
    /\ UNCHANGED <<secret, secretEvent, queueVars, pc, conn, client, err, envVars, delayed>>

CreateQMC ==
    /\ ~qmc.exists /\ ValidateQueueManagerConnectionSpec
    /\ OtherWrite([NoQMC EXCEPT !.exists = TRUE, !.generation = 1])
    /\ pinged' = 0

EditSpec ==
    /\ qmc.exists /\ qmc.generation < MaxGeneration
    /\ ValidateQueueManagerConnectionSpec
    /\ OtherWrite([qmc EXCEPT !.generation = @ + 1])
    /\ UNCHANGED pinged

\* The deletion mark counts as a new generation.  Dependents make the webhook
\* refuse a deletion; here users delete connections that have none.
DeleteQMC ==
    /\ qmc.exists /\ ~qmc.deleting
    /\ OtherWrite([qmc EXCEPT !.deleting = TRUE, !.generation = @ + 1])
    /\ UNCHANGED pinged

SecretChange(s) ==
    /\ api = "up" /\ s # secret
    /\ secret' = s
    /\ secretEvent' = (secretEvent \/ secretWatchPredicates(secret, s))
    /\ UNCHANGED <<qmc, event, queueVars, workerVars, envVars, historyVars>>

MqwebChange(m) ==
    /\ m # mqweb
    /\ mqweb' = m
    /\ UNCHANGED <<objectVars, queueVars, workerVars, api, historyVars>>

ApiChange(a) ==
    /\ a # api
    /\ api' = a
    /\ UNCHANGED <<objectVars, queueVars, workerVars, mqweb, historyVars>>

Environment ==
    \/ CreateQMC \/ EditSpec \/ DeleteQMC
    \/ \E s \in Secrets : SecretChange(s)
    \/ \E m \in Mqwebs : MqwebChange(m)
    \/ \E a \in Apis : ApiChange(a)
    \/ Restart

-----------------------------------------------------------------------------
Init ==
    /\ qmc = NoQMC /\ event = FALSE
    /\ secret \in Secrets /\ secretEvent = FALSE
    /\ queued = FALSE /\ timer = FALSE
    /\ pc = "idle" /\ conn = NoQMC /\ current = FALSE
    /\ client = "missing" /\ err = "none"
    /\ mqweb \in Mqwebs /\ api \in Apis
    /\ pinged = 0 /\ delayed = FALSE /\ woken = FALSE

Next == Worker \/ Deliver \/ requestsForSecret \/ TimerFires \/ Environment

Spec == Init /\ [][Next]_vars

\* The worker goroutine runs, watches are delivered and timers fire; users and
\* faults owe nothing.
FairSpec ==
    /\ Spec
    /\ WF_vars(Worker) /\ WF_vars(Deliver)
    /\ WF_vars(requestsForSecret) /\ WF_vars(TimerFires)

-----------------------------------------------------------------------------
(***************************************************************************)
(* Safety                                                                  *)
(***************************************************************************)

\* ARCHITECTURE: "Ready=True once Ping succeeds".  A connection that is ready at
\* its current generation was pinged with the spec of that generation, however
\* edits, failing writes and restarts fall between the ping and the status write.
ReadyMeansPinged == qmc.exists /\ alreadyReady(qmc) => pinged = qmc.generation

\* fail: no "permanently stuck QMC when no other event re-triggers the
\* reconcile".  When nothing is queued, scheduled or on its way, the connection
\* is ready at its generation.
NeverStuck ==
    (qmc.exists /\ pc = "idle" /\ ~event /\ ~queued /\ ~timer) => alreadyReady(qmc)

\* ADR-0014: the delay after a terminal error is there "to avoid hot-looping on
\* genuinely misconfigured (non-rotatable) credentials".  A reconcile that asked
\* for a delay is followed by another one only when a timer fired, the operator
\* started, or somebody changed the connection or the Secret.
NoHotLoop == [][Reconcile /\ delayed => woken]_vars

-----------------------------------------------------------------------------
(***************************************************************************)
(* Liveness, once users and faults are quiet.                              *)
(***************************************************************************)

\* From some time on, the operator and its watches make every step.
Quiet == <>[][Worker \/ Deliver \/ requestsForSecret \/ TimerFires]_vars

Healthy ==
    /\ qmc.exists /\ ~qmc.deleting
    /\ secret = "good" /\ mqweb = "up" /\ api = "up"

\* fail: "Ensures self-healing if the Secret-watch enqueue was silently dropped".
\* Once the Secret, mqweb and the API server are good, the connection becomes
\* ready at its generation for good, whatever went wrong before.
EventuallyReady == (Quiet /\ <>[]Healthy) => <>[]alreadyReady(qmc)

\* ROADMAP: "stop Ready False->True flapping".  A healthy connection comes to
\* rest; its own status writes do not bring it back for ever.
Settles == (Quiet /\ <>[]Healthy) => <>[](pc = "idle" /\ ~queued)

\* guidelines: rotating a Secret "enqueues the owning QMC".  When mqweb refuses
\* the credentials of the rotated Secret, or the Secret is gone, the connection
\* stops being ready at its generation, provided that the API server never
\* fails: a List that fails in requestsForSecret loses the event.
RotationNoticed ==
    (/\ Quiet /\ [](api = "up")
     /\ <>[](qmc.exists /\ ~qmc.deleting /\ secret # "good" /\ mqweb = "up"))
        => <>[]~alreadyReady(qmc)

\* ADR-0023: "QMC deletion succeeds regardless of Secret deletion order".  With
\* the webhook installed it takes a Secret, be it one that no client can be built
\* from: the webhook refuses the finalizer's removal without.
DeletionSucceeds ==
    (Quiet /\ <>[](/\ api = "up" /\ (Webhooks => secret # "missing")
                   /\ qmc.exists => qmc.deleting))
        => <>[]~qmc.exists
=============================================================================
