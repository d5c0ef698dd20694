-------------------------- MODULE WorkloadReconcile --------------------------
(***************************************************************************)
(* One workload custom resource (Queue, Topic, Channel, ChannelAuthRule or *)
(* AuthorityRecord), the controller worker that reconciles it, and the IBM *)
(* MQ object it stands for.                                                *)
(*                                                                         *)
(* The five reconcilers share one flow (internal/controller/               *)
(* reconcile_shared.go, drift_policy.go, adoption_policy.go, suspend.go)   *)
(* and differ in the order of two checks and in their admission webhook;   *)
(* Kind selects the reconciler.  A reconcile is split at its calls to the  *)
(* API server and to mqweb, because users, administrators, the informer    *)
(* and a crash can step in between.                                        *)
(***************************************************************************)
CONSTANTS
    Kind,         \* which of the five reconcilers is modelled
    Attributes,   \* the attributes of the MQ object (the authorities of a record)
    Checked,      \* those that drift detection compares
    Unset,        \* an attribute that is left out
    Values,       \* the attribute settings of specs and MQ objects that occur
    Foreign,      \* the settings administrators give the object, or NoObject
    Malformed,    \* the values the MQSC formatter refuses
    Refused,      \* the values the queue manager refuses in a DEFINE or SET
    NoObject,     \* the MQ object does not exist
    Specs,        \* the specs users write
    Annotations,  \* the annotation sets users write
    Conns,        \* states of the QueueManagerConnection that occur
    Mqwebs,       \* states of mqweb that occur
    Apis,         \* states of the Kubernetes API server that occur
    Foregrounds,  \* whether users delete in the foreground
    Webhooks      \* whether the validating webhooks are installed

Kinds == {"Queue", "Topic", "Channel", "ChannelAuthRule", "AuthorityRecord"}

AuthKinds == {"ChannelAuthRule", "AuthorityRecord"}

SpecType ==
    [value    : Values,
     suspend  : BOOLEAN,
     deletion : {"Delete", "Orphan"},
     adoption : {"Adopt", "AdoptIfMatching", "FailIfExists"}]

AnnotationType == [forceOrphan : BOOLEAN, observeOnly : BOOLEAN]

\* deleting: ready, and marked for deletion.
ConnStates == {"missing", "notReady", "ready", "deleting", "noSecret", "badCert"}

ASSUME KindAssumption == Kind \in Kinds

\* The authorities of v added to the ones there are.
Added(v, seen) ==
    [a \in Attributes |-> IF v[a] = Unset THEN seen[a] ELSE v[a]]

ASSUME ValuesAssumption ==
    /\ Values # {}
    /\ NoObject \notin Values
    /\ Checked \subseteq Attributes
    /\ Foreign \subseteq Values \cup {NoObject}
    /\ Malformed \subseteq Values
    /\ Refused \subseteq Values
    /\ \A v \in Values : DOMAIN v = Attributes
    /\ \A v, w \in Values : Added(v, w) \in Values

ASSUME UserAssumption ==
    /\ Specs \subseteq SpecType
    /\ Annotations \subseteq AnnotationType
    /\ Foregrounds \subseteq BOOLEAN

ASSUME EnvironmentAssumption ==
    /\ Conns \subseteq ConnStates
    /\ Mqwebs \subseteq {"up", "down", "rejecting"}
    /\ Apis \subseteq {"up", "down"}
    /\ Webhooks \in BOOLEAN

VARIABLES
    cr,        \* the custom resource in the API server
    cache,     \* the informer's copy of it
    synced,    \* the informer's copy carries the latest resourceVersion
    event,     \* an event the informer has yet to see passes the filter
    queued,    \* the request is in the work queue
    timer,     \* a delayed or rate-limited add of the request is pending
    pc,        \* where the worker is
    obj,       \* the worker's copy of the custom resource
    current,   \* that copy carries the latest resourceVersion
    patch,     \* the condition reason the worker is about to write
    andThen,   \* what the worker does after writing it
    touched,   \* history: others changed the object since the GET of this reconcile
    conn,      \* the QueueManagerConnection
    mqweb,     \* how mqweb answers
    api,       \* how the API server answers
    mq,        \* the MQ object's attributes, or NoObject
    mine,      \* history: the operator wrote that object and never orphaned it
    tampered   \* history: others changed the object since it was seen to match

crVars     == <<cr, cache, synced, event>>
queueVars  == <<queued, timer>>
workerVars == <<pc, obj, current, patch, andThen, touched>>
envVars    == <<conn, mqweb, api>>
mqVars     == <<mq, mine, tampered>>
vars       == <<crVars, queueVars, workerVars, envVars, mqVars>>

\* The terminal errors, by whose fault they are: a spec that the formatter or the
\* queue manager refuses, or anything else that waiting does not mend in the
\* code's view (refused credentials, another 4xx, a bad client certificate).
TerminalErrors == {"InvalidSpec", "Unauthorized"}

Reasons ==
    {"", "Progressing", "Available", "Suspended", "Deleting", "Orphaned",
     "AlreadyExists", "AdoptionConflict", "DriftDetected", "Error"}
        \cup TerminalErrors

(***************************************************************************)
(* The custom resource.  metadata.generation counts the changes of spec    *)
(* and the deletion mark; the code compares it only with the generation    *)
(* stored in the condition, and observedGeneration only with 0, so two     *)
(* Booleans stand for the three numbers and generations need no bound:     *)
(* atGen says the condition is of the current generation, adopted that     *)
(* observedGeneration is set.  reason is the reason of the Synced          *)
(* condition, which is True for "Available" only.  gc is the finalizer of  *)
(* a foreground deletion.                                                  *)
(***************************************************************************)
CRType ==
    [exists : BOOLEAN, spec : SpecType, ann : AnnotationType,
     finalizer : BOOLEAN, gc : BOOLEAN, deleting : BOOLEAN,
     reason : Reasons, atGen : BOOLEAN, adopted : BOOLEAN]

WorkerStates ==
    {"idle", "resolve", "addFinalizer", "get", "define", "delete",
     "removeFinalizer", "patch"}

Results == {"done", "requeueAfter", "error"}

CRTypeOK ==
    /\ cr \in CRType
    /\ cache \in CRType
    /\ synced \in BOOLEAN
    /\ event \in BOOLEAN

WorkerTypeOK ==
    /\ pc \in WorkerStates
    /\ obj \in CRType
    /\ current \in BOOLEAN
    /\ patch \in Reasons
    /\ andThen \in Results \cup {"delete", "removeFinalizer"}
    /\ touched \in BOOLEAN
    /\ timer \in BOOLEAN

EnvTypeOK ==
    /\ queued \in BOOLEAN
    /\ conn \in ConnStates
    /\ mqweb \in {"up", "down", "rejecting"}
    /\ api \in {"up", "down"}

MQTypeOK ==
    /\ mq \in Values \cup {NoObject}
    /\ mine \in BOOLEAN
    /\ tampered \in BOOLEAN

\* Every variable of the custom resource, its copies, the worker, the queue and
\* the MQ object has its type.
TypeOK == CRTypeOK /\ WorkerTypeOK /\ EnvTypeOK /\ MQTypeOK

-----------------------------------------------------------------------------
(***************************************************************************)
(* Predicates and decisions of the reconcilers                             *)
(***************************************************************************)

forceOrphanRequested(o) == o.ann.forceOrphan

orphanDeletionRequested(o) ==
    forceOrphanRequested(o) \/ o.spec.deletion = "Orphan"

isObserveOnly(o) == o.ann.observeOnly

workloadFirstAdoption(o) == ~o.adopted

workloadAlreadySuspended(o) == o.reason = "Suspended" /\ o.atGen

conditionsReady(c) == c \in {"ready", "deleting", "noSecret", "badCert"}

\* Queues, topics and channels: the checked attributes the spec sets.
AttributesNeedUpdate(v, seen) ==
    \E a \in Checked : v[a] # Unset /\ v[a] # seen[a]

\* CHLAUTH rules: some attributes count only when the spec sets them.
ChannelAuthNeedsUpdate(v, seen) ==
    \E a \in Attributes : v[a] # seen[a] /\ (a \in Checked \/ v[a] # Unset)

\* Authority records: the sets of authorities are compared.
AuthorityNeedsUpdate(v, seen) == v # seen

\* Mutant: a missing object is not looked for.
NeedsUpdateIfThere(v, seen) ==
    seen # NoObject /\ AuthorityNeedsUpdate(v, seen)

\* The object is missing or differs from v in what is compared.
NeedsUpdate(v, seen) ==
    \/ seen = NoObject
    \/ CASE Kind = "ChannelAuthRule" -> ChannelAuthNeedsUpdate(v, seen)
         [] Kind = "AuthorityRecord" -> AuthorityNeedsUpdate(v, seen)
         [] OTHER                    -> AttributesNeedUpdate(v, seen)

\* Mutant: AdoptIfMatching forgets to compare.
adoptionBlockIgnoringMismatch(o, seen) ==
    IF ~workloadFirstAdoption(o) \/ seen = NoObject THEN "none"
    ELSE IF o.spec.adoption = "FailIfExists" THEN "AlreadyExists"
    ELSE "none"

adoptionBlockForExisting(o, seen) ==
    IF ~workloadFirstAdoption(o) \/ seen = NoObject THEN "none"
    ELSE IF o.spec.adoption = "FailIfExists" THEN "AlreadyExists"
    ELSE IF o.spec.adoption = "AdoptIfMatching" /\ NeedsUpdate(o.spec.value, seen)
         THEN "AdoptionConflict"
    ELSE "none"

\* Observe-only is looked at first: an observed object is never blocked.
reconcileMQObjectState(o, seen) ==
    LET blocked == adoptionBlockForExisting(o, seen)
    IN  IF isObserveOnly(o)
        THEN IF NeedsUpdate(o.spec.value, seen) THEN "DriftDetected" ELSE "Available"
        ELSE IF blocked # "none" THEN blocked
        ELSE IF NeedsUpdate(o.spec.value, seen) THEN "define" ELSE "Available"

ensureQueue(o, seen) == reconcileMQObjectState(o, seen)

ensureTopic(o, seen) == reconcileMQObjectState(o, seen)

ensureChannel(o, seen) == reconcileMQObjectState(o, seen)

\* The two auth kinds look at the adoption policy first.
ensureChannelAuth(o, seen) ==
    LET blocked == adoptionBlockForExisting(o, seen)
    IN  IF blocked # "none" THEN blocked
        ELSE IF ~NeedsUpdate(o.spec.value, seen) THEN "Available"
        ELSE IF isObserveOnly(o) THEN "DriftDetected" ELSE "define"

\* Mutant: the order of the object kinds, observe-only before adoption.
ensureAuthorityObserveFirst(o, seen) == reconcileMQObjectState(o, seen)

ensureAuthority(o, seen) ==
    LET blocked == adoptionBlockForExisting(o, seen)
    IN  IF blocked # "none" THEN blocked
        ELSE IF ~NeedsUpdate(o.spec.value, seen) THEN "Available"
        ELSE IF isObserveOnly(o) THEN "DriftDetected" ELSE "define"

\* What a reconcile of object o decides when the object looks like seen.
Ensure(o, seen) ==
    CASE Kind = "Queue"           -> ensureQueue(o, seen)
      [] Kind = "Topic"           -> ensureTopic(o, seen)
      [] Kind = "Channel"         -> ensureChannel(o, seen)
      [] Kind = "ChannelAuthRule" -> ensureChannelAuth(o, seen)
      [] Kind = "AuthorityRecord" -> ensureAuthority(o, seen)

\* Mutant: a transient failure is not requeued.
ErrorResultNoTransientRequeue(class) == IF class = "other" THEN "error" ELSE "done"

\* setSyncedError: which errors are requeued, and how.
ErrorResult(class) ==
    CASE class = "transient"        -> "requeueAfter"
      [] class \in TerminalErrors -> "done"
      [] OTHER                     -> "error"

\* A terminal error brings its own reason.
classifyReconcileError(class) ==
    IF class \in TerminalErrors THEN class ELSE "Error"

\* The generation changed between two versions in a row.
GenerationChanged(old, new) ==
    old.spec # new.spec \/ old.deleting # new.deleting

\* Mutant: updates of finalizers only are filtered out.
workloadReconcileGenerationOnly(old, new) ==
    old.exists # new.exists \/ GenerationChanged(old, new)

\* The controller's event filter, on a creation, a removal or an update.
workloadReconcilePredicates(old, new) ==
    \/ old.exists # new.exists
    \/ GenerationChanged(old, new)
    \/ <<old.finalizer, old.gc>> # <<new.finalizer, new.gc>>

\* The filter on the QueueManagerConnection events that fan out to dependents;
\* edited says that the update changed the generation.
connectionWatchPredicates(old, new, edited) ==
    \/ new = "missing"
    \/ conditionsReady(old) # conditionsReady(new)
    \/ edited /\ old # "missing"

-----------------------------------------------------------------------------
(***************************************************************************)
(* Admission: the webhooks see creations and updates of the main resource, *)
(* finalizer changes included, and no status updates.                      *)
(***************************************************************************)

ValidateConnectionRef == conn \notin {"missing", "deleting"}

queueValidateUpdate(o) == ValidateConnectionRef

\* Mutant: deleting objects are validated as well.
authValidateUpdateAlways(o) == ValidateConnectionRef

authValidateUpdate(o) == o.deleting \/ ValidateConnectionRef

Admitted(o) ==
    Webhooks => IF Kind \in AuthKinds THEN authValidateUpdate(o)
                                      ELSE queueValidateUpdate(o)

-----------------------------------------------------------------------------
(***************************************************************************)
(* The API server                                                          *)
(***************************************************************************)

\* A custom resource that is not there; its other fields carry no meaning.
NoCR ==
    [exists |-> FALSE,
     spec |-> [value |-> CHOOSE v \in Values : TRUE, suspend |-> FALSE,
               deletion |-> "Delete", adoption |-> "Adopt"],
     ann |-> [forceOrphan |-> FALSE, observeOnly |-> FALSE],
     finalizer |-> FALSE, gc |-> FALSE, deleting |-> FALSE,
     reason |-> "", atGen |-> FALSE, adopted |-> FALSE]

\* A deleting object without finalizers is removed.
Stored(o) == IF o.deleting /\ ~o.finalizer /\ ~o.gc THEN NoCR ELSE o

\* The API server takes o as the next version and tells the watchers.
Store(o) ==
    /\ cr' = Stored(o)
    /\ synced' = FALSE
    /\ event' = (event \/ workloadReconcilePredicates(cr, Stored(o)))

\* A write of somebody else than the worker: every copy is out of date.
OtherWrite(o) ==
    /\ Store(o)
    /\ current' = FALSE
    /\ UNCHANGED <<cache, queueVars, pc, obj, patch, andThen, touched, envVars>>

-----------------------------------------------------------------------------
(***************************************************************************)
(* The worker.  Return ends a reconcile the way controller-runtime treats  *)
(* its result: RequeueAfter and an error both leave a timer behind, an     *)
(* empty result leaves an earlier timer alone.                             *)
(***************************************************************************)

Return(result) ==
    /\ pc' = "idle"
    /\ obj' = NoCR
    /\ current' = FALSE
    /\ patch' = ""
    /\ andThen' = "done"
    /\ touched' = FALSE
    /\ timer' = (timer \/ result # "done")

\* The worker goes on to state l of the reconcile of its copy.
Goto(l) == pc' = l /\ UNCHANGED <<obj, current, patch, andThen, touched, timer>>

\* The worker goes on to write condition r and then to do what next says.
GotoPatch(r, next) ==
    /\ pc' = "patch"
    /\ patch' = r
    /\ andThen' = next
    /\ UNCHANGED <<obj, current, touched, timer>>

setSyncedError(class) ==
    GotoPatch(classifyReconcileError(class), ErrorResult(class))

\* The worker sends its copy, changed to o, to the API server: the write is
\* accepted only if the copy is current and admission lets it pass; with the
\* server down it fails, although it may have landed.
Write(o, admitted, accepted) ==
    \/ /\ api = "up" /\ current /\ admitted
       /\ Store(o)
       /\ accepted
    \/ /\ api = "down" \/ ~current \/ ~admitted
       /\ Return("error")
       /\ UNCHANGED <<cr, synced, event>>
    \/ /\ api = "down" /\ current /\ admitted
       /\ Store(o)
       /\ Return("error")

-----------------------------------------------------------------------------
(***************************************************************************)
(* The steps of a reconcile                                                *)
(***************************************************************************)

\* suspend is looked at before the deletion timestamp.
reconcileWorkloadSuspended(o) ==
    /\ o.spec.suspend
    /\ IF workloadAlreadySuspended(o)
       THEN Return("done")
       ELSE /\ pc' = "patch"
            /\ patch' = "Suspended"
            /\ andThen' = "done"
            /\ obj' = o
            /\ current' = synced
            /\ UNCHANGED <<touched, timer>>

\* The part of the deletion path before the connection is needed.
reconcileWorkloadDeletion(o) ==
    /\ ~o.spec.suspend /\ o.deleting
    /\ IF ~o.finalizer
       THEN Return("done")
       ELSE /\ IF orphanDeletionRequested(o)
               THEN pc' = "patch" /\ patch' = "Orphaned" /\ andThen' = "removeFinalizer"
               ELSE pc' = "resolve" /\ UNCHANGED <<patch, andThen>>
            /\ obj' = o
            /\ current' = synced
            /\ UNCHANGED <<touched, timer>>

\* A worker takes the request and reads the custom resource from the cache.
Reconcile ==
    /\ pc = "idle" /\ queued
    /\ queued' = FALSE
    /\ \/ ~cache.exists /\ Return("done")
       \/ cache.exists /\ reconcileWorkloadSuspended(cache)
       \/ cache.exists /\ reconcileWorkloadDeletion(cache)
       \/ /\ cache.exists /\ ~cache.spec.suspend /\ ~cache.deleting
          /\ pc' = "resolve"
          /\ obj' = cache
          /\ current' = synced
          /\ UNCHANGED <<patch, andThen, touched, timer>>
    /\ UNCHANGED <<crVars, envVars, mqVars>>

\* Mutant: the DELETE is sent without writing the Deleting condition first.
deletionUnannounced ==
    IF conn \in {"ready", "deleting"} /\ api = "up"
    THEN Goto("delete")
    ELSE GotoPatch("Progressing", "requeueAfter")

\* The deletion path waits for the connection whatever is wrong with it.
deletionAwaitingConnection ==
    IF conn \in {"ready", "deleting"} /\ api = "up"
    THEN GotoPatch("Deleting", "delete")
    ELSE GotoPatch("Progressing", "requeueAfter")

\* resolveConnection, waitForConnectionReady, ForConnection, and the local
\* checks up to the next call.
ResolveConnection ==
    /\ pc = "resolve"
    /\ \/ obj.deleting /\ deletionAwaitingConnection
       \/ /\ ~obj.deleting
          /\ \/ (api = "down" \/ conn \in {"missing", "noSecret"}) /\ setSyncedError("other")
             \/ api = "up" /\ conn = "notReady" /\ GotoPatch("Progressing", "requeueAfter")
             \/ api = "up" /\ conn = "badCert" /\ setSyncedError("Unauthorized")
             \/ /\ api = "up" /\ conn \in {"ready", "deleting"}
                /\ \/ ~obj.finalizer /\ Goto("addFinalizer")
                   \/ obj.finalizer /\ obj.spec.value \in Malformed /\ setSyncedError("InvalidSpec")
                   \/ obj.finalizer /\ obj.spec.value \notin Malformed /\ Goto("get")
    /\ UNCHANGED <<crVars, queued, envVars, mqVars>>

\* The update returns no requeue: the finalizer event brings the request back.
AddFinalizer ==
    /\ pc = "addFinalizer"
    /\ Write([obj EXCEPT !.finalizer = TRUE], Admitted(obj), Return("done"))
    /\ UNCHANGED <<cache, queued, envVars, mqVars>>

\* The class of the error a command to mqweb returns.
MQErrorClass == IF mqweb = "down" THEN "transient" ELSE "Unauthorized"

\* GET of the object, then the decision.
ObserveMQ ==
    /\ pc = "get"
    /\ \/ mqweb # "up" /\ setSyncedError(MQErrorClass) /\ UNCHANGED tampered
       \/ /\ mqweb = "up"
          /\ LET verdict == Ensure(obj, mq)
             IN  IF verdict = "define"
                 THEN Goto("define")
                 ELSE GotoPatch(verdict, "requeueAfter")
          /\ tampered' = (tampered /\ NeedsUpdate(obj.spec.value, mq))
    /\ UNCHANGED <<crVars, queued, envVars, mq, mine>>

\* DEFINE ... REPLACE gives the attributes that are left out their defaults.
defineObjectParameters(v, seen) == v

buildSetChannelAuthMQSC(v, seen) == v

\* SET AUTHREC sends AUTHADD only, which takes nothing away.
buildSetAuthorityMQSC(v, seen) == IF seen = NoObject THEN v ELSE Added(v, seen)

\* What the command that writes the object makes of it.
Defined ==
    /\ mq' = CASE Kind = "ChannelAuthRule" -> buildSetChannelAuthMQSC(obj.spec.value, mq)
               [] Kind = "AuthorityRecord" -> buildSetAuthorityMQSC(obj.spec.value, mq)
               [] OTHER                    -> defineObjectParameters(obj.spec.value, mq)
    /\ mine' = TRUE
    /\ tampered' = FALSE

\* Mutant: the HTTP status is looked at, the command's completion code is not.
DefineMQIgnoringRefusal ==
    /\ pc = "define"
    /\ \/ /\ mqweb = "up"
          /\ IF obj.spec.value \in Refused THEN UNCHANGED mqVars ELSE Defined
          /\ GotoPatch("Available", "requeueAfter")
       \/ /\ mqweb # "up"
          /\ UNCHANGED mqVars \/ (obj.spec.value \notin Refused /\ Defined)
          /\ setSyncedError(MQErrorClass)
    /\ UNCHANGED <<crVars, queued, envVars>>

DefineMQ ==
    /\ pc = "define"
    /\ \/ /\ mqweb = "up" /\ obj.spec.value \notin Refused
          /\ Defined
          /\ GotoPatch("Available", "requeueAfter")
       \/ /\ mqweb = "up" /\ obj.spec.value \in Refused
          /\ UNCHANGED mqVars
          /\ setSyncedError("InvalidSpec")
       \/ /\ mqweb # "up"
          /\ UNCHANGED mqVars \/ (obj.spec.value \notin Refused /\ Defined)
          /\ setSyncedError(MQErrorClass)
    /\ UNCHANGED <<crVars, queued, envVars>>

\* What a DELETE does; deleting what is not there is no error.
Deleted ==
    /\ mq' = NoObject
    /\ mine' = FALSE
    /\ UNCHANGED tampered

\* Mutant: the finalizer goes although the DELETE failed.
handleDeletionIgnoringErrors ==
    /\ pc = "delete"
    /\ Deleted \/ (mqweb # "up" /\ UNCHANGED mqVars)
    /\ Goto("removeFinalizer")
    /\ UNCHANGED <<crVars, queued, envVars>>

handleDeletion ==
    /\ pc = "delete"
    /\ \/ mqweb = "up" /\ Deleted /\ Goto("removeFinalizer")
       \/ /\ mqweb # "up"
          /\ UNCHANGED mqVars \/ Deleted
          /\ setSyncedError(MQErrorClass)
    /\ UNCHANGED <<crVars, queued, envVars>>

RemoveFinalizer ==
    /\ pc = "removeFinalizer"
    /\ Write([obj EXCEPT !.finalizer = FALSE], Admitted(obj), Return("done"))
    /\ mine' = (mine /\ ~(orphanDeletionRequested(obj) /\ ~cr'.finalizer))
    /\ UNCHANGED <<cache, queued, envVars, mq, tampered>>

\* Only patchSyncedAvailable sets status.observedGeneration.
patchSyncedStatus(o) ==
    [o EXCEPT !.reason = patch, !.atGen = TRUE,
              !.adopted = @ \/ patch = "Available"]

\* After the write the reconcile returns, or goes on with the written copy.
PatchStatus ==
    /\ pc = "patch"
    /\ Write(patchSyncedStatus(obj), TRUE,
             \/ andThen \in Results /\ Return(andThen)
             \/ /\ andThen \notin Results
                /\ pc' = andThen
                /\ obj' = patchSyncedStatus(obj)
                /\ patch' = ""
                /\ andThen' = "done"
                /\ UNCHANGED <<current, touched, timer>>)
    /\ UNCHANGED <<cache, queued, envVars, mqVars>>

Worker ==
    \/ Reconcile \/ ResolveConnection \/ AddFinalizer \/ ObserveMQ
    \/ DefineMQ \/ handleDeletion \/ RemoveFinalizer \/ PatchStatus

-----------------------------------------------------------------------------
(***************************************************************************)
(* The informer and the work queue                                         *)
(***************************************************************************)

\* The informer catches up with the watch.
Deliver ==
    /\ ~synced
    /\ cache' = cr
    /\ synced' = TRUE
    /\ event' = FALSE
    /\ queued' = (queued \/ event)
    /\ UNCHANGED <<cr, timer, workerVars, envVars, mqVars>>

\* A requeue interval or a rate-limiter delay is over.
TimerFires ==
    /\ timer
    /\ timer' = FALSE
    /\ queued' = TRUE
    /\ UNCHANGED <<crVars, workerVars, envVars, mqVars>>

\* The process dies and starts again: it lists every custom resource.
Restart ==
    /\ cache' = cr
    /\ synced' = TRUE
    /\ event' = FALSE
    /\ queued' = cr.exists
    /\ timer' = FALSE
    /\ pc' = "idle"
    /\ obj' = NoCR
    /\ current' = FALSE
    /\ patch' = ""
    /\ andThen' = "done"
    /\ touched' = FALSE
    /\ UNCHANGED <<cr, envVars, mqVars>>

-----------------------------------------------------------------------------
(***************************************************************************)
(* Users, administrators and the surroundings                              *)
(***************************************************************************)

CreateCR(s, a) ==
    /\ ~cr.exists /\ api = "up" /\ (Webhooks => ValidateConnectionRef)
    /\ OtherWrite([NoCR EXCEPT !.exists = TRUE, !.spec = s, !.ann = a])
    /\ UNCHANGED mqVars

EditSpec(s) ==
    /\ cr.exists /\ api = "up" /\ Admitted(cr)
    /\ s # cr.spec
    /\ OtherWrite([cr EXCEPT !.spec = s, !.atGen = FALSE])
    /\ UNCHANGED mqVars

\* Annotations do not change the generation.
Annotate(a) ==
    /\ cr.exists /\ api = "up" /\ Admitted(cr)
    /\ a # cr.ann
    /\ OtherWrite([cr EXCEPT !.ann = a])
    /\ UNCHANGED mqVars

\* The reconcile-requested-at annotation: nothing else of the object changes,
\* but the event passes the filter.
RequestReconcile ==
    /\ cr.exists /\ api = "up" /\ Admitted(cr)
    /\ synced' = FALSE
    /\ event' = TRUE
    /\ current' = FALSE
    /\ UNCHANGED <<cr, cache, queueVars, pc, obj, patch, andThen, touched, envVars, mqVars>>

\* The API server marks the object; with foreground, the garbage collector's
\* finalizer is added.  Marking counts as a new generation.
DeleteCR(foreground) ==
    /\ cr.exists /\ ~cr.deleting /\ api = "up"
    /\ OtherWrite([cr EXCEPT !.deleting = TRUE, !.gc = foreground, !.atGen = FALSE])
    /\ UNCHANGED mqVars

GarbageCollect ==
    /\ cr.exists /\ cr.gc /\ api = "up"
    /\ OtherWrite([cr EXCEPT !.gc = FALSE])
    /\ UNCHANGED mqVars

\* The worker has seen the object and is about to act on that, or to report.
Decided == pc = "define" \/ patch = "Available"

\* An administrator creates, alters or deletes the object on the queue manager.
OutOfBand(v) ==
    /\ v # mq
    /\ mq' = v
    /\ mine' = (mine /\ v # NoObject)
    /\ tampered' = TRUE
    /\ touched' = (touched \/ Decided)
    /\ UNCHANGED <<crVars, queueVars, pc, obj, current, patch, andThen, envVars>>

\* The connection changes and its event fans out to the cached dependents, or is
\* lost when they cannot be listed.
ConnectionChange(c, edited, listed) ==
    /\ c # conn
    /\ conn' = c
    /\ queued' = \/ queued
                 \/ /\ listed /\ cache.exists
                    /\ connectionWatchPredicates(conn, c, edited)
    /\ UNCHANGED <<crVars, timer, workerVars, mqweb, api, mqVars>>

MqwebChange(m) ==
    /\ m # mqweb
    /\ mqweb' = m
    /\ UNCHANGED <<crVars, queueVars, workerVars, conn, api, mqVars>>

ApiChange(a) ==
    /\ a # api
    /\ api' = a
    /\ UNCHANGED <<crVars, queueVars, workerVars, conn, mqweb, mqVars>>

Environment ==
    \/ \E s \in Specs, a \in Annotations : CreateCR(s, a)
    \/ \E s \in Specs : EditSpec(s)
    \/ \E a \in Annotations : Annotate(a)
    \/ RequestReconcile
    \/ \E foreground \in Foregrounds : DeleteCR(foreground)
    \/ \E v \in Foreign : OutOfBand(v)
    \/ \E c \in Conns, edited, listed \in BOOLEAN : ConnectionChange(c, edited, listed)
    \/ \E m \in Mqwebs : MqwebChange(m)
    \/ \E a \in Apis : ApiChange(a)
    \/ Restart

-----------------------------------------------------------------------------
Init ==
    /\ cr = NoCR /\ cache = NoCR /\ synced = TRUE /\ event = FALSE
    /\ queued = FALSE /\ timer = FALSE
    /\ pc = "idle" /\ obj = NoCR /\ current = FALSE /\ patch = "" /\ andThen = "done"
    /\ conn \in Conns /\ mqweb \in Mqwebs /\ api \in Apis
    /\ mq \in Foreign \cup {NoObject}
    /\ mine = FALSE /\ tampered = FALSE /\ touched = FALSE

Next == Worker \/ Deliver \/ TimerFires \/ GarbageCollect \/ Environment

Spec == Init /\ [][Next]_vars

\* The worker goroutine runs, watches are delivered, timers fire, and the
\* garbage collector lets go; users and faults owe nothing.
Fairness ==
    /\ WF_vars(Worker)
    /\ WF_vars(Deliver)
    /\ WF_vars(TimerFires)
    /\ WF_vars(GarbageCollect)

FairSpec == Spec /\ Fairness

-----------------------------------------------------------------------------
(***************************************************************************)
(* Safety                                                                  *)
(***************************************************************************)

\* ADR-0013: "remove finalizer only after successful cleanup".  An object the
\* operator created, and did not orphan, always has a custom resource whose
\* finalizer still guards it, whatever copies are stale and whatever call fails.
CleanupBeforeRelease == mine => cr.exists /\ cr.finalizer

\* ADR-0010: "Set Synced=True when the object exists and every desired key we
\* can observe matches".  Synced=True for the current generation means that the
\* comparison with the current spec finds no difference, unless somebody else
\* changed the object since the operator last saw it match.
SyncedMeansApplied ==
    (/\ cr.exists /\ cr.reason = "Available" /\ cr.atGen
     /\ ~tampered)
        => ~NeedsUpdate(cr.spec.value, mq)

\* The weaker promise that also holds where a write only adds: Synced=True for
\* the current generation means that nothing the current spec asks for is
\* missing, under the same proviso.
SyncedMeansGranted ==
    (/\ cr.exists /\ cr.reason = "Available" /\ cr.atGen
     /\ ~tampered)
        => /\ mq # NoObject
           /\ \A a \in Checked : cr.spec.value[a] \in {Unset, mq[a]}

\* The states a custom resource may rest in with nothing scheduled for it.
Resting ==
    \/ cr.spec.suspend /\ workloadAlreadySuspended(cr)
    \/ cr.deleting /\ ~cr.finalizer
    \/ cr.reason \in TerminalErrors /\ cr.atGen

\* OPERATOR_RUNTIME: "a workload reconcile that fails must always schedule a
\* retry unless the failure is terminal".  No wake-up is lost: an idle worker
\* with an up-to-date cache, no queued request and no timer leaves only custom
\* resources that are suspended, released, or failed terminally at this
\* generation.
NeverWedged ==
    (cr.exists /\ pc = "idle" /\ synced /\ ~queued /\ ~timer) => Resting

\* ADR-0022: "FailIfExists: never adopt".  A custom resource with that policy
\* comes to count as having adopted its object (observedGeneration is set) only
\* when the operator wrote the object, unless others replaced it after the GET
\* of the same reconcile.
NeverAdopts ==
    [][(/\ cr'.adopted /\ ~cr.adopted
        /\ cr.spec.adoption = "FailIfExists")
            => mine \/ touched]_vars

\* ADR-0022, adoption: as long as a custom resource has adopted nothing, a
\* DEFINE for it with a policy other than Adopt creates the object and never
\* overwrites one, unless others put it there after the GET that the decision
\* rests on.
AdoptionRespected ==
    [][(/\ pc = "define" /\ mq' # mq /\ pc' # pc
        /\ obj.spec.adoption # "Adopt" /\ workloadFirstAdoption(obj))
            => mq = NoObject \/ touched]_vars

\* The custom resource and the worker as ManagedObject sees them.
Life == IF ~cr.exists THEN "none" ELSE IF cr.deleting THEN "deleting" ELSE "live"

Doing == IF pc = "define" THEN "write" ELSE IF pc = "delete" THEN "delete" ELSE "nothing"

Promise == INSTANCE ManagedObject WITH
    life    <- Life,
    claimed <- cr.finalizer,
    orphan  <- orphanDeletionRequested(cr),
    doing   <- Doing

\* Whatever copy a reconcile works on, it keeps the promise of ManagedObject: it
\* writes and deletes only objects whose resource carries the finalizer at that
\* moment, deletes only for a resource that is being deleted, and the finalizer
\* goes only when the object is gone or the stored resource, not an older copy,
\* asks to orphan it.
KeepsPromise == Promise!Spec

-----------------------------------------------------------------------------
(***************************************************************************)
(* Liveness, once users, administrators and faults are quiet.              *)
(***************************************************************************)

\* From some time on, the operator and the cluster's own machinery make every
\* step.
Quiet == <>[][Worker \/ Deliver \/ TimerFires \/ GarbageCollect]_vars

Working == conn = "ready" /\ mqweb = "up" /\ api = "up"

Wanted ==
    /\ cr.exists /\ ~cr.deleting /\ ~cr.spec.suspend
    /\ ~isObserveOnly(cr) /\ cr.spec.adoption = "Adopt"
    /\ cr.spec.value \notin Malformed \cup Refused

Applied ==
    cr.reason = "Available" /\ cr.atGen /\ ~NeedsUpdate(cr.spec.value, mq)

\* setSyncedError gave this generation up for a failure that the spec is not to
\* blame for: no timer brings the request back when the cause is gone.
GivenUp == cr.exists /\ cr.reason = "Unauthorized" /\ cr.atGen

\* The retry policy of setSyncedError and the drift resync: a custom resource
\* whose spec is good ends up synced, and stays so, once the connection, mqweb
\* and the API server work, without anybody touching it and although the fan-out
\* of the connection's event failed.  The one exception are the failures that
\* are terminal without being the spec's fault: a custom resource that met one at
\* its current generation may rest with that condition instead.
EventuallySynced ==
    (Quiet /\ <>[](Working /\ Wanted)) => <>[]Applied \/ <>[]GivenUp

\* What lets a deletion finish: a connection chain that works, or, ADR-0022,
\* "orphan-deletes succeed with no QMC/Secret present".  The webhook of the
\* object kinds takes the second back when the connection is missing.
Releasable ==
    /\ api = "up" /\ cr.deleting /\ ~cr.spec.suspend
    /\ \/ Working
       \/ /\ orphanDeletionRequested(cr)
          /\ Kind \in AuthKinds \/ conn \notin {"missing", "deleting"}

\* ADR-0013 and ADR-0022: a deletion finishes, unless suspended, once everything
\* works or once nothing but the API server is needed for it, except that one
\* whose DELETE mqweb refused rests where ADR-0022 has it requeued.
EventuallyReleased ==
    (Quiet /\ <>[](cr.exists => Releasable)) => <>[]~cr.exists \/ <>[](cr.deleting /\ GivenUp)

=============================================================================
