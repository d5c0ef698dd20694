------------------------------ MODULE Operator ------------------------------
(***************************************************************************)
(* The parts of the operator together: one QueueManagerConnection, Channel *)
(* and ChannelAuthRule resources that refer to it, the admission webhooks  *)
(* between users and the API server, the reconcilers, and the queue        *)
(* manager.  Every Channel names the same MQ channel, every rule the same  *)
(* CHLAUTH rule of it.                                                     *)
(*                                                                         *)
(* A request is validated first and stored later.  The webhooks read the   *)
(* connection from the API server, but list Channels and dependents from   *)
(* the informer cache, as the reconcilers read theirs.  A command to mqweb *)
(* may time out and be carried out afterwards.                             *)
(*                                                                         *)
(* Resources have the policies Delete and Adopt.  What makes a reconcile   *)
(* run is left to WorkloadReconcile: here it runs again and again.         *)
(***************************************************************************)
EXTENDS Naturals, FiniteSets

CONSTANTS
    Channels,      \* the Channel resources
    AuthRules,     \* the ChannelAuthRule resources
    Plans,         \* what users create, and whether they want it all deleted in the end
    NoObject,      \* no object on the queue manager
    MaxCreates,    \* bound: resources and connections created
    MaxFaults      \* bound: time-outs, restarts and outages

Resources == Channels \cup AuthRules

MQNames == {"channel", "rule"}

ASSUME PlansAssumption ==
    /\ Plans \subseteq [creates : SUBSET Resources, teardown : BOOLEAN]
    /\ Channels \cap AuthRules = {}
    /\ NoObject \notin Resources /\ "qmc" \notin Resources

VARIABLES
    plan,       \* what users are up to
    qmc,        \* the QueueManagerConnection
    cr,         \* the resources in the API server
    cached,     \* the copies in the informer cache
    fresh,      \* whether a copy is the resource as it is now
    requests,   \* validated and not yet stored: creates, and deletes of the connection
    w,          \* the reconcile of each resource
    mq,         \* the MQ objects: which resource's values they have
    late,       \* timed-out commands that mqweb still carries out
    creates, faults, \* how much of it there was
    raced,      \* history: a create and a delete of the connection overlapped,
                \* or the delete was validated against an outdated cache
    lateDefine  \* history: a DEFINE was carried out after its time-out

api     == <<qmc, cr, cached, fresh, requests>>
history == <<raced, lateDefine>>
vars    == <<plan, api, w, mq, late, creates, faults, history>>

MQName(c) == IF c \in Channels THEN "channel" ELSE "rule"

None == [life |-> "none", finalizer |-> FALSE, synced |-> FALSE]

NoConnection == [life |-> "none", finalizer |-> FALSE, ready |-> FALSE]

\* Where a reconcile is, whether its copy is still current, and what GET returned.
Idle == [pc |-> "idle", current |-> FALSE, seen |-> NoObject]

-----------------------------------------------------------------------------
(***************************************************************************)
(* Writes to the API server                                                *)
(***************************************************************************)

\* A user's write, which makes the copy of a reconcile outdated.
Store(c, new) ==
    /\ cr' = [cr EXCEPT ![c] = new]
    /\ fresh' = [fresh EXCEPT ![c] = FALSE]
    /\ w' = [w EXCEPT ![c].current = FALSE]
    /\ UNCHANGED cached

\* A reconcile's write: a conflict when its copy is outdated.
Update(c, current, new) ==
    /\ cr' = IF current THEN [cr EXCEPT ![c] = new] ELSE cr
    /\ fresh' = IF current THEN [fresh EXCEPT ![c] = FALSE] ELSE fresh
    /\ UNCHANGED cached

CacheSync(c) ==
    /\ ~fresh[c]
    /\ cached' = [cached EXCEPT ![c] = cr[c]]
    /\ fresh' = [fresh EXCEPT ![c] = TRUE]
    /\ UNCHANGED <<plan, qmc, cr, requests, w, mq, late, creates, faults, history>>

-----------------------------------------------------------------------------
(***************************************************************************)
(* Admission                                                               *)
(***************************************************************************)

\* Mutant: a connection that is being deleted may still be referred to.
ValidateConnectionRefExists == qmc.life # "none"

ValidateConnectionRef == qmc.life = "live"

\* The first matching Channel of the list, which is in no particular order,
\* must not be deleting.
ValidateManagedChannelRef == \E d \in Channels : cached[d].life = "live"

ValidateSpec(c) == ValidateConnectionRef /\ (c \in AuthRules => ValidateManagedChannelRef)

\* Mutant: a rule that is being deleted is validated like any other.
ValidateUpdateAlways(c, new) == ValidateSpec(c)

\* Rules, unlike Channels, are not validated when they are being deleted.
ValidateUpdate(c, new) == (c \in AuthRules /\ new.life = "deleting") \/ ValidateSpec(c)

listConnectionDependents == {c \in Resources : cached[c].life # "none"}

ValidateCreate(c) ==
    /\ c \in plan.creates /\ creates < MaxCreates
    /\ cr[c].life = "none" /\ \A q \in requests : q.obj # c
    /\ ValidateSpec(c)
    /\ requests' = requests \cup {[obj |-> c, clean |-> TRUE]}
    /\ creates' = creates + 1
    /\ UNCHANGED <<plan, qmc, cr, cached, fresh, w, mq, late, faults, history>>

\* The delete of the connection is denied while there are dependents.
ValidateDelete ==
    /\ qmc.life = "live" /\ \A q \in requests : q.obj # "qmc"
    /\ listConnectionDependents = {}
    /\ LET upToDate == \A c \in Resources : cr[c].life = "none"
       IN  requests' = requests \cup {[obj |-> "qmc", clean |-> upToDate]}
    /\ UNCHANGED <<plan, qmc, cr, cached, fresh, w, mq, late, creates, faults,
                   history>>

\* What is stored overlaps the validated requests of the other kind.
Overlapped(q) ==
    {[p EXCEPT !.clean = @ /\ (p.obj = "qmc") = (q.obj = "qmc")] : p \in requests \ {q}}

StoreCreate(q) ==
    /\ q.obj # "qmc"
    /\ Store(q.obj, [None EXCEPT !.life = "live"])
    /\ requests' = Overlapped(q)
    /\ raced' = (raced \/ ~q.clean)
    /\ UNCHANGED <<plan, qmc, mq, late, creates, faults, lateDefine>>

StoreDelete(q) ==
    /\ q.obj = "qmc"
    /\ qmc' = IF qmc.finalizer THEN [qmc EXCEPT !.life = "deleting"] ELSE NoConnection
    /\ requests' = Overlapped(q)
    /\ raced' = (raced \/ ~q.clean)
    /\ UNCHANGED <<plan, cr, cached, fresh, w, mq, late, creates, faults,
                   lateDefine>>

\* A delete of a Channel or a rule is always allowed.
DeleteCR(c) ==
    /\ cr[c].life = "live"
    /\ Store(c, IF cr[c].finalizer THEN [cr[c] EXCEPT !.life = "deleting"] ELSE None)
    /\ UNCHANGED <<plan, qmc, requests, mq, late, creates, faults, history>>

-----------------------------------------------------------------------------
(***************************************************************************)
(* Reconciles of Channels and rules.  What a reconcile reads before its    *)
(* first write or command is read in one step.                             *)
(***************************************************************************)

\* The copy a reconcile begins with.
Copy(c) == IF w[c].pc = "idle" THEN cached[c] ELSE None

awaitConnection(c) ==
    /\ Copy(c).life = "live" \/ (Copy(c).life = "deleting" /\ Copy(c).finalizer)
    /\ ~qmc.ready
    /\ Update(c, fresh[c], [cr[c] EXCEPT !.synced = FALSE])
    /\ UNCHANGED <<plan, qmc, requests, w, mq, late, creates, faults, history>>

AddFinalizer(c) ==
    /\ Copy(c).life = "live" /\ ~Copy(c).finalizer
    /\ qmc.ready /\ ValidateUpdate(c, Copy(c))
    /\ Update(c, fresh[c], [cr[c] EXCEPT !.finalizer = TRUE])
    /\ UNCHANGED <<plan, qmc, requests, w, mq, late, creates, faults, history>>

\* GetChannel or GetChannelAuth.
Get(c) ==
    /\ Copy(c).life = "live" /\ Copy(c).finalizer /\ qmc.ready
    /\ w' = [w EXCEPT ![c] = [pc |-> "ensure", current |-> fresh[c], seen |-> mq[MQName(c)]]]
    /\ UNCHANGED <<plan, api, mq, late, creates, faults, history>>

\* Mutant: what was synced once is not looked at again.
ensureUnlessSynced(c) ==
    /\ w[c].pc = "ensure"
    /\ mq' = IF w[c].seen # c /\ ~cr[c].synced THEN [mq EXCEPT ![MQName(c)] = c] ELSE mq
    /\ w' = [w EXCEPT ![c].pc = "patch"]
    /\ UNCHANGED <<plan, api, late, creates, faults, history>>

\* ensureChannel or ensureChannelAuth, after the GET.
ensure(c) ==
    /\ w[c].pc = "ensure"
    /\ mq' = IF w[c].seen # c THEN [mq EXCEPT ![MQName(c)] = c] ELSE mq
    /\ w' = [w EXCEPT ![c].pc = "patch"]
    /\ UNCHANGED <<plan, api, late, creates, faults, history>>

patchSyncedAvailable(c) ==
    /\ w[c].pc = "patch"
    /\ Update(c, w[c].current, [cr[c] EXCEPT !.synced = TRUE])
    /\ w' = [w EXCEPT ![c] = Idle]
    /\ UNCHANGED <<plan, qmc, requests, mq, late, creates, faults, history>>

\* handleDeletion goes on to the DELETE only if its status write succeeds.
patchSyncedDeleting(c) ==
    /\ Copy(c).life = "deleting" /\ Copy(c).finalizer /\ qmc.ready
    /\ Update(c, fresh[c], [cr[c] EXCEPT !.synced = FALSE])
    /\ w' = [w EXCEPT ![c] = IF fresh[c] THEN [Idle EXCEPT !.pc = "delete", !.current = TRUE]
                             ELSE Idle]
    /\ UNCHANGED <<plan, qmc, requests, mq, late, creates, faults, history>>

\* A missing object counts as deleted.
Delete(c) ==
    /\ w[c].pc = "delete"
    /\ mq' = [mq EXCEPT ![MQName(c)] = NoObject]
    /\ w' = [w EXCEPT ![c].pc = "release"]
    /\ UNCHANGED <<plan, api, late, creates, faults, history>>

\* The update that removes the finalizer is validated like any other.
RemoveFinalizer(c) ==
    /\ w[c].pc = "release"
    /\ Update(c, w[c].current /\ ValidateUpdate(c, cr[c]), None)
    /\ w' = [w EXCEPT ![c] = Idle]
    /\ UNCHANGED <<plan, qmc, requests, mq, late, creates, faults, history>>

Worker(c) ==
    \/ awaitConnection(c) \/ AddFinalizer(c)
    \/ Get(c) \/ ensure(c) \/ patchSyncedAvailable(c)
    \/ patchSyncedDeleting(c) \/ Delete(c) \/ RemoveFinalizer(c)

-----------------------------------------------------------------------------
(***************************************************************************)
(* The connection, and what goes wrong                                     *)
(***************************************************************************)

CreateConnection ==
    /\ qmc.life = "none" /\ creates < MaxCreates
    /\ qmc' = [NoConnection EXCEPT !.life = "live"]
    /\ creates' = creates + 1
    /\ UNCHANGED <<plan, cr, cached, fresh, requests, w, mq, late,
                   faults, history>>

\* The connection's reconcile adds the finalizer and finds mqweb answering.
ConnectionReady ==
    /\ qmc.life = "live" /\ ~qmc.ready
    /\ qmc' = [qmc EXCEPT !.finalizer = TRUE, !.ready = TRUE]
    /\ UNCHANGED <<plan, cr, cached, fresh, requests, w, mq, late, creates,
                   faults, history>>

\* reconcileDeletion of the connection: it asks nothing of its dependents.
ReleaseConnection ==
    /\ qmc.life = "deleting"
    /\ qmc' = NoConnection
    /\ UNCHANGED <<plan, cr, cached, fresh, requests, w, mq, late, creates,
                   faults, history>>

Fault == faults < MaxFaults /\ faults' = faults + 1

ConnectionFails ==
    /\ Fault /\ qmc.life = "live" /\ qmc.ready
    /\ qmc' = [qmc EXCEPT !.ready = FALSE]
    /\ UNCHANGED <<plan, cr, cached, fresh, requests, w, mq, late, creates,
                   history>>

\* Mutant: a DELETE that timed out is taken for done.
TimedOutIgnoring(c) ==
    /\ Fault
    /\ w[c].pc = "delete" \/ (w[c].pc = "ensure" /\ w[c].seen # c)
    /\ LET effect == [obj |-> MQName(c), value |-> IF w[c].pc = "delete" THEN NoObject ELSE c]
       IN  \/ UNCHANGED <<mq, late>>
           \/ mq' = [mq EXCEPT ![effect.obj] = effect.value] /\ UNCHANGED late
           \/ late' = late \cup {effect} /\ UNCHANGED mq
    /\ w' = [w EXCEPT ![c] = IF w[c].pc = "delete" THEN [@ EXCEPT !.pc = "release"] ELSE Idle]
    /\ UNCHANGED <<plan, api, creates, history>>

\* A DEFINE or DELETE times out: it is lost, carried out, or carried out later.
\* The reconcile ends with a transient error.
TimedOut(c) ==
    /\ Fault
    /\ w[c].pc = "delete" \/ (w[c].pc = "ensure" /\ w[c].seen # c)
    /\ LET effect == [obj |-> MQName(c), value |-> IF w[c].pc = "delete" THEN NoObject ELSE c]
       IN  \/ UNCHANGED <<mq, late>>
           \/ mq' = [mq EXCEPT ![effect.obj] = effect.value] /\ UNCHANGED late
           \/ late' = late \cup {effect} /\ UNCHANGED mq
    /\ Update(c, w[c].current, [cr[c] EXCEPT !.synced = FALSE])
    /\ w' = [w EXCEPT ![c] = Idle]
    /\ UNCHANGED <<plan, qmc, requests, creates, history>>

CarriedOut(effect) ==
    /\ mq' = [mq EXCEPT ![effect.obj] = effect.value]
    /\ late' = late \ {effect}
    /\ lateDefine' = (lateDefine \/ effect.value # NoObject)
    /\ UNCHANGED <<plan, api, w, creates, faults, raced>>

\* The process ends in the middle of its reconciles; the next one fills its cache.
Restart ==
    /\ Fault
    /\ w' = [c \in Resources |-> Idle]
    /\ cached' = cr /\ fresh' = [c \in Resources |-> TRUE]
    /\ UNCHANGED <<plan, qmc, cr, requests, mq, late, creates, history>>

Init ==
    /\ plan \in Plans
    /\ qmc = NoConnection
    /\ cr = [c \in Resources |-> None]
    /\ cached = cr
    /\ fresh = [c \in Resources |-> TRUE]
    /\ requests = {}
    /\ w = [c \in Resources |-> Idle]
    /\ mq = [n \in MQNames |-> NoObject]
    /\ late = {}
    /\ creates = 0 /\ faults = 0
    /\ raced = FALSE /\ lateDefine = FALSE

System ==
    \/ \E c \in Resources : Worker(c) \/ CacheSync(c)
    \/ ConnectionReady \/ ReleaseConnection
    \/ \E q \in requests : StoreCreate(q) \/ StoreDelete(q)
    \/ \E effect \in late : CarriedOut(effect)

Next ==
    \/ System
    \/ CreateConnection \/ ValidateDelete
    \/ \E c \in Resources : ValidateCreate(c) \/ DeleteCR(c) \/ TimedOut(c)
    \/ ConnectionFails \/ Restart

\* Reconciles, caches and mqweb get on with their work.  When everything is to
\* be deleted in the end, the deletes are sent until they are accepted.
Spec ==
    /\ Init /\ [][Next]_vars
    /\ \A c \in Resources : WF_vars(Worker(c))
    /\ WF_vars(\E c \in Resources : CacheSync(c))
    /\ WF_vars(ConnectionReady \/ ReleaseConnection)
    /\ WF_vars(\E q \in requests : StoreCreate(q) \/ StoreDelete(q))
    /\ WF_vars(\E effect \in late : CarriedOut(effect))
    /\ WF_vars(plan.teardown /\ (ValidateDelete \/ \E c \in Resources : DeleteCR(c)))

-----------------------------------------------------------------------------
(***************************************************************************)
(* Properties                                                              *)
(***************************************************************************)

ResourceType == [life : {"none", "live", "deleting"}, finalizer : BOOLEAN, synced : BOOLEAN]

TypeOK ==
    /\ plan \in Plans
    /\ qmc \in [life : {"none", "live", "deleting"}, finalizer : BOOLEAN, ready : BOOLEAN]
    /\ cr \in [Resources -> ResourceType]
    /\ cached \in [Resources -> ResourceType]
    /\ fresh \in [Resources -> BOOLEAN]
    /\ requests \subseteq [obj : Resources \cup {"qmc"}, clean : BOOLEAN]
    /\ w \in [Resources -> [pc : {"idle", "ensure", "patch", "delete", "release"},
                            current : BOOLEAN, seen : Resources \cup {NoObject}]]
    /\ mq \in [MQNames -> Resources \cup {NoObject}]
    /\ late \subseteq [obj : MQNames, value : Resources \cup {NoObject}]
    /\ raced \in BOOLEAN /\ lateDefine \in BOOLEAN

\* queuemanagerconnection_v1beta1.go, "denies delete while dependents still
\* reference this connection": while a Channel or rule exists, so does its
\* connection, not being deleted, unless the create and the delete of the
\* connection overlapped or the delete was validated against a cache that had
\* not seen the resource yet.
ConnectionOutlivesDependents ==
    ((\E c \in Resources : cr[c].life # "none") /\ ~raced) => qmc.life = "live"

\* channel_types.go, "ChannelFinalizer ensures the MQ channel is deleted before
\* the CR is removed", when several resources name one MQ object: once none of
\* them is left, the object is gone, however their DEFINEs and DELETEs
\* interleave with restarts and time-outs; only a DEFINE that mqweb carries out
\* after its time-out can leave it behind.
NoOrphanObject ==
    \A n \in MQNames :
        (~lateDefine /\ \A c \in Resources : MQName(c) = n => cr[c].life = "none")
            => mq[n] = NoObject

\* c is the only Channel left.
Survivor(c) ==
    /\ cr[c].life = "live" /\ qmc.life = "live"
    /\ \A d \in Channels \ {c} : cr[d].life = "none"

\* drift_resync.go: deleting one of two Channels that name the same MQ channel
\* deletes it under the other; when that one is all that is left, the object
\* comes back with its values and stays, even if a timed-out DELETE of the
\* other is carried out late.
SurvivorHeals ==
    <>[](\E c \in Channels : Survivor(c))
        => <>[](\E c \in Channels : Survivor(c) /\ mq[MQName(c)] = c /\ cr[c].synced)

\* When users delete everything in the end, in any order and again until the
\* webhooks let it happen, nothing is left: a rule does not wait for a Channel
\* that is gone, nor the connection for dependents that are gone.  The proviso
\* is that no delete of the connection overlapped a create that refers to it or
\* was validated against an outdated cache: a Channel that outlives its
\* connection keeps its finalizer and waits for it.
TearsDown ==
    (plan.teardown /\ []~raced) =>
        <>[](qmc.life = "none" /\ \A c \in Resources : cr[c].life = "none")
=============================================================================
