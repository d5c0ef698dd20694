----------------------- MODULE WorkloadReconcileProofs -----------------------
(***************************************************************************)
(* Proofs about WorkloadReconcile, for every kind, every set of values,    *)
(* specs and annotations, and every subset of faults.                      *)
(***************************************************************************)
EXTENDS WorkloadReconcile, TLAPS

\* Most leaves are first-order reasoning about sets, functions and records; those
\* that need more unfolding cite SMT.
USE Zenon

\* The two terminal errors are told apart by no proof.
USE DEF TerminalErrors

(***************************************************************************)
(* Type correctness                                                        *)
(***************************************************************************)

LEMMA NoCRType == NoCR \in CRType
<1> DEFINE v == CHOOSE w \in Values : TRUE
<1>1. v \in Values
  BY ValuesAssumption
<1> HIDE DEF v
<1>2. [value |-> v, suspend |-> FALSE, deletion |-> "Delete", adoption |-> "Adopt"]
        \in SpecType
  BY <1>1 DEF SpecType
<1>3. QED
  BY <1>2 DEF NoCR, v, CRType, AnnotationType, Reasons

LEMMA StoredType == ASSUME NEW o \in CRType PROVE Stored(o) \in CRType
  BY NoCRType DEF Stored

\* What the writers of the custom resource send is well formed.
LEMMA WrittenType ==
    ASSUME NEW o \in CRType
    PROVE  /\ \A b \in BOOLEAN : [o EXCEPT !.finalizer = b] \in CRType
           /\ [o EXCEPT !.gc = FALSE] \in CRType
           /\ \A s \in SpecType : [o EXCEPT !.spec = s, !.atGen = FALSE] \in CRType
           /\ \A a \in AnnotationType : [o EXCEPT !.ann = a] \in CRType
           /\ \A b \in BOOLEAN :
                 [o EXCEPT !.deleting = TRUE, !.gc = b, !.atGen = FALSE] \in CRType
           /\ \A s \in SpecType, a \in AnnotationType :
                 [o EXCEPT !.exists = TRUE, !.spec = s, !.ann = a] \in CRType
  BY DEF CRType

LEMMA PatchedType ==
    ASSUME NEW o \in CRType, patch \in Reasons
    PROVE  patchSyncedStatus(o) \in CRType
<1> DEFINE c == o.adopted \/ patch = "Available"
<1>1. c \in BOOLEAN
  OBVIOUS
<1>2. patchSyncedStatus(o) = [o EXCEPT !.reason = patch, !.atGen = TRUE, !.adopted = c]
  BY DEF patchSyncedStatus
<1> HIDE DEF c
<1>3. [o EXCEPT !.reason = patch, !.atGen = TRUE, !.adopted = c] \in CRType
  BY <1>1 DEF CRType
<1>4. QED
  BY <1>2, <1>3

\* What a write, or a comparison that finds no difference, leaves behind: for
\* authority records the object may grant more than v asks for.
Settled(v, seen) ==
    /\ seen # NoObject
    /\ \A a \in Checked : v[a] \in {Unset, seen[a]}
    /\ Kind = "AuthorityRecord" \/ ~NeedsUpdate(v, seen)

LEMMA MatchSettles ==
    ASSUME NEW v, NEW seen, ~NeedsUpdate(v, seen)
    PROVE  Settled(v, seen)
  BY ValuesAssumption DEF Settled, NeedsUpdate, AttributesNeedUpdate,
     ChannelAuthNeedsUpdate, AuthorityNeedsUpdate

LEMMA WriteSettles ==
    ASSUME Defined, obj.spec.value \in Values, mq \in Values \cup {NoObject}
    PROVE  mq' \in Values /\ Settled(obj.spec.value, mq')
<1> DEFINE v == obj.spec.value
<1>1. CASE Kind = "AuthorityRecord" /\ mq # NoObject
  <2>1. mq' = Added(v, mq)
    BY <1>1 DEF Defined, buildSetAuthorityMQSC
  <2>2. mq' \in Values
    BY <1>1, <2>1, ValuesAssumption
  <2>3. \A a \in Checked : v[a] \in {Unset, mq'[a]}
    BY <2>1, ValuesAssumption DEF Added
  <2>4. QED
    BY <1>1, <2>2, <2>3, ValuesAssumption DEF Settled
<1>2. CASE ~(Kind = "AuthorityRecord" /\ mq # NoObject)
  <2>1. mq' = v
    BY <1>2 DEF Defined, buildSetAuthorityMQSC, buildSetChannelAuthMQSC,
       defineObjectParameters
  <2>2. ~NeedsUpdate(v, mq')
    BY <2>1, ValuesAssumption DEF NeedsUpdate, AttributesNeedUpdate,
       ChannelAuthNeedsUpdate, AuthorityNeedsUpdate
  <2>3. QED
    BY <2>1, <2>2, MatchSettles
<1>3. QED
  BY <1>1, <1>2

\* What a reconcile decides about the object it sees.
Verdicts == {"define", "Available", "DriftDetected", "AlreadyExists", "AdoptionConflict"}

LEMMA EnsureVerdict ==
    ASSUME NEW o, NEW seen
    PROVE  /\ Ensure(o, seen) \in Verdicts
           /\ Ensure(o, seen) = "Available" => Settled(o.spec.value, seen)
<1>1. reconcileMQObjectState(o, seen) \in Verdicts
      /\ (reconcileMQObjectState(o, seen) = "Available" => Settled(o.spec.value, seen))
  BY MatchSettles DEF reconcileMQObjectState, adoptionBlockForExisting, Verdicts
<1>2. ensureChannelAuth(o, seen) \in Verdicts
      /\ (ensureChannelAuth(o, seen) = "Available" => Settled(o.spec.value, seen))
  BY MatchSettles DEF ensureChannelAuth, adoptionBlockForExisting, Verdicts
<1>3. ensureAuthority(o, seen) \in Verdicts
      /\ (ensureAuthority(o, seen) = "Available" => Settled(o.spec.value, seen))
  BY MatchSettles DEF ensureAuthority, adoptionBlockForExisting, Verdicts
<1>4. QED
  BY <1>1, <1>2, <1>3, KindAssumption
     DEF Ensure, Kinds, ensureQueue, ensureTopic, ensureChannel

LEMMA ErrorType ==
    ASSUME NEW class \in {"transient", "other"} \cup TerminalErrors
    PROVE  /\ classifyReconcileError(class) \in Reasons
           /\ ErrorResult(class) \in Results
  BY DEF classifyReconcileError, ErrorResult, Reasons, Results

LEMMA ReturnType ==
    ASSUME TypeOK, NEW result, Return(result)
    PROVE  WorkerTypeOK'
  BY NoCRType DEF TypeOK, WorkerTypeOK, Return, WorkerStates, Reasons, Results

LEMMA GotoType ==
    ASSUME TypeOK, NEW l \in WorkerStates, Goto(l)
    PROVE  WorkerTypeOK'
  BY DEF TypeOK, WorkerTypeOK, Goto

LEMMA GotoPatchType ==
    ASSUME TypeOK, NEW r \in Reasons, NEW next \in Results \cup {"delete", "removeFinalizer"},
           GotoPatch(r, next)
    PROVE  WorkerTypeOK'
  BY DEF TypeOK, WorkerTypeOK, GotoPatch, WorkerStates

LEMMA SyncedErrorType ==
    ASSUME TypeOK, NEW class \in {"transient", "other"} \cup TerminalErrors, setSyncedError(class)
    PROVE  WorkerTypeOK'
  BY ErrorType, GotoPatchType DEF setSyncedError

LEMMA StoreType ==
    ASSUME TypeOK, NEW o \in CRType, Store(o)
    PROVE  cr' \in CRType /\ synced' \in BOOLEAN /\ event' \in BOOLEAN
  BY StoredType DEF Store, TypeOK, CRTypeOK

LEMMA WriteType ==
    ASSUME TypeOK, NEW o \in CRType, NEW admitted,
           Write(o, admitted, Return("done"))
    PROVE  WorkerTypeOK' /\ cr' \in CRType /\ synced' \in BOOLEAN /\ event' \in BOOLEAN
<1>1. CASE Store(o) /\ Return("done")
  BY <1>1, StoreType, ReturnType
<1>2. CASE Store(o) /\ Return("error")
  BY <1>2, StoreType, ReturnType
<1>3. CASE Return("error") /\ UNCHANGED <<cr, synced, event>>
  BY <1>3, ReturnType DEF TypeOK, CRTypeOK
<1>4. QED
  BY <1>1, <1>2, <1>3 DEF Write

LEMMA InitType == Init => TypeOK
<1> SUFFICES ASSUME Init PROVE TypeOK
  OBVIOUS
<1>1. MQTypeOK
  BY ValuesAssumption DEF Init, MQTypeOK
<1>2. QED
  BY <1>1, NoCRType, EnvironmentAssumption
     DEF Init, TypeOK, CRTypeOK, WorkerTypeOK, EnvTypeOK, WorkerStates, Reasons, Results

LEMMA WorkerType == TypeOK /\ Worker => TypeOK'
<1> SUFFICES ASSUME TypeOK, Worker PROVE TypeOK'
  OBVIOUS
<1> USE DEF crVars, queueVars, envVars, mqVars
<1>1. CASE Reconcile
  <2>1. CASE \E result \in Results : Return(result)
    BY <1>1, <2>1, ReturnType DEF Reconcile, TypeOK, CRTypeOK, EnvTypeOK, MQTypeOK
  <2>2. CASE /\ pc' \in {"patch", "resolve"} /\ obj' = cache /\ current' = synced
             /\ patch' \in {patch, "Suspended", "Orphaned"}
             /\ andThen' \in {andThen, "done", "removeFinalizer"} /\ UNCHANGED <<touched, timer>>
    <3>1. WorkerTypeOK'
      BY <2>2 DEF TypeOK, CRTypeOK, WorkerTypeOK, WorkerStates, Reasons, Results
    <3>2. QED
      BY <1>1, <3>1 DEF Reconcile, TypeOK, CRTypeOK, EnvTypeOK, MQTypeOK
  <2>3. QED
    BY <1>1, <2>1, <2>2
       DEF Reconcile, reconcileWorkloadSuspended, reconcileWorkloadDeletion, Results
<1>2. CASE ResolveConnection
  <2>1. WorkerTypeOK'
    BY <1>2, SyncedErrorType, GotoPatchType, GotoType
       DEF ResolveConnection, deletionAwaitingConnection, Reasons, Results, WorkerStates
  <2>2. QED
    BY <1>2, <2>1 DEF ResolveConnection, TypeOK, CRTypeOK, EnvTypeOK, MQTypeOK
<1>3. CASE AddFinalizer
  <2>1. [obj EXCEPT !.finalizer = TRUE] \in CRType
    BY WrittenType DEF TypeOK, WorkerTypeOK
  <2>2. QED
    BY <1>3, <2>1, WriteType DEF AddFinalizer, TypeOK, CRTypeOK, EnvTypeOK, MQTypeOK
<1>4. CASE ObserveMQ
  <2>1. CASE setSyncedError(MQErrorClass) /\ UNCHANGED tampered
    BY <1>4, <2>1, SyncedErrorType
       DEF ObserveMQ, MQErrorClass, TypeOK, CRTypeOK, EnvTypeOK, MQTypeOK
  <2>2. CASE /\ Goto("define") \/ GotoPatch(Ensure(obj, mq), "requeueAfter")
             /\ Ensure(obj, mq) # "define" \/ Goto("define")
             /\ tampered' = (tampered /\ NeedsUpdate(obj.spec.value, mq))
    <3>1. WorkerTypeOK'
      BY <2>2, EnsureVerdict, GotoType, GotoPatchType DEF Verdicts, WorkerStates, Reasons, Results
    <3>2. QED
      BY <1>4, <2>2, <3>1 DEF ObserveMQ, TypeOK, CRTypeOK, EnvTypeOK, MQTypeOK
  <2>3. QED
    BY <1>4, <2>1, <2>2 DEF ObserveMQ
<1>5. CASE DefineMQ
  <2>1. WorkerTypeOK'
    BY <1>5, SyncedErrorType, GotoPatchType DEF DefineMQ, MQErrorClass, Reasons, Results
  <2>2. MQTypeOK'
    <3>1. obj.spec.value \in Values /\ mq \in Values \cup {NoObject}
      BY DEF TypeOK, WorkerTypeOK, MQTypeOK, CRType, SpecType
    <3>2. CASE UNCHANGED mqVars
      BY <3>2 DEF TypeOK, MQTypeOK, mqVars
    <3>3. CASE Defined
      BY <3>1, <3>3, WriteSettles DEF Defined, MQTypeOK
    <3>4. QED
      BY <1>5, <3>2, <3>3 DEF DefineMQ
  <2>3. QED
    BY <1>5, <2>1, <2>2 DEF DefineMQ, TypeOK, CRTypeOK, EnvTypeOK
<1>6. CASE handleDeletion
  <2>1. WorkerTypeOK'
    BY <1>6, SyncedErrorType, GotoType DEF handleDeletion, MQErrorClass, WorkerStates
  <2>2. QED
    BY <1>6, <2>1 DEF handleDeletion, Deleted, TypeOK, CRTypeOK, EnvTypeOK, MQTypeOK
<1>7. CASE RemoveFinalizer
  <2>1. [obj EXCEPT !.finalizer = FALSE] \in CRType
    BY WrittenType DEF TypeOK, WorkerTypeOK
  <2>2. QED
    BY <1>7, <2>1, WriteType DEF RemoveFinalizer, TypeOK, CRTypeOK, EnvTypeOK, MQTypeOK
<1>8. CASE PatchStatus
  <2>1. patchSyncedStatus(obj) \in CRType
    BY PatchedType DEF TypeOK, WorkerTypeOK
  <2>2. CASE /\ Store(patchSyncedStatus(obj)) /\ andThen \notin Results
             /\ pc' = andThen /\ obj' = patchSyncedStatus(obj)
             /\ patch' = "" /\ andThen' = "done" /\ UNCHANGED <<current, touched, timer>>
    <3>1. WorkerTypeOK'
      BY <2>1, <2>2 DEF TypeOK, WorkerTypeOK, WorkerStates, Reasons, Results
    <3>2. QED
      BY <1>8, <2>1, <2>2, <3>1, StoreType DEF PatchStatus, TypeOK, CRTypeOK, EnvTypeOK, MQTypeOK
  <2>3. CASE Store(patchSyncedStatus(obj)) /\ \E result \in Results : Return(result)
    BY <1>8, <2>1, <2>3, StoreType, ReturnType
       DEF PatchStatus, TypeOK, CRTypeOK, EnvTypeOK, MQTypeOK
  <2>4. CASE Return("error") /\ UNCHANGED <<cr, synced, event>>
    BY <1>8, <2>4, ReturnType DEF PatchStatus, TypeOK, CRTypeOK, EnvTypeOK, MQTypeOK
  <2>5. QED
    BY <1>8, <2>2, <2>3, <2>4 DEF PatchStatus, Write, Results
<1>9. QED
  BY <1>1, <1>2, <1>3, <1>4, <1>5, <1>6, <1>7, <1>8 DEF Worker

LEMMA OtherWriteType ==
    ASSUME TypeOK, NEW o \in CRType, OtherWrite(o), UNCHANGED mqVars
    PROVE  TypeOK'
<1>1. CRTypeOK'
  BY StoreType DEF OtherWrite, TypeOK, CRTypeOK
<1>2. WorkerTypeOK'
  BY DEF OtherWrite, TypeOK, WorkerTypeOK, queueVars
<1>3. QED
  BY <1>1, <1>2 DEF OtherWrite, TypeOK, EnvTypeOK, MQTypeOK, queueVars, envVars, mqVars

LEMMA SurroundingsType ==
    TypeOK /\ (Deliver \/ TimerFires \/ GarbageCollect \/ Environment) => TypeOK'
<1> SUFFICES ASSUME TypeOK, Deliver \/ TimerFires \/ GarbageCollect \/ Environment
             PROVE  TypeOK'
  OBVIOUS
<1>1. CASE Deliver
  BY <1>1 DEF Deliver, TypeOK, CRTypeOK, WorkerTypeOK, EnvTypeOK, MQTypeOK,
     workerVars, envVars, mqVars
<1>2. CASE TimerFires
  BY <1>2, ZenonT(30) DEF TimerFires, TypeOK, CRTypeOK, WorkerTypeOK, EnvTypeOK, MQTypeOK,
     crVars, workerVars, envVars, mqVars
<1>3. CASE GarbageCollect
  BY <1>3, WrittenType, OtherWriteType DEF GarbageCollect, TypeOK, CRTypeOK
<1>4. ASSUME NEW s \in Specs, NEW a \in Annotations, CreateCR(s, a) PROVE TypeOK'
  <2>1. [NoCR EXCEPT !.exists = TRUE, !.spec = s, !.ann = a] \in CRType
    BY NoCRType, WrittenType, UserAssumption
  <2>2. QED
    BY <1>4, <2>1, OtherWriteType DEF CreateCR
<1>5. ASSUME NEW s \in Specs, EditSpec(s) PROVE TypeOK'
  <2>1. [cr EXCEPT !.spec = s, !.atGen = FALSE] \in CRType
    BY WrittenType, UserAssumption DEF TypeOK, CRTypeOK
  <2>2. QED
    BY <1>5, <2>1, OtherWriteType DEF EditSpec
<1>6. ASSUME NEW a \in Annotations, Annotate(a) PROVE TypeOK'
  <2>1. [cr EXCEPT !.ann = a] \in CRType
    BY WrittenType, UserAssumption DEF TypeOK, CRTypeOK
  <2>2. QED
    BY <1>6, <2>1, OtherWriteType DEF Annotate
<1>7. CASE RequestReconcile
  BY <1>7 DEF RequestReconcile, TypeOK, CRTypeOK, WorkerTypeOK, EnvTypeOK, MQTypeOK,
     queueVars, envVars, mqVars
<1>8. ASSUME NEW foreground \in Foregrounds, DeleteCR(foreground) PROVE TypeOK'
  <2>1. [cr EXCEPT !.deleting = TRUE, !.gc = foreground, !.atGen = FALSE] \in CRType
    BY WrittenType, UserAssumption DEF TypeOK, CRTypeOK
  <2>2. QED
    BY <1>8, <2>1, OtherWriteType DEF DeleteCR
<1>9. ASSUME NEW v \in Foreign, OutOfBand(v) PROVE TypeOK'
  <2>1. v \in Values \cup {NoObject}
    BY ValuesAssumption
  <2>2. QED
    BY <1>9, <2>1 DEF OutOfBand, TypeOK, CRTypeOK, WorkerTypeOK, EnvTypeOK, MQTypeOK,
       crVars, queueVars, workerVars, envVars
<1>10. ASSUME NEW c \in Conns, NEW edited \in BOOLEAN, NEW listed \in BOOLEAN,
              ConnectionChange(c, edited, listed)
       PROVE  TypeOK'
  <2>1. EnvTypeOK'
    BY <1>10, EnvironmentAssumption DEF ConnectionChange, TypeOK, EnvTypeOK
  <2>2. QED
    BY <1>10, <2>1 DEF ConnectionChange, TypeOK, CRTypeOK, WorkerTypeOK, MQTypeOK,
       crVars, workerVars, mqVars
<1>11. ASSUME NEW m \in Mqwebs, MqwebChange(m) PROVE TypeOK'
  BY <1>11, EnvironmentAssumption, ZenonT(30) DEF MqwebChange, TypeOK, CRTypeOK, WorkerTypeOK, EnvTypeOK,
     MQTypeOK, crVars, queueVars, workerVars, mqVars
<1>12. ASSUME NEW a \in Apis, ApiChange(a) PROVE TypeOK'
  BY <1>12, EnvironmentAssumption, ZenonT(30) DEF ApiChange, TypeOK, CRTypeOK, WorkerTypeOK, EnvTypeOK,
     MQTypeOK, crVars, queueVars, workerVars, mqVars
<1>13. CASE Restart
  <2>1. cr.exists \in BOOLEAN
    BY DEF TypeOK, CRTypeOK, CRType
  <2>2. WorkerTypeOK'
    BY <1>13, NoCRType DEF Restart, WorkerTypeOK, WorkerStates, Reasons, Results
  <2>3. QED
    BY <1>13, <2>1, <2>2 DEF Restart, TypeOK, CRTypeOK, EnvTypeOK, MQTypeOK, envVars, mqVars
<1>14. QED
  BY <1>1, <1>2, <1>3, <1>4, <1>5, <1>6, <1>7, <1>8, <1>9, <1>10, <1>11, <1>12, <1>13
     DEF Environment

\* Every variable keeps its type, whatever users, administrators and faults do
\* between the steps of the reconcilers.
THEOREM TypeCorrect == Spec => []TypeOK
<1>1. TypeOK /\ [Next]_vars => TypeOK'
  <2> SUFFICES ASSUME TypeOK, [Next]_vars PROVE TypeOK'
    OBVIOUS
  <2>1. CASE Next
    BY <2>1, WorkerType, SurroundingsType DEF Next
  <2>2. CASE UNCHANGED vars
    BY <2>2, SMTT(30) DEF vars, crVars, queueVars, workerVars, envVars, mqVars,
       TypeOK, CRTypeOK, WorkerTypeOK, EnvTypeOK, MQTypeOK
  <2>3. QED
    BY <2>1, <2>2
<1>2. QED
  BY InitType, <1>1, PTL DEF Spec

-----------------------------------------------------------------------------
(***************************************************************************)
(* The inductive invariant                                                 *)
(*                                                                         *)
(* Everything rests on three facts: a copy that is current equals the      *)
(* stored object and is no newer than the informer's; one worker at a time *)
(* handles the request, so only that worker removes the finalizer or       *)
(* writes a condition; and a change that the event filter lets pass is     *)
(* remembered until the informer delivers it.                              *)
(***************************************************************************)

\* Two versions the event filter does not tell apart.
Alike(a, b) ==
    /\ a.exists = b.exists
    /\ a.spec = b.spec
    /\ a.deleting = b.deleting
    /\ a.finalizer = b.finalizer
    /\ a.gc = b.gc

CopiesInv ==
    /\ synced => cache = cr /\ ~event
    /\ ~event => Alike(cache, cr)
    /\ current => /\ obj = cr /\ cr.exists /\ cache.exists
                  /\ cache.spec = cr.spec /\ cache.deleting = cr.deleting

\* What a state of the worker says about its copy.
WorkerInv ==
    /\ pc = "idle" => obj = NoCR /\ ~current
    /\ pc # "idle" => obj.exists
    /\ pc \notin {"idle", "patch"} => ~obj.spec.suspend
    /\ pc = "resolve" /\ obj.deleting => obj.finalizer
    /\ pc = "addFinalizer" => ~obj.finalizer
    /\ pc \in {"get", "define"} => obj.finalizer /\ ~obj.deleting
    /\ pc \in {"delete", "removeFinalizer"} => obj.finalizer /\ obj.deleting

\* What a pending condition says about the worker's copy.
PatchInv ==
    pc = "patch" =>
        /\ obj.spec.suspend => patch = "Suspended" /\ andThen = "done"
        /\ patch = "Available" => ~obj.deleting
        /\ andThen = "done" => patch \in TerminalErrors \/ (patch = "Suspended" /\ obj.spec.suspend)
        /\ andThen \in {"delete", "removeFinalizer"} => obj.finalizer /\ obj.deleting
        /\ andThen = "removeFinalizer" => orphanDeletionRequested(obj)

\* A copy that is not being deleted has a finalizer only if the object does.
FinalizerInv ==
    /\ cr.finalizer => cr.exists
    /\ cache.finalizer /\ ~cache.deleting => cr.finalizer
    /\ obj.finalizer /\ ~obj.deleting => cr.finalizer

\* A condition of the current generation was written from a copy of it.
GenerationInv ==
    cr.exists /\ cr.atGen =>
        /\ cache.exists /\ cache.spec = cr.spec /\ cache.deleting = cr.deleting
        /\ pc # "idle" => obj.spec = cr.spec /\ obj.deleting = cr.deleting
        /\ cr.deleting => cr.reason # "Available"

ReleaseInv ==
    /\ CleanupBeforeRelease
    /\ pc = "removeFinalizer" => orphanDeletionRequested(obj) \/ ~mine

SyncedSettled ==
    (cr.exists /\ cr.reason = "Available" /\ cr.atGen /\ ~tampered)
        => Settled(cr.spec.value, mq)

AppliedInv ==
    /\ SyncedSettled
    /\ pc = "patch" /\ patch = "Available" => tampered \/ Settled(obj.spec.value, mq)

WakeInv ==
    /\ (cr.exists /\ pc = "idle" /\ ~event /\ ~queued /\ ~timer) => Resting
    /\ (~event /\ cache.spec.suspend /\ workloadAlreadySuspended(cache))
            => workloadAlreadySuspended(cr)

-----------------------------------------------------------------------------
(***************************************************************************)
(* Facts about the versions of the custom resource                         *)
(***************************************************************************)

LEMMA NoCRFields ==
    /\ NoCR.exists = FALSE /\ NoCR.finalizer = FALSE /\ NoCR.gc = FALSE
    /\ NoCR.deleting = FALSE /\ NoCR.atGen = FALSE /\ NoCR.reason = ""
    /\ NoCR.spec.suspend = FALSE
  BY DEF NoCR

LEMMA FilterAlike ==
    ASSUME NEW a \in CRType, NEW b \in CRType
    PROVE  workloadReconcilePredicates(a, b) <=> ~Alike(a, b)
  BY DEF workloadReconcilePredicates, GenerationChanged, Alike

\* A write is stored as it is, or removes the object; the filter sees every
\* difference but those of status and annotations.
LEMMA StoreEffect ==
    ASSUME TypeOK, NEW o \in CRType, Store(o)
    PROVE  /\ \/ cr' = o /\ (o.deleting => o.finalizer \/ o.gc)
              \/ cr' = NoCR /\ o.deleting /\ ~o.finalizer /\ ~o.gc
           /\ synced' = FALSE
           /\ event' = (event \/ ~Alike(cr, cr'))
<1>1. cr' = Stored(o) /\ cr' \in CRType
  BY StoredType DEF Store
<1>2. event' = (event \/ ~Alike(cr, cr'))
  BY <1>1, FilterAlike DEF Store, TypeOK, CRTypeOK
<1>3. QED
  BY <1>1, <1>2 DEF Store, Stored

\* The fields that the writes leave alone.
LEMMA WrittenFields ==
    ASSUME NEW o \in CRType, NEW b \in BOOLEAN, NEW s \in SpecType, NEW a \in AnnotationType
    PROVE  /\ Alike([o EXCEPT !.ann = a], o)
           /\ [o EXCEPT !.ann = a].reason = o.reason
           /\ [o EXCEPT !.ann = a].atGen = o.atGen
           /\ LET p == [o EXCEPT !.finalizer = b]
              IN  /\ p.finalizer = b
                  /\ p.exists = o.exists /\ p.spec = o.spec /\ p.ann = o.ann /\ p.gc = o.gc
                  /\ p.deleting = o.deleting /\ p.reason = o.reason /\ p.atGen = o.atGen
           /\ LET p == [o EXCEPT !.gc = FALSE]
              IN  /\ p.gc = FALSE
                  /\ p.exists = o.exists /\ p.spec = o.spec /\ p.finalizer = o.finalizer
                  /\ p.deleting = o.deleting /\ p.reason = o.reason /\ p.atGen = o.atGen
           /\ LET p == [o EXCEPT !.spec = s, !.atGen = FALSE]
              IN  /\ p.spec = s /\ p.atGen = FALSE
                  /\ p.exists = o.exists /\ p.gc = o.gc /\ p.finalizer = o.finalizer
                  /\ p.deleting = o.deleting
           /\ LET p == [o EXCEPT !.deleting = TRUE, !.gc = b, !.atGen = FALSE]
              IN  /\ p.deleting = TRUE /\ p.gc = b /\ p.atGen = FALSE
                  /\ p.exists = o.exists /\ p.spec = o.spec /\ p.finalizer = o.finalizer
  BY DEF CRType, Alike

LEMMA PatchedFields ==
    ASSUME NEW o \in CRType
    PROVE  LET p == patchSyncedStatus(o)
           IN  /\ Alike(p, o)
               /\ p.ann = o.ann /\ p.reason = patch /\ p.atGen = TRUE
  BY DEF CRType, Alike, patchSyncedStatus

LEMMA AlikeTransitive ==
    ASSUME NEW a, NEW b, NEW c, Alike(a, b), Alike(b, c)
    PROVE  Alike(a, c)
  BY DEF Alike

-----------------------------------------------------------------------------
(***************************************************************************)
(* The steps of the worker                                                 *)
(***************************************************************************)

IInv ==
    /\ TypeOK /\ CopiesInv /\ WorkerInv /\ PatchInv /\ FinalizerInv
    /\ GenerationInv /\ ReleaseInv /\ AppliedInv /\ WakeInv

\* The parts of the invariant other than the type.
Parts ==
    /\ CopiesInv /\ WorkerInv /\ PatchInv /\ FinalizerInv
    /\ GenerationInv /\ ReleaseInv /\ AppliedInv /\ WakeInv

LEMMA ReconcileStep == IInv /\ Reconcile => Parts'
<1> SUFFICES ASSUME IInv, Reconcile PROVE Parts'
  OBVIOUS
<1> USE DEF crVars, envVars, mqVars
<1>1. UNCHANGED <<cr, cache, synced, event, mq, mine, tampered>>
  BY DEF Reconcile
<1>2. CASE Return("done")
  <2>0. pc' = "idle" /\ obj' = NoCR /\ current' = FALSE
    BY <1>2 DEF Return
  <2>1. CopiesInv'
    BY <1>1, <2>0 DEF IInv, CopiesInv, Alike
  <2>2. WorkerInv' /\ PatchInv'
    BY <2>0 DEF WorkerInv, PatchInv
  <2>3. FinalizerInv'
    BY <1>1, <2>0, NoCRFields DEF IInv, FinalizerInv
  <2>4. GenerationInv' /\ ReleaseInv' /\ AppliedInv'
    BY <1>1, <2>0 DEF IInv, GenerationInv, ReleaseInv, CleanupBeforeRelease, AppliedInv,
       SyncedSettled
  <2>5. ~event => \/ ~cr.exists
                  \/ cr.spec.suspend /\ workloadAlreadySuspended(cr)
                  \/ cr.deleting /\ ~cr.finalizer
    <3>1. ~event => Alike(cache, cr)
      BY DEF IInv, CopiesInv
    <3>2. \/ ~cache.exists
          \/ cache.spec.suspend /\ workloadAlreadySuspended(cache)
          \/ cache.deleting /\ ~cache.finalizer
      BY <2>0 DEF Reconcile, reconcileWorkloadSuspended, reconcileWorkloadDeletion
    <3>3. QED
      BY <3>1, <3>2 DEF Alike, IInv, WakeInv
  <2>6. WakeInv'
    BY <1>1, <2>0, <2>5 DEF IInv, WakeInv, Resting, workloadAlreadySuspended
  <2>7. QED
    BY <2>1, <2>2, <2>3, <2>4, <2>6 DEF Parts
<1>3. CASE /\ pc' \in {"patch", "resolve"} /\ obj' = cache /\ current' = synced
           /\ cache.exists
           /\ pc' = "resolve" => /\ ~cache.spec.suspend
                                 /\ cache.deleting => cache.finalizer
           /\ pc' = "patch" =>
                 \/ cache.spec.suspend /\ patch' = "Suspended" /\ andThen' = "done"
                 \/ /\ ~cache.spec.suspend /\ cache.deleting /\ cache.finalizer
                    /\ orphanDeletionRequested(cache)
                    /\ patch' = "Orphaned" /\ andThen' = "removeFinalizer"
  <2>1. CopiesInv'
    BY <1>1, <1>3 DEF IInv, CopiesInv, Alike
  <2>2. WorkerInv'
    BY <1>3 DEF WorkerInv
  <2>3. PatchInv'
    BY <1>3 DEF PatchInv, orphanDeletionRequested, forceOrphanRequested
  <2>4. FinalizerInv'
    BY <1>1, <1>3 DEF IInv, FinalizerInv
  <2>5. GenerationInv'
    BY <1>1, <1>3 DEF IInv, GenerationInv
  <2>6. ReleaseInv' /\ AppliedInv'
    BY <1>1, <1>3 DEF IInv, ReleaseInv, CleanupBeforeRelease, AppliedInv, SyncedSettled
  <2>7. WakeInv'
    BY <1>1, <1>3 DEF IInv, WakeInv, workloadAlreadySuspended
  <2>8. QED
    BY <2>1, <2>2, <2>3, <2>4, <2>5, <2>6, <2>7 DEF Parts
<1>4. QED
  BY <1>2, <1>3 DEF Reconcile, reconcileWorkloadSuspended, reconcileWorkloadDeletion

\* Steps that go on with the same copy and write nothing to the API server.
LEMMA LocalStep ==
    ASSUME IInv, UNCHANGED <<cr, cache, synced, event, obj, current>>,
           pc # "idle", pc' # "idle", WorkerInv', PatchInv',
           mine' => mine \/ (obj.finalizer /\ ~obj.deleting),
           pc' = "removeFinalizer" => ~mine',
           SyncedSettled',
           pc' = "patch" /\ patch' = "Available" => tampered' \/ Settled(obj.spec.value, mq')
    PROVE  Parts'
<1>1. CopiesInv'
  BY DEF IInv, CopiesInv, Alike
<1>2. FinalizerInv' /\ GenerationInv'
  BY DEF IInv, FinalizerInv, GenerationInv
<1>3. ReleaseInv'
  BY DEF IInv, FinalizerInv, ReleaseInv, CleanupBeforeRelease
<1>4. AppliedInv' /\ WakeInv'
  BY DEF IInv, AppliedInv, WakeInv, workloadAlreadySuspended
<1>5. QED
  BY <1>1, <1>2, <1>3, <1>4 DEF Parts

LEMMA ResolveStep == IInv /\ ResolveConnection => Parts'
<1> SUFFICES ASSUME IInv, ResolveConnection PROVE Parts'
  OBVIOUS
<1> USE DEF crVars, envVars, mqVars
<1>1. UNCHANGED <<cr, cache, synced, event, mq, mine, tampered, obj, current>>
  BY DEF ResolveConnection, deletionAwaitingConnection, setSyncedError, Goto, GotoPatch
<1>2. obj.exists /\ ~obj.spec.suspend /\ (obj.deleting => obj.finalizer)
  BY DEF ResolveConnection, IInv, WorkerInv
<1>3. \/ /\ pc' = "patch"
         /\ <<patch', andThen'>> \in {<<"Progressing", "requeueAfter">>,
                <<"Error", "error">>, <<"InvalidSpec", "done">>, <<"Unauthorized", "done">>}
      \/ pc' = "patch" /\ patch' = "Deleting" /\ andThen' = "delete" /\ obj.deleting
      \/ pc' = "addFinalizer" /\ ~obj.finalizer
      \/ pc' = "get" /\ obj.finalizer /\ ~obj.deleting
  BY DEF ResolveConnection, deletionAwaitingConnection, setSyncedError, Goto, GotoPatch,
     ErrorResult, classifyReconcileError
<1>4. WorkerInv'
  BY <1>1, <1>2, <1>3 DEF WorkerInv
<1>5. PatchInv'
  BY <1>1, <1>2, <1>3 DEF PatchInv
<1>6. SyncedSettled'
  BY <1>1 DEF IInv, AppliedInv, SyncedSettled
<1>7. QED
  BY <1>1, <1>3, <1>4, <1>5, <1>6, LocalStep, SMTT(30) DEF ResolveConnection

LEMMA ObserveStep == IInv /\ ObserveMQ => Parts'
<1> SUFFICES ASSUME IInv, ObserveMQ PROVE Parts'
  OBVIOUS
<1> USE DEF crVars, envVars
<1>1. UNCHANGED <<cr, cache, synced, event, mq, mine, obj, current>> /\ pc = "get"
  BY DEF ObserveMQ, setSyncedError, Goto, GotoPatch
<1>2. obj.exists /\ ~obj.spec.suspend /\ obj.finalizer /\ ~obj.deleting
  BY <1>1 DEF IInv, WorkerInv
<1>3. \/ /\ pc' = "patch" /\ UNCHANGED tampered
         /\ <<patch', andThen'>> \in {<<"Error", "requeueAfter">>, <<"Unauthorized", "done">>}
      \/ pc' = "define" /\ tampered' = (tampered /\ NeedsUpdate(obj.spec.value, mq))
      \/ /\ pc' = "patch" /\ andThen' = "requeueAfter" /\ patch' = Ensure(obj, mq)
         /\ tampered' = (tampered /\ NeedsUpdate(obj.spec.value, mq))
  BY DEF ObserveMQ, setSyncedError, Goto, GotoPatch, ErrorResult, classifyReconcileError,
     MQErrorClass
<1>4. WorkerInv'
  BY <1>1, <1>2, <1>3 DEF WorkerInv
<1>5. PatchInv'
  BY <1>1, <1>2, <1>3 DEF PatchInv
<1>6. SyncedSettled'
  <2>1. ~NeedsUpdate(obj.spec.value, mq) => Settled(obj.spec.value, mq)
    BY MatchSettles
  <2>2. QED
    BY <1>1, <1>3, <2>1 DEF IInv, GenerationInv, AppliedInv, SyncedSettled
<1>7. pc' = "patch" /\ patch' = "Available" => Settled(obj.spec.value, mq)
  BY <1>3, EnsureVerdict
<1>8. pc' \in {"define", "patch"}
  BY <1>3
<1>9. QED
  BY <1>1, <1>4, <1>5, <1>6, <1>7, <1>8, LocalStep

LEMMA DefineStep == IInv /\ DefineMQ => Parts'
<1> SUFFICES ASSUME IInv, DefineMQ PROVE Parts'
  OBVIOUS
<1> USE DEF crVars, envVars
<1>1. UNCHANGED <<cr, cache, synced, event, obj, current>> /\ pc = "define" /\ pc' = "patch"
  BY DEF DefineMQ, setSyncedError, GotoPatch
<1>2. obj.exists /\ ~obj.spec.suspend /\ obj.finalizer /\ ~obj.deleting
  BY <1>1 DEF IInv, WorkerInv
<1>3. <<patch', andThen'>> \in {<<"Available", "requeueAfter">>, <<"Error", "requeueAfter">>,
                                <<"InvalidSpec", "done">>, <<"Unauthorized", "done">>}
  BY DEF DefineMQ, setSyncedError, GotoPatch, ErrorResult, classifyReconcileError, MQErrorClass
<1>4. UNCHANGED mqVars \/ Defined
  BY DEF DefineMQ
<1>5. patch' = "Available" => Defined
  BY DEF DefineMQ, setSyncedError, GotoPatch, classifyReconcileError
<1>6. WorkerInv' /\ PatchInv'
  BY <1>1, <1>2, <1>3 DEF WorkerInv, PatchInv
<1>7. Defined => Settled(obj.spec.value, mq')
  BY WriteSettles DEF IInv, TypeOK, WorkerTypeOK, MQTypeOK, CRType, SpecType
<1>8. SyncedSettled'
  BY <1>1, <1>4, <1>7 DEF mqVars, IInv, GenerationInv, AppliedInv, SyncedSettled
<1>9. mine' => mine \/ (obj.finalizer /\ ~obj.deleting)
  BY <1>2
<1>10. QED
  BY <1>1, <1>5, <1>6, <1>7, <1>8, <1>9, LocalStep

LEMMA DeletionStep == IInv /\ handleDeletion => Parts'
<1> SUFFICES ASSUME IInv, handleDeletion PROVE Parts'
  OBVIOUS
<1> USE DEF crVars, envVars
<1>1. UNCHANGED <<cr, cache, synced, event, obj, current>> /\ pc = "delete"
  BY DEF handleDeletion, setSyncedError, Goto, GotoPatch
<1>2. obj.exists /\ ~obj.spec.suspend /\ obj.finalizer /\ obj.deleting
  BY <1>1 DEF IInv, WorkerInv
<1>3. \/ pc' = "removeFinalizer" /\ Deleted
      \/ /\ pc' = "patch" /\ (UNCHANGED mqVars \/ Deleted)
         /\ <<patch', andThen'>> \in {<<"Error", "requeueAfter">>, <<"Unauthorized", "done">>}
  BY DEF handleDeletion, setSyncedError, Goto, GotoPatch, ErrorResult, classifyReconcileError,
     MQErrorClass
<1>4. WorkerInv'
  BY <1>1, <1>2, <1>3 DEF WorkerInv
<1>5. PatchInv'
  BY <1>1, <1>2, <1>3 DEF PatchInv
<1>6. SyncedSettled'
  BY <1>1, <1>2, <1>3 DEF Deleted, mqVars, IInv, GenerationInv, AppliedInv, SyncedSettled
<1>7. mine' => mine
  BY <1>3 DEF Deleted, mqVars
<1>8. QED
  BY <1>1, <1>3, <1>4, <1>5, <1>6, <1>7, LocalStep DEF Deleted

\* A failed write, or one whose answer is lost, ends the reconcile with a retry.
LEMMA FailedWriteStep ==
    ASSUME IInv, Return("error"), UNCHANGED <<cr, cache, synced, event, mq, tampered>>,
           mine' => mine
    PROVE  Parts'
<1>1. pc' = "idle" /\ obj' = NoCR /\ current' = FALSE /\ timer' = TRUE
  BY DEF Return
<1>2. CopiesInv'
  BY <1>1 DEF IInv, CopiesInv, Alike
<1>3. WorkerInv' /\ PatchInv'
  BY <1>1 DEF WorkerInv, PatchInv
<1>4. FinalizerInv'
  BY <1>1, NoCRFields DEF IInv, FinalizerInv
<1>5. GenerationInv' /\ ReleaseInv' /\ AppliedInv'
  BY <1>1 DEF IInv, GenerationInv, ReleaseInv, CleanupBeforeRelease, AppliedInv,
     SyncedSettled
<1>6. WakeInv'
  BY <1>1 DEF IInv, WakeInv, workloadAlreadySuspended
<1>7. QED
  BY <1>2, <1>3, <1>4, <1>5, <1>6 DEF Parts

\* A stored change of the finalizer ends the reconcile and passes the filter.
LEMMA FinalizerWriteStep ==
    ASSUME IInv, NEW b \in BOOLEAN, NEW result, Return(result), current,
           Store([obj EXCEPT !.finalizer = b]), obj.finalizer # b, ~obj.spec.suspend,
           ~b => obj.deleting /\ ~mine',
           mine' => mine,
           UNCHANGED <<cache, mq, tampered>>
    PROVE  Parts'
<1> DEFINE o == [obj EXCEPT !.finalizer = b]
<1>1. pc' = "idle" /\ obj' = NoCR /\ current' = FALSE
  BY DEF Return
<1>2. obj = cr /\ cr \in CRType /\ cr.exists /\ cache.exists
      /\ cache.spec = cr.spec /\ cache.deleting = cr.deleting
  BY DEF IInv, CopiesInv, TypeOK, CRTypeOK
<1>3. /\ o \in CRType /\ o.finalizer = b
      /\ o.exists = cr.exists /\ o.spec = cr.spec /\ o.ann = cr.ann /\ o.gc = cr.gc
      /\ o.deleting = cr.deleting /\ o.reason = cr.reason /\ o.atGen = cr.atGen
  <2>1. o \in CRType
    BY <1>2, WrittenType
  <2>2. o.ann = cr.ann /\ o.finalizer = b
        /\ o.exists = cr.exists /\ o.spec = cr.spec /\ o.gc = cr.gc
        /\ o.deleting = cr.deleting /\ o.reason = cr.reason /\ o.atGen = cr.atGen
    BY <1>2 DEF CRType
  <2>3. QED
    BY <2>1, <2>2
<1> HIDE DEF o
<1>4. /\ \/ cr' = o
         \/ cr' = NoCR /\ ~b
      /\ synced' = FALSE
      /\ event' = (event \/ ~Alike(cr, cr'))
  BY <1>3, StoreEffect DEF IInv, o
<1>5. event' = TRUE
  BY <1>2, <1>3, <1>4, NoCRFields DEF Alike
<1>6. CopiesInv'
  BY <1>1, <1>4, <1>5 DEF CopiesInv
<1>7. WorkerInv' /\ PatchInv'
  BY <1>1 DEF WorkerInv, PatchInv
<1>8. FinalizerInv'
  BY <1>1, <1>2, <1>3, <1>4, NoCRFields DEF IInv, FinalizerInv
<1>9. GenerationInv'
  BY <1>1, <1>2, <1>3, <1>4, NoCRFields DEF IInv, GenerationInv
<1>10. ReleaseInv'
  BY <1>1, <1>2, <1>3, <1>4 DEF IInv, ReleaseInv, CleanupBeforeRelease
<1>11. AppliedInv'
  BY <1>1, <1>3, <1>4, NoCRFields DEF IInv, AppliedInv, SyncedSettled
<1>12. WakeInv'
  BY <1>5 DEF WakeInv
<1>13. QED
  BY <1>6, <1>7, <1>8, <1>9, <1>10, <1>11, <1>12 DEF Parts

LEMMA AddFinalizerStep == IInv /\ AddFinalizer => Parts'
<1> SUFFICES ASSUME IInv, AddFinalizer PROVE Parts'
  OBVIOUS
<1>1. obj.finalizer # TRUE /\ ~obj.spec.suspend
  BY DEF AddFinalizer, IInv, WorkerInv
<1>2. UNCHANGED <<cache, mq, mine, tampered>>
  BY DEF AddFinalizer, mqVars
<1>3. CASE current /\ Store([obj EXCEPT !.finalizer = TRUE]) /\ \E r \in Results : Return(r)
  BY <1>1, <1>2, <1>3, FinalizerWriteStep
<1>4. CASE Return("error") /\ UNCHANGED <<cr, synced, event>>
  BY <1>2, <1>4, FailedWriteStep
<1>5. QED
  BY <1>3, <1>4 DEF AddFinalizer, Write, Results

LEMMA RemoveFinalizerStep == IInv /\ RemoveFinalizer => Parts'
<1> SUFFICES ASSUME IInv, RemoveFinalizer PROVE Parts'
  OBVIOUS
<1>1. obj.finalizer # FALSE /\ ~obj.spec.suspend /\ obj.deleting
      /\ (orphanDeletionRequested(obj) \/ ~mine)
  BY DEF RemoveFinalizer, IInv, WorkerInv, ReleaseInv
<1>2. UNCHANGED <<cache, mq, tampered>> /\ (mine' => mine)
  BY DEF RemoveFinalizer
<1>3. CASE current /\ Store([obj EXCEPT !.finalizer = FALSE]) /\ \E r \in Results : Return(r)
  <2>1. obj \in CRType /\ [obj EXCEPT !.finalizer = FALSE] \in CRType
    BY WrittenType DEF IInv, TypeOK, WorkerTypeOK
  <2>2. [obj EXCEPT !.finalizer = FALSE].finalizer = FALSE
    BY <2>1 DEF CRType
  <2>3. cr'.finalizer = FALSE
    BY <1>3, <2>1, <2>2, StoreEffect, NoCRFields DEF IInv
  <2>4. ~mine'
    BY <1>1, <2>3 DEF RemoveFinalizer
  <2>5. QED
    BY <1>1, <1>2, <1>3, <2>4, FinalizerWriteStep
<1>4. CASE Return("error") /\ UNCHANGED <<cr, synced, event>>
  BY <1>2, <1>4, FailedWriteStep
<1>5. QED
  BY <1>3, <1>4 DEF RemoveFinalizer, Write, Results

LEMMA PatchStep == IInv /\ PatchStatus => Parts'
<1> SUFFICES ASSUME IInv, PatchStatus PROVE Parts'
  OBVIOUS
<1> DEFINE o == patchSyncedStatus(obj)
<1>1. pc = "patch" /\ UNCHANGED <<cache, mq, mine, tampered>>
  BY DEF PatchStatus, mqVars
<1>2. CASE Return("error") /\ UNCHANGED <<cr, synced, event>>
  BY <1>1, <1>2, FailedWriteStep
<1>3. CASE /\ current /\ Store(o)
           /\ \/ \E r \in Results : Return(r) /\ (r = "done" => andThen = "done")
              \/ /\ andThen \in {"delete", "removeFinalizer"}
                 /\ pc' = andThen /\ obj' = o /\ UNCHANGED current
  <2>1. /\ obj = cr /\ cr \in CRType /\ cr.exists /\ cache.exists
        /\ cache.spec = cr.spec /\ cache.deleting = cr.deleting
    BY <1>3 DEF IInv, CopiesInv, TypeOK, CRTypeOK
  <2>2. o \in CRType /\ Alike(o, cr) /\ o.ann = cr.ann /\ o.reason = patch /\ o.atGen = TRUE
    BY <2>1, PatchedType, PatchedFields DEF IInv, TypeOK, WorkerTypeOK
  <2> HIDE DEF o
  <2>3. /\ \/ cr' = o
           \/ cr' = NoCR /\ ~cr.finalizer
        /\ synced' = FALSE
        /\ event' = (event \/ ~Alike(cr, cr'))
    BY <1>3, <2>2, StoreEffect DEF IInv, Alike
  <2>4. cr' = NoCR => event'
    BY <2>1, <2>3, NoCRFields DEF Alike
  <2>5. ~event' => Alike(cache, cr')
    BY <2>3, AlikeTransitive DEF IInv, CopiesInv
  <2>6. patch = "Available" => ~cr.deleting /\ (tampered \/ Settled(cr.spec.value, mq))
    BY <1>1, <2>1 DEF IInv, PatchInv, AppliedInv
  <2>7. AppliedInv'
    <3>1. SyncedSettled'
      BY <1>1, <2>2, <2>3, <2>6, NoCRFields DEF SyncedSettled, Alike
    <3>2. pc' # "patch"
      BY <1>3 DEF Return
    <3>3. QED
      BY <3>1, <3>2 DEF AppliedInv
  <2>8. ~event' /\ cache.spec.suspend => workloadAlreadySuspended(cr')
    <3>1. cr.spec.suspend => patch = "Suspended"
      BY <1>1, <2>1 DEF IInv, PatchInv
    <3>2. QED
      BY <2>1, <2>2, <2>3, <2>4, <3>1 DEF workloadAlreadySuspended
  <2>9. CASE \E r \in Results : Return(r) /\ (r = "done" => andThen = "done")
    <3>1. pc' = "idle" /\ obj' = NoCR /\ current' = FALSE
      BY <2>9 DEF Return
    <3>2. CopiesInv'
      BY <1>1, <2>3, <2>5, <3>1 DEF CopiesInv, Alike
    <3>3. WorkerInv' /\ PatchInv'
      BY <3>1 DEF WorkerInv, PatchInv
    <3>4. FinalizerInv'
      BY <1>1, <2>1, <2>2, <2>3, <3>1, NoCRFields DEF IInv, FinalizerInv, Alike
    <3>5. GenerationInv'
      BY <1>1, <2>1, <2>2, <2>3, <2>6, <3>1, NoCRFields DEF GenerationInv, Alike
    <3>6. ReleaseInv'
      BY <1>1, <2>2, <2>3, <3>1 DEF IInv, ReleaseInv, CleanupBeforeRelease, Alike
    <3>7. ~event' /\ ~timer' => Resting'
      <4>1. ~timer' => andThen = "done"
        BY <2>9 DEF Return
      <4>2. andThen = "done" => patch \in TerminalErrors \/ (patch = "Suspended" /\ cr.spec.suspend)
        BY <1>1, <2>1 DEF IInv, PatchInv
      <4>3. QED
        BY <2>2, <2>3, <2>4, <4>1, <4>2 DEF Resting, workloadAlreadySuspended, Alike
    <3>8. WakeInv'
      BY <1>1, <2>8, <3>7 DEF WakeInv, workloadAlreadySuspended
    <3>9. QED
      BY <2>7, <3>2, <3>3, <3>4, <3>5, <3>6, <3>8 DEF Parts
  <2>10. CASE /\ andThen \in {"delete", "removeFinalizer"}
              /\ pc' = andThen /\ obj' = o /\ UNCHANGED current
    <3>1. /\ cr.finalizer /\ cr.deleting /\ ~cr.spec.suspend
          /\ andThen = "removeFinalizer" => orphanDeletionRequested(cr)
      BY <1>1, <2>1, <2>10 DEF IInv, PatchInv
    <3>2. cr' = o /\ obj' = o
      BY <2>3, <2>10, <3>1
    <3>3. CopiesInv'
      BY <1>1, <1>3, <2>1, <2>2, <2>3, <2>5, <3>2 DEF CopiesInv, Alike
    <3>4. WorkerInv' /\ PatchInv'
      BY <2>1, <2>2, <2>10, <3>1, <3>2 DEF WorkerInv, PatchInv, Alike
    <3>5. FinalizerInv'
      BY <1>1, <2>1, <2>2, <3>1, <3>2 DEF FinalizerInv, Alike
    <3>6. GenerationInv'
      BY <1>1, <2>1, <2>2, <2>6, <3>1, <3>2 DEF GenerationInv, Alike
    <3>7. ReleaseInv'
      <4>1. pc' = "delete" \/ orphanDeletionRequested(obj')
        BY <2>2, <2>10, <3>1, <3>2 DEF orphanDeletionRequested, forceOrphanRequested, Alike
      <4>2. CleanupBeforeRelease'
        BY <1>1, <2>1, <2>2, <3>1, <3>2 DEF CleanupBeforeRelease, Alike
      <4>3. QED
        BY <4>1, <4>2 DEF ReleaseInv, orphanDeletionRequested, forceOrphanRequested
    <3>8. WakeInv'
      BY <1>1, <2>8, <2>10 DEF WakeInv, workloadAlreadySuspended
    <3>9. QED
      BY <2>7, <3>3, <3>4, <3>5, <3>6, <3>7, <3>8 DEF Parts
  <2>11. QED
    BY <1>3, <2>9, <2>10
<1>4. andThen \in Results \cup {"delete", "removeFinalizer"}
  BY DEF IInv, TypeOK, WorkerTypeOK
<1>5. QED
  BY <1>2, <1>3, <1>4 DEF PatchStatus, Write, Results

-----------------------------------------------------------------------------
(***************************************************************************)
(* The steps of everybody else                                             *)
(***************************************************************************)

\* Steps that touch neither the custom resource nor the worker.
LEMMA OutsideStep ==
    ASSUME IInv, UNCHANGED <<crVars, pc, obj, current, patch, andThen>>,
           mine' => mine,
           mq' = mq \/ tampered',
           tampered => tampered',
           ~queued' /\ ~timer' => ~queued /\ ~timer
    PROVE  Parts'
<1> USE DEF crVars
<1>1. CopiesInv' /\ WorkerInv'
  BY DEF IInv, CopiesInv, WorkerInv, Alike
<1>2. PatchInv'
  BY DEF IInv, PatchInv, orphanDeletionRequested, forceOrphanRequested
<1>3. FinalizerInv' /\ GenerationInv'
  BY DEF IInv, FinalizerInv, GenerationInv
<1>4. ReleaseInv'
  BY DEF IInv, ReleaseInv, CleanupBeforeRelease, orphanDeletionRequested, forceOrphanRequested
<1>5. AppliedInv'
  BY DEF IInv, AppliedInv, SyncedSettled
<1>6. WakeInv'
  BY DEF IInv, WakeInv, Resting, workloadAlreadySuspended
<1>7. QED
  BY <1>1, <1>2, <1>3, <1>4, <1>5, <1>6 DEF Parts

\* Writes of users and of the garbage collector keep the finalizer.
LEMMA OtherWriteStep ==
    ASSUME IInv, NEW o \in CRType, OtherWrite(o), UNCHANGED mqVars,
           o.exists,
           cr.exists => o.finalizer = cr.finalizer,
           ~cr.exists => ~o.finalizer /\ ~o.atGen /\ ~o.deleting,
           o.atGen => Alike([o EXCEPT !.gc = cr.gc], cr) /\ o.reason = cr.reason /\ cr.atGen,
           Alike(o, cr) => o.reason = cr.reason /\ o.atGen = cr.atGen
    PROVE  Parts'
<1>1. UNCHANGED <<cache, queued, timer, pc, obj, patch, andThen, mq, mine, tampered>>
      /\ current' = FALSE
  BY DEF OtherWrite, queueVars, mqVars
<1>2. /\ \/ cr' = o
         \/ cr' = NoCR /\ ~o.finalizer
      /\ cr' = NoCR => o.deleting \/ o = NoCR
      /\ synced' = FALSE
      /\ event' = (event \/ ~Alike(cr, cr'))
  BY StoreEffect DEF IInv, OtherWrite
<1>3. ~event' => Alike(cache, cr')
  BY <1>2, AlikeTransitive DEF IInv, CopiesInv
<1>4. CopiesInv'
  BY <1>1, <1>2, <1>3 DEF CopiesInv, Alike
<1>5. WorkerInv' /\ PatchInv'
  BY <1>1 DEF IInv, WorkerInv, PatchInv, orphanDeletionRequested, forceOrphanRequested
<1>6. FinalizerInv'
  BY <1>1, <1>2, NoCRFields DEF IInv, FinalizerInv
<1>7. o.atGen => /\ o.spec = cr.spec /\ o.deleting = cr.deleting /\ cr.atGen /\ cr.exists
                 /\ o.reason = cr.reason
  BY DEF Alike, CRType
<1>8. GenerationInv'
  BY <1>1, <1>2, <1>7, NoCRFields DEF IInv, GenerationInv
<1>9. ReleaseInv'
  BY <1>1, <1>2 DEF IInv, ReleaseInv, CleanupBeforeRelease, orphanDeletionRequested,
     forceOrphanRequested
<1>10. AppliedInv'
  BY <1>1, <1>2, <1>7, NoCRFields DEF IInv, AppliedInv, SyncedSettled
<1>11. WakeInv'
  <2>1. ~event' => cr.exists = cr'.exists /\ cr.spec = cr'.spec /\ cr.deleting = cr'.deleting
                   /\ cr.finalizer = cr'.finalizer /\ ~event
    BY <1>2 DEF Alike
  <2>2. ~event' /\ cr.exists => cr'.reason = cr.reason /\ cr'.atGen = cr.atGen
    BY <1>2, <2>1, NoCRFields DEF Alike
  <2>3. ~event' => cr.exists
    BY <1>2, <2>1, NoCRFields
  <2>4. QED
    BY <1>1, <2>1, <2>2, <2>3, NoCRFields DEF IInv, WakeInv, Resting, workloadAlreadySuspended
<1>12. QED
  BY <1>4, <1>5, <1>6, <1>8, <1>9, <1>10, <1>11 DEF Parts

LEMMA SurroundingsStep ==
    IInv /\ (Deliver \/ TimerFires \/ GarbageCollect \/ Environment) => Parts'
<1> SUFFICES ASSUME IInv, Deliver \/ TimerFires \/ GarbageCollect \/ Environment
             PROVE  Parts'
  OBVIOUS
<1>0. cr \in CRType
  BY DEF IInv, TypeOK, CRTypeOK
<1>1. CASE Deliver
  <2>0. UNCHANGED <<cr, pc, obj, current, patch, andThen, timer, mq, mine, tampered>>
        /\ cache' = cr /\ synced' = TRUE /\ event' = FALSE /\ queued' = (queued \/ event)
    BY <1>1 DEF Deliver, workerVars, mqVars
  <2>1. CopiesInv' /\ WorkerInv'
    BY <2>0 DEF IInv, CopiesInv, WorkerInv, Alike
  <2>2. PatchInv'
    BY <2>0 DEF IInv, PatchInv, orphanDeletionRequested, forceOrphanRequested
  <2>3. FinalizerInv' /\ GenerationInv'
    BY <2>0 DEF IInv, FinalizerInv, GenerationInv
  <2>4. ReleaseInv' /\ AppliedInv'
    BY <2>0 DEF IInv, ReleaseInv, CleanupBeforeRelease, orphanDeletionRequested,
       forceOrphanRequested, AppliedInv, SyncedSettled
  <2>5. WakeInv'
    BY <2>0 DEF IInv, WakeInv, Resting, workloadAlreadySuspended
  <2>6. QED
    BY <2>1, <2>2, <2>3, <2>4, <2>5 DEF Parts
<1>2. CASE TimerFires
  BY <1>2, OutsideStep DEF TimerFires, workerVars, mqVars
<1>3. CASE GarbageCollect
  <2> DEFINE o == [cr EXCEPT !.gc = FALSE]
  <2>1. o \in CRType
    BY <1>0, WrittenType
  <2>2. /\ o.exists = cr.exists /\ o.spec = cr.spec /\ o.finalizer = cr.finalizer
        /\ o.deleting = cr.deleting /\ o.reason = cr.reason /\ o.atGen = cr.atGen
        /\ Alike([o EXCEPT !.gc = cr.gc], cr)
    BY <1>0 DEF CRType, Alike
  <2>3. QED
    BY <1>3, <2>1, <2>2, OtherWriteStep DEF GarbageCollect
<1>4. ASSUME NEW s \in Specs, NEW a \in Annotations, CreateCR(s, a) PROVE Parts'
  <2> DEFINE o == [NoCR EXCEPT !.exists = TRUE, !.spec = s, !.ann = a]
  <2>1. o \in CRType
    BY NoCRType, WrittenType, UserAssumption
  <2>2. o.exists = TRUE /\ o.finalizer = FALSE /\ o.atGen = FALSE /\ o.deleting = FALSE
    BY DEF NoCR
  <2>3. ~Alike(o, cr)
    BY <1>4, <2>2 DEF CreateCR, Alike
  <2>4. QED
    BY <1>4, <2>1, <2>2, <2>3, OtherWriteStep DEF CreateCR
<1>5. ASSUME NEW s \in Specs, EditSpec(s) PROVE Parts'
  <2> DEFINE o == [cr EXCEPT !.spec = s, !.atGen = FALSE]
  <2>1. o \in CRType
    BY <1>0, WrittenType, UserAssumption
  <2>2. /\ o.exists = cr.exists /\ o.finalizer = cr.finalizer /\ o.spec = s
        /\ o.deleting = cr.deleting /\ o.atGen = FALSE
    BY <1>0 DEF CRType
  <2>3. cr.exists /\ ~Alike(o, cr)
    BY <1>5, <2>2 DEF EditSpec, Alike
  <2>4. QED
    BY <1>5, <2>1, <2>2, <2>3, OtherWriteStep DEF EditSpec
<1>6. ASSUME NEW a \in Annotations, Annotate(a) PROVE Parts'
  <2> DEFINE o == [cr EXCEPT !.ann = a]
  <2>1. o \in CRType
    BY <1>0, WrittenType, UserAssumption
  <2>2. /\ o.exists = cr.exists /\ o.spec = cr.spec /\ o.finalizer = cr.finalizer
        /\ o.deleting = cr.deleting /\ o.reason = cr.reason /\ o.atGen = cr.atGen
        /\ Alike([o EXCEPT !.gc = cr.gc], cr)
    BY <1>0 DEF CRType, Alike
  <2>3. QED
    BY <1>6, <2>1, <2>2, OtherWriteStep DEF Annotate
<1>7. CASE RequestReconcile
  <2>0. UNCHANGED <<cr, cache, pc, obj, patch, andThen, mq, mine, tampered>>
        /\ synced' = FALSE /\ event' = TRUE /\ current' = FALSE
    BY <1>7 DEF RequestReconcile, mqVars
  <2>1. CopiesInv' /\ WorkerInv'
    BY <2>0 DEF IInv, CopiesInv, WorkerInv
  <2>2. PatchInv'
    BY <2>0 DEF IInv, PatchInv, orphanDeletionRequested, forceOrphanRequested
  <2>3. FinalizerInv' /\ GenerationInv' /\ WakeInv'
    BY <2>0 DEF IInv, FinalizerInv, GenerationInv, WakeInv
  <2>4. ReleaseInv' /\ AppliedInv'
    BY <2>0 DEF IInv, ReleaseInv, CleanupBeforeRelease, orphanDeletionRequested,
       forceOrphanRequested, AppliedInv, SyncedSettled
  <2>5. QED
    BY <2>1, <2>2, <2>3, <2>4 DEF Parts
<1>8. ASSUME NEW foreground \in Foregrounds, DeleteCR(foreground) PROVE Parts'
  <2> DEFINE o == [cr EXCEPT !.deleting = TRUE, !.gc = foreground, !.atGen = FALSE]
  <2>1. o \in CRType
    BY <1>0, WrittenType, UserAssumption
  <2>2. o.exists = cr.exists /\ o.finalizer = cr.finalizer /\ o.deleting = TRUE /\ o.atGen = FALSE
    BY <1>0 DEF CRType
  <2>3. cr.exists /\ ~Alike(o, cr)
    BY <1>8, <2>2 DEF DeleteCR, Alike
  <2>4. QED
    BY <1>8, <2>1, <2>2, <2>3, OtherWriteStep DEF DeleteCR
<1>9. ASSUME NEW v \in Foreign, OutOfBand(v) PROVE Parts'
  BY <1>9, OutsideStep DEF OutOfBand, queueVars
<1>10. ASSUME NEW c \in Conns, NEW edited \in BOOLEAN, NEW listed \in BOOLEAN,
              ConnectionChange(c, edited, listed)
       PROVE  Parts'
  BY <1>10, OutsideStep DEF ConnectionChange, workerVars, mqVars
<1>11. ASSUME NEW m \in Mqwebs, MqwebChange(m) PROVE Parts'
  BY <1>11, OutsideStep DEF MqwebChange, queueVars, workerVars, mqVars
<1>12. ASSUME NEW a \in Apis, ApiChange(a) PROVE Parts'
  BY <1>12, OutsideStep DEF ApiChange, queueVars, workerVars, mqVars
<1>13. CASE Restart
  <2>0. UNCHANGED <<cr, mq, mine, tampered>>
        /\ cache' = cr /\ synced' = TRUE /\ event' = FALSE /\ queued' = cr.exists
        /\ pc' = "idle" /\ obj' = NoCR /\ current' = FALSE
    BY <1>13 DEF Restart, mqVars
  <2>1. CopiesInv' /\ WorkerInv' /\ PatchInv'
    BY <2>0 DEF CopiesInv, WorkerInv, PatchInv, Alike
  <2>2. FinalizerInv' /\ GenerationInv'
    BY <2>0, NoCRFields DEF IInv, FinalizerInv, GenerationInv
  <2>3. ReleaseInv' /\ AppliedInv' /\ WakeInv'
    BY <2>0 DEF IInv, ReleaseInv, CleanupBeforeRelease, AppliedInv, SyncedSettled, WakeInv,
       workloadAlreadySuspended
  <2>4. QED
    BY <2>1, <2>2, <2>3 DEF Parts
<1>14. QED
  BY <1>1, <1>2, <1>3, <1>4, <1>5, <1>6, <1>7, <1>8, <1>9, <1>10, <1>11, <1>12, <1>13
     DEF Environment

-----------------------------------------------------------------------------
LEMMA Inductive == Spec => []IInv
<1>1. Init => IInv
  <2> SUFFICES ASSUME Init PROVE IInv
    OBVIOUS
  <2>1. CopiesInv /\ WorkerInv /\ PatchInv
    BY DEF Init, CopiesInv, WorkerInv, PatchInv, Alike
  <2>2. FinalizerInv /\ GenerationInv /\ ReleaseInv
    BY NoCRFields DEF Init, FinalizerInv, GenerationInv, ReleaseInv, CleanupBeforeRelease
  <2>3. AppliedInv /\ WakeInv
    BY NoCRFields DEF Init, AppliedInv, SyncedSettled, WakeInv
  <2>4. QED
    BY <2>1, <2>2, <2>3, InitType DEF IInv
<1>2. IInv /\ [Next]_vars => IInv'
  <2> SUFFICES ASSUME IInv, [Next]_vars PROVE IInv'
    OBVIOUS
  <2>1. CASE UNCHANGED vars
    <3>1. UNCHANGED <<crVars, queueVars, workerVars, mqVars>>
      BY <2>1 DEF vars
    <3>2. Parts'
      BY <3>1, OutsideStep DEF queueVars, workerVars, mqVars
    <3>3. TypeOK'
      BY <2>1, SMTT(30) DEF IInv, vars, crVars, queueVars, workerVars, envVars, mqVars,
         TypeOK, CRTypeOK, WorkerTypeOK, EnvTypeOK, MQTypeOK
    <3>4. QED
      BY <3>2, <3>3 DEF IInv, Parts
  <2>2. CASE Next
    <3>1. TypeOK'
      BY <2>2, WorkerType, SurroundingsType DEF IInv, Next
    <3>2. Parts'
      BY <2>2, ReconcileStep, ResolveStep, AddFinalizerStep, ObserveStep, DefineStep,
         DeletionStep, RemoveFinalizerStep, PatchStep, SurroundingsStep DEF Next, Worker
    <3>3. QED
      BY <3>1, <3>2 DEF IInv, Parts
  <2>3. QED
    BY <2>1, <2>2
<1>3. QED
  BY <1>1, <1>2, PTL DEF Spec

\* ADR-0013, for every kind and every mix of faults: as long as the object the
\* operator wrote is on the queue manager and was not orphaned, its custom
\* resource exists and carries the finalizer.
THEOREM CleanupProved == Spec => []CleanupBeforeRelease
<1>1. IInv => CleanupBeforeRelease
  BY DEF IInv, ReleaseInv
<1>2. QED
  BY Inductive, <1>1, PTL

\* Synced=True of the current generation is never stale, although reconciles
\* run on copies that users overtake: for every kind whose write replaces the
\* object, the comparison with the current spec finds no difference.
THEOREM SyncedProved ==
    ASSUME Kind # "AuthorityRecord"
    PROVE  Spec => []SyncedMeansApplied
<1>1. IInv => SyncedMeansApplied
  BY DEF IInv, AppliedInv, SyncedSettled, SyncedMeansApplied, Settled
<1>2. QED
  BY Inductive, <1>1, PTL

\* The same for every kind, with what a write that only adds can promise:
\* nothing the current spec asks for is missing.
THEOREM GrantedProved == Spec => []SyncedMeansGranted
<1>1. IInv => SyncedMeansGranted
  BY DEF IInv, AppliedInv, SyncedSettled, SyncedMeansGranted, Settled
<1>2. QED
  BY Inductive, <1>1, PTL

\* No wake-up is lost: what is neither queued nor scheduled rests.
THEOREM NeverWedgedProved == Spec => []NeverWedged
<1>1. IInv => NeverWedged
  BY DEF IInv, WakeInv, CopiesInv, NeverWedged
<1>2. QED
  BY Inductive, <1>1, PTL

-----------------------------------------------------------------------------
(***************************************************************************)
(* Adoption                                                                *)
(***************************************************************************)

\* A worker about to write for a custom resource that has adopted nothing, with
\* a policy other than Adopt, saw no object; one that is there now came later.
AdoptionInv ==
    (/\ pc = "define"
     /\ obj.spec.adoption # "Adopt" /\ workloadFirstAdoption(obj))
        => mq = NoObject \/ touched

LEMMA DefineVerdict ==
    ASSUME NEW o, NEW seen, Ensure(o, seen) = "define",
           o.spec.adoption \in {"AdoptIfMatching", "FailIfExists"}, workloadFirstAdoption(o)
    PROVE  seen = NoObject
<1> DEFINE blocked == adoptionBlockForExisting(o, seen)
<1>1. reconcileMQObjectState(o, seen) = "define" => blocked = "none" /\ NeedsUpdate(o.spec.value, seen)
  BY DEF reconcileMQObjectState, adoptionBlockForExisting
<1>2. ensureChannelAuth(o, seen) = "define" => blocked = "none" /\ NeedsUpdate(o.spec.value, seen)
  BY DEF ensureChannelAuth, adoptionBlockForExisting
<1>3. ensureAuthority(o, seen) = "define" => blocked = "none" /\ NeedsUpdate(o.spec.value, seen)
  BY DEF ensureAuthority, adoptionBlockForExisting
<1>4. blocked = "none" /\ NeedsUpdate(o.spec.value, seen)
  BY <1>1, <1>2, <1>3, KindAssumption
     DEF Ensure, Kinds, ensureQueue, ensureTopic, ensureChannel
<1>5. QED
  BY <1>4 DEF adoptionBlockForExisting

\* The only way to the write is the GET that decides it.
LEMMA WorkerAdoption ==
    ASSUME TypeOK, AdoptionInv, Worker
    PROVE  AdoptionInv'
<1>1. CASE ObserveMQ
  <2>1. CASE mqweb = "up" /\ Ensure(obj, mq) = "define"
    <3>1. obj' = obj /\ mq' = mq
      BY <1>1, <2>1 DEF ObserveMQ, Goto
    <3>2. obj.spec.adoption \in {"Adopt", "AdoptIfMatching", "FailIfExists"}
      BY DEF TypeOK, WorkerTypeOK, CRType, SpecType
    <3>3. QED
      BY <2>1, <3>1, <3>2, DefineVerdict DEF AdoptionInv, workloadFirstAdoption
  <2>2. CASE ~(mqweb = "up" /\ Ensure(obj, mq) = "define")
    BY <1>1, <2>2 DEF ObserveMQ, setSyncedError, GotoPatch, AdoptionInv
  <2>3. QED
    BY <2>1, <2>2
<1>2. CASE Worker /\ ~ObserveMQ
  <2>1. pc' # "define"
    <3>1. CASE Reconcile
      BY <3>1 DEF Reconcile, Return, reconcileWorkloadSuspended, reconcileWorkloadDeletion
    <3>2. CASE ResolveConnection
      BY <3>2 DEF ResolveConnection, deletionAwaitingConnection, setSyncedError, Goto, GotoPatch
    <3>3. CASE AddFinalizer \/ RemoveFinalizer
      BY <3>3 DEF AddFinalizer, RemoveFinalizer, Write, Return
    <3>4. CASE DefineMQ \/ handleDeletion
      BY <3>4 DEF DefineMQ, handleDeletion, setSyncedError, Goto, GotoPatch
    <3>5. CASE PatchStatus
      BY <3>5 DEF PatchStatus, Write, Return, TypeOK, WorkerTypeOK, Results
    <3>6. QED
      BY <1>2, <3>1, <3>2, <3>3, <3>4, <3>5 DEF Worker
  <2>2. QED
    BY <2>1 DEF AdoptionInv
<1>3. QED
  BY <1>1, <1>2

\* Everybody else leaves the worker where it is, or restarts it, and marks the
\* object when touching it.
LEMMA OtherAdoption ==
    ASSUME AdoptionInv, Deliver \/ TimerFires \/ GarbageCollect \/ Environment
    PROVE  AdoptionInv'
<1>1. CASE pc' = "idle"
  BY <1>1 DEF AdoptionInv
<1>2. CASE UNCHANGED <<pc, obj>> /\ (pc = "define" => touched' \/ UNCHANGED <<mq, touched>>)
  BY <1>2 DEF AdoptionInv, workloadFirstAdoption
<1>3. \/ pc' = "idle"
      \/ /\ UNCHANGED <<pc, obj>>
         /\ (pc = "define" => touched' \/ UNCHANGED <<mq, touched>>)
  BY DEF Environment, Deliver, TimerFires, GarbageCollect, CreateCR, EditSpec, Annotate,
     RequestReconcile, DeleteCR, OutOfBand, Decided, ConnectionChange, MqwebChange, ApiChange,
     Restart, OtherWrite, workerVars, mqVars
<1>4. QED
  BY <1>1, <1>2, <1>3

\* ADR-0022, for every kind: until a custom resource has adopted its object, a
\* policy other than Adopt lets a reconcile create it and keeps it from overwriting
\* what its GET saw, whether the object is its own or anybody else's.
THEOREM AdoptionProved == Spec => AdoptionRespected
<1>1. Init => AdoptionInv
  BY DEF Init, AdoptionInv
<1>2. TypeOK /\ AdoptionInv /\ [Next]_vars => AdoptionInv'
  <2> SUFFICES ASSUME TypeOK, AdoptionInv, [Next]_vars PROVE AdoptionInv'
    OBVIOUS
  <2>1. CASE UNCHANGED vars
    BY <2>1 DEF vars, workerVars, mqVars, AdoptionInv, workloadFirstAdoption
  <2>2. CASE Next
    BY <2>2, WorkerAdoption, OtherAdoption DEF Next
  <2>3. QED
    BY <2>1, <2>2
<1>3. AdoptionInv =>
        ((/\ pc = "define" /\ mq' # mq /\ pc' # pc
          /\ obj.spec.adoption # "Adopt" /\ workloadFirstAdoption(obj))
              => mq = NoObject \/ touched)
  BY DEF AdoptionInv
<1>4. QED
  BY <1>1, <1>2, <1>3, TypeCorrect, PTL DEF Spec, AdoptionRespected

\* A worker about to announce success for a custom resource that has adopted
\* nothing and must not adopt wrote the object itself, unless others replaced it.
AnnouncementInv ==
    (/\ pc = "patch" /\ patch = "Available"
     /\ obj.spec.adoption = "FailIfExists" /\ workloadFirstAdoption(obj))
        => mine \/ touched

\* The auth kinds look at the adoption policy before they look at anything else.
LEMMA AvailableVerdict ==
    ASSUME Kind \in AuthKinds, NEW o, NEW seen, Ensure(o, seen) = "Available",
           o.spec.adoption = "FailIfExists"
    PROVE  ~workloadFirstAdoption(o)
<1>1. ensureChannelAuth(o, seen) = "Available" => ~workloadFirstAdoption(o)
  BY DEF ensureChannelAuth, adoptionBlockForExisting, NeedsUpdate
<1>2. ensureAuthority(o, seen) = "Available" => ~workloadFirstAdoption(o)
  BY DEF ensureAuthority, adoptionBlockForExisting, NeedsUpdate
<1>3. QED
  BY <1>1, <1>2 DEF Ensure, AuthKinds

LEMMA WorkerAnnouncement ==
    ASSUME Kind \in AuthKinds, TypeOK, AnnouncementInv, Worker
    PROVE  AnnouncementInv'
<1>1. CASE ObserveMQ
  <2>1. obj' = obj
    BY <1>1 DEF ObserveMQ, setSyncedError, Goto, GotoPatch
  <2>2. pc' = "patch" /\ patch' = "Available" => Ensure(obj, mq) = "Available"
    BY <1>1 DEF ObserveMQ, setSyncedError, classifyReconcileError, Goto, GotoPatch
  <2>3. QED
    BY <2>1, <2>2, AvailableVerdict DEF AnnouncementInv, workloadFirstAdoption
<1>2. CASE DefineMQ
  BY <1>2 DEF DefineMQ, Defined, setSyncedError, classifyReconcileError, GotoPatch, AnnouncementInv
<1>3. CASE Worker /\ ~ObserveMQ /\ ~DefineMQ
  <2>1. pc' # "patch" \/ patch' # "Available"
    <3>1. CASE Reconcile
      BY <3>1 DEF Reconcile, Return, reconcileWorkloadSuspended, reconcileWorkloadDeletion
    <3>2. CASE ResolveConnection
      BY <3>2 DEF ResolveConnection, deletionAwaitingConnection, setSyncedError,
         classifyReconcileError, Goto, GotoPatch
    <3>3. CASE AddFinalizer \/ RemoveFinalizer
      BY <3>3 DEF AddFinalizer, RemoveFinalizer, Write, Return
    <3>4. CASE handleDeletion
      BY <3>4 DEF handleDeletion, setSyncedError, classifyReconcileError, Goto, GotoPatch
    <3>5. CASE PatchStatus
      BY <3>5 DEF PatchStatus, Write, Return
    <3>6. QED
      BY <1>3, <3>1, <3>2, <3>3, <3>4, <3>5 DEF Worker
  <2>2. QED
    BY <2>1 DEF AnnouncementInv
<1>4. QED
  BY <1>1, <1>2, <1>3

LEMMA OtherAnnouncement ==
    ASSUME AnnouncementInv, Deliver \/ TimerFires \/ GarbageCollect \/ Environment
    PROVE  AnnouncementInv'
<1>1. CASE pc' = "idle"
  BY <1>1 DEF AnnouncementInv
<1>2. CASE UNCHANGED <<pc, obj, patch>> /\ (patch = "Available" => touched' \/ UNCHANGED <<mine, touched>>)
  BY <1>2 DEF AnnouncementInv, workloadFirstAdoption
<1>3. \/ pc' = "idle"
      \/ /\ UNCHANGED <<pc, obj, patch>>
         /\ (patch = "Available" => touched' \/ UNCHANGED <<mine, touched>>)
  BY DEF Environment, Deliver, TimerFires, GarbageCollect, CreateCR, EditSpec, Annotate,
     RequestReconcile, DeleteCR, OutOfBand, Decided, ConnectionChange, MqwebChange, ApiChange,
     Restart, OtherWrite, workerVars, mqVars
<1>4. QED
  BY <1>1, <1>2, <1>3

\* Which writes of the API server set observedGeneration.
LEMMA AdoptedFields ==
    ASSUME NEW o \in CRType, NEW s, NEW a, NEW b
    PROVE  /\ NoCR.adopted = FALSE
           /\ [o EXCEPT !.finalizer = b].adopted = o.adopted
           /\ [o EXCEPT !.gc = FALSE].adopted = o.adopted
           /\ [o EXCEPT !.spec = s, !.atGen = FALSE].adopted = o.adopted
           /\ [o EXCEPT !.ann = a].adopted = o.adopted
           /\ [o EXCEPT !.deleting = TRUE, !.gc = b, !.atGen = FALSE].adopted = o.adopted
           /\ patchSyncedStatus(o).adopted = (o.adopted \/ patch = "Available")
  BY DEF CRType, NoCR, patchSyncedStatus

\* A custom resource comes to count as having adopted by a write of the success
\* condition from a copy that is current, and by nothing else.
LEMMA AdoptedByAnnouncement ==
    ASSUME TypeOK, CopiesInv, Next, cr'.adopted, ~cr.adopted
    PROVE  pc = "patch" /\ patch = "Available" /\ obj = cr
<1>0. cr \in CRType /\ obj \in CRType /\ NoCR.adopted = FALSE
  BY AdoptedFields DEF TypeOK, CRTypeOK, WorkerTypeOK
<1>1. PICK o : /\ Store(o) /\ o.adopted
               /\ \/ GarbageCollect \/ Environment
                  \/ current /\ (AddFinalizer \/ RemoveFinalizer)
                        /\ \E b \in BOOLEAN : o = [obj EXCEPT !.finalizer = b]
                  \/ current /\ PatchStatus /\ o = patchSyncedStatus(obj)
  <2>1. ASSUME NEW o, Store(o) PROVE o.adopted
    BY <1>0, <2>1 DEF Store, Stored
  <2>2. CASE UNCHANGED cr
    BY <2>2
  <2>3. CASE GarbageCollect \/ Environment
    BY <2>1, <2>2, <2>3 DEF GarbageCollect, Environment, CreateCR, EditSpec, Annotate,
       RequestReconcile, DeleteCR, OutOfBand, ConnectionChange, MqwebChange, ApiChange, Restart,
       OtherWrite, crVars
  <2>4. CASE AddFinalizer
    BY <2>1, <2>2, <2>4 DEF AddFinalizer, Write
  <2>5. CASE RemoveFinalizer
    BY <2>1, <2>2, <2>5 DEF RemoveFinalizer, Write
  <2>6. CASE PatchStatus
    BY <2>1, <2>2, <2>6 DEF PatchStatus, Write
  <2>7. CASE Reconcile \/ ResolveConnection \/ ObserveMQ \/ DefineMQ \/ handleDeletion
    BY <2>2, <2>7 DEF Reconcile, ResolveConnection, ObserveMQ, DefineMQ, handleDeletion, crVars
  <2>8. CASE Deliver \/ TimerFires
    BY <2>2, <2>8 DEF Deliver, TimerFires, crVars
  <2>9. QED
    BY <2>3, <2>4, <2>5, <2>6, <2>7, <2>8 DEF Next, Worker
<1>2. current => obj = cr
  BY DEF CopiesInv
<1>3. CASE GarbageCollect \/ Environment
  <2> DEFINE Keeps(q) == q.adopted \in {cr.adopted, FALSE}
  <2>1. ASSUME NEW q, OtherWrite(q), Keeps(q) PROVE FALSE
    BY <1>0, <2>1 DEF OtherWrite, Store, Stored
  <2> HIDE DEF Keeps
  <2>2. CASE GarbageCollect
    <3>1. Keeps([cr EXCEPT !.gc = FALSE])
      BY <1>0, AdoptedFields DEF Keeps
    <3>2. QED
      BY <2>1, <2>2, <3>1 DEF GarbageCollect
  <2>3. ASSUME NEW s \in Specs, NEW a \in Annotations, CreateCR(s, a) PROVE FALSE
    <3>1. Keeps([NoCR EXCEPT !.exists = TRUE, !.spec = s, !.ann = a])
      BY DEF NoCR, Keeps
    <3>2. QED
      BY <2>1, <2>3, <3>1 DEF CreateCR
  <2>4. ASSUME NEW s \in Specs, EditSpec(s) PROVE FALSE
    <3>1. Keeps([cr EXCEPT !.spec = s, !.atGen = FALSE])
      BY <1>0, AdoptedFields DEF Keeps
    <3>2. QED
      BY <2>1, <2>4, <3>1 DEF EditSpec
  <2>5. ASSUME NEW a \in Annotations, Annotate(a) PROVE FALSE
    <3>1. Keeps([cr EXCEPT !.ann = a])
      BY <1>0, AdoptedFields DEF Keeps
    <3>2. QED
      BY <2>1, <2>5, <3>1 DEF Annotate
  <2>6. ASSUME NEW foreground \in Foregrounds, DeleteCR(foreground) PROVE FALSE
    <3>1. Keeps([cr EXCEPT !.deleting = TRUE, !.gc = foreground, !.atGen = FALSE])
      BY <1>0, AdoptedFields DEF Keeps
    <3>2. QED
      BY <2>1, <2>6, <3>1 DEF DeleteCR
  <2>7. CASE UNCHANGED cr
    BY <2>7
  <2>8. QED
    BY <1>3, <2>2, <2>3, <2>4, <2>5, <2>6, <2>7 DEF Environment, RequestReconcile, OutOfBand,
       ConnectionChange, MqwebChange, ApiChange, Restart, crVars
<1>4. CASE current /\ (AddFinalizer \/ RemoveFinalizer)
             /\ \E b \in BOOLEAN : o = [obj EXCEPT !.finalizer = b]
  BY <1>0, <1>1, <1>2, <1>4, AdoptedFields, SMTT(30)
<1>5. CASE current /\ PatchStatus /\ o = patchSyncedStatus(obj)
  BY <1>0, <1>1, <1>2, <1>5, AdoptedFields DEF PatchStatus
<1>6. QED
  BY <1>1, <1>3, <1>4, <1>5

\* ADR-0022, FailIfExists, for both auth kinds: a custom resource with that policy
\* comes to count as having adopted its object only when the operator wrote the
\* object, unless others replaced it after the GET.  It is not so for the object kinds, which
\* look at observe-only before they look at the policy.
THEOREM NeverAdoptsProved ==
    ASSUME Kind \in AuthKinds
    PROVE  Spec => NeverAdopts
<1>1. Init => AnnouncementInv
  BY DEF Init, AnnouncementInv
<1>2. TypeOK /\ AnnouncementInv /\ [Next]_vars => AnnouncementInv'
  <2> SUFFICES ASSUME TypeOK, AnnouncementInv, [Next]_vars PROVE AnnouncementInv'
    OBVIOUS
  <2>1. CASE UNCHANGED vars
    BY <2>1 DEF vars, workerVars, mqVars, AnnouncementInv, workloadFirstAdoption
  <2>2. CASE Next
    BY <2>2, WorkerAnnouncement, OtherAnnouncement DEF Next
  <2>3. QED
    BY <2>1, <2>2
<1>3. IInv /\ AnnouncementInv /\ [Next]_vars =>
        [(/\ cr'.adopted /\ ~cr.adopted
          /\ cr.spec.adoption = "FailIfExists") => mine \/ touched]_vars
  <2> SUFFICES ASSUME IInv, AnnouncementInv, Next, cr'.adopted, ~cr.adopted,
                      cr.spec.adoption = "FailIfExists"
               PROVE  mine \/ touched
    OBVIOUS
  <2>1. pc = "patch" /\ patch = "Available" /\ obj = cr
    BY AdoptedByAnnouncement DEF IInv
  <2>2. QED
    BY <2>1 DEF AnnouncementInv, workloadFirstAdoption
<1>4. IInv => TypeOK
  BY DEF IInv
<1>5. QED
  BY <1>1, <1>2, <1>3, <1>4, Inductive, PTL DEF Spec, NeverAdopts

-----------------------------------------------------------------------------
(***************************************************************************)
(* WorkloadReconcile implements ManagedObject, for every kind, every set   *)
(* of values, specs and annotations, and every subset of faults.           *)
(***************************************************************************)

\* Beyond the invariant IInv: a worker that is about to
\* delete wrote the Deleting condition, so the stored resource is the one it
\* deletes for; only that worker could release it since.
FenceInv ==
    /\ pc = "delete" => cr.exists /\ cr.finalizer /\ cr.deleting
    /\ pc = "addFinalizer" => ~obj.deleting

\* Two versions that ManagedObject does not tell apart.
SameClaim(a, b) ==
    /\ a.exists = b.exists
    /\ a.deleting = b.deleting
    /\ a.finalizer = b.finalizer
    /\ orphanDeletionRequested(a) = orphanDeletionRequested(b)

LEMMA OrphanType ==
    ASSUME NEW o \in CRType
    PROVE  /\ orphanDeletionRequested(o) \in BOOLEAN
           /\ o.finalizer \in BOOLEAN /\ o.exists \in BOOLEAN /\ o.deleting \in BOOLEAN
  BY DEF CRType, AnnotationType, SpecType, orphanDeletionRequested, forceOrphanRequested

LEMMA NoCRUnclaimed ==
    /\ NoCR.exists = FALSE /\ NoCR.finalizer = FALSE /\ NoCR.deleting = FALSE
    /\ orphanDeletionRequested(NoCR) = FALSE
  BY DEF NoCR, orphanDeletionRequested, forceOrphanRequested

-----------------------------------------------------------------------------
(***************************************************************************)
(* The steps                                                               *)
(***************************************************************************)

Step == [Promise!Next]_(Promise!vars)

\* A step that changes nothing the promise is about, or gives up an attempt.
LEMMA QuietStep ==
    ASSUME SameClaim(cr, cr'), UNCHANGED <<mq, mine>>, Doing' \in {Doing, "nothing"}
    PROVE  Step
<1>1. Life' = Life /\ cr'.finalizer = cr.finalizer
      /\ orphanDeletionRequested(cr)' = orphanDeletionRequested(cr)
  BY DEF SameClaim, Life, orphanDeletionRequested, forceOrphanRequested
<1>2. CASE Doing' = Doing
  BY <1>1, <1>2 DEF Step, Promise!vars
<1>3. CASE Doing' = "nothing"
  BY <1>1, <1>3 DEF Step, Promise!Next, Promise!Abandon
<1>4. QED
  BY <1>2, <1>3

\* The worker's steps between its calls to mqweb.
LEMMA PlanningStep ==
    ASSUME IInv, Reconcile \/ ResolveConnection
    PROVE  Step
<1>1. cr' = cr /\ UNCHANGED <<mq, mine>>
  BY DEF Reconcile, ResolveConnection, crVars, mqVars
<1>2. pc' \notin {"define", "delete"}
  BY DEF Reconcile, Return, reconcileWorkloadSuspended, reconcileWorkloadDeletion,
     ResolveConnection, deletionAwaitingConnection, setSyncedError, Goto, GotoPatch
<1>3. Doing' = "nothing"
  BY <1>2 DEF Doing
<1>4. QED
  BY <1>1, <1>3, QuietStep DEF SameClaim, orphanDeletionRequested, forceOrphanRequested

LEMMA ObservePromise ==
    ASSUME IInv, ObserveMQ
    PROVE  Step
<1>1. cr' = cr /\ UNCHANGED <<mq, mine>> /\ pc = "get"
  BY DEF ObserveMQ, crVars
<1>2. cr.finalizer
  BY <1>1, OrphanType DEF IInv, WorkerInv, FinalizerInv
<1>3. pc' \in {"patch", "define"}
  BY DEF ObserveMQ, setSyncedError, Goto, GotoPatch
<1>4. CASE pc' = "define"
  <2>1. Doing = "nothing" /\ Doing' = "write"
    BY <1>1, <1>4 DEF Doing
  <2>2. Life' = Life /\ orphanDeletionRequested(cr)' = orphanDeletionRequested(cr)
    BY <1>1 DEF Life, orphanDeletionRequested, forceOrphanRequested
  <2>3. QED
    BY <1>1, <1>2, <2>1, <2>2 DEF Step, Promise!Next, Promise!Attempt
<1>5. CASE pc' = "patch"
  <2>1. Doing' = "nothing"
    BY <1>5 DEF Doing
  <2>2. QED
    BY <1>1, <2>1, QuietStep DEF SameClaim, orphanDeletionRequested, forceOrphanRequested
<1>6. QED
  BY <1>3, <1>4, <1>5

\* A reconcile that writes holds the claim, however old its copy is.
LEMMA DefinePromise ==
    ASSUME IInv, DefineMQ
    PROVE  Step
<1>1. cr' = cr /\ pc = "define" /\ pc' = "patch" /\ Doing = "write" /\ Doing' = "nothing"
  BY DEF DefineMQ, setSyncedError, GotoPatch, crVars, Doing
<1>2. cr.finalizer
  BY <1>1, OrphanType DEF IInv, WorkerInv, FinalizerInv
<1>3. Life' = Life /\ orphanDeletionRequested(cr)' = orphanDeletionRequested(cr)
  BY <1>1 DEF Life, orphanDeletionRequested, forceOrphanRequested
<1>4. CASE UNCHANGED mqVars
  BY <1>1, <1>4, QuietStep DEF mqVars, SameClaim, orphanDeletionRequested, forceOrphanRequested
<1>5. CASE Defined
  <2>1. mq' \in Values /\ mine' = TRUE
    BY <1>5, WriteSettles DEF Defined, IInv, TypeOK, WorkerTypeOK, MQTypeOK, CRType, SpecType
  <2>2. QED
    BY <1>1, <1>2, <1>3, <2>1 DEF Step, Promise!Next, Promise!Write
<1>6. QED
  BY <1>4, <1>5 DEF DefineMQ

LEMMA DeletePromise ==
    ASSUME IInv, FenceInv, handleDeletion
    PROVE  Step
<1>1. cr' = cr /\ pc = "delete" /\ pc' \in {"patch", "removeFinalizer"}
  BY DEF handleDeletion, setSyncedError, Goto, GotoPatch, crVars
<1>2. Doing = "delete" /\ Doing' = "nothing"
  BY <1>1 DEF Doing
<1>3. cr.finalizer /\ Life = "deleting"
  BY <1>1 DEF FenceInv, Life
<1>4. Life' = Life /\ orphanDeletionRequested(cr)' = orphanDeletionRequested(cr)
  BY <1>1 DEF Life, orphanDeletionRequested, forceOrphanRequested
<1>5. CASE UNCHANGED mqVars
  BY <1>1, <1>2, <1>5, QuietStep
     DEF mqVars, SameClaim, orphanDeletionRequested, forceOrphanRequested
<1>6. CASE Deleted
  BY <1>1, <1>2, <1>3, <1>4, <1>6 DEF Deleted, Step, Promise!Next, Promise!Delete
<1>7. QED
  BY <1>5, <1>6 DEF handleDeletion

\* A write that is refused, or fails before it lands, changes nothing.
LEMMA FailedWritePromise ==
    ASSUME Return("error"), cr' = cr, UNCHANGED <<mq, mine>>
    PROVE  Step
<1>1. Doing' = "nothing"
  BY DEF Return, Doing
<1>2. QED
  BY <1>1, QuietStep DEF SameClaim, orphanDeletionRequested, forceOrphanRequested

LEMMA ClaimPromise ==
    ASSUME IInv, FenceInv, AddFinalizer
    PROVE  Step
<1> DEFINE o == [obj EXCEPT !.finalizer = TRUE]
<1>1. pc = "addFinalizer" /\ UNCHANGED <<mq, mine>> /\ ~obj.finalizer /\ ~obj.deleting
  BY DEF AddFinalizer, mqVars, IInv, WorkerInv, FenceInv
<1>2. CASE Return("error") /\ cr' = cr
  BY <1>1, <1>2, FailedWritePromise
<1>3. CASE current /\ Store(o) /\ \E r \in Results : Return(r)
  <2>1. obj = cr /\ cr \in CRType /\ cr.exists
    BY <1>3 DEF IInv, CopiesInv, TypeOK, CRTypeOK
  <2>2. /\ o \in CRType /\ o.finalizer = TRUE /\ o.exists = cr.exists
        /\ o.deleting = cr.deleting /\ o.spec = cr.spec /\ o.ann = cr.ann
    BY <2>1 DEF CRType
  <2> HIDE DEF o
  <2>3. cr' = o
    BY <1>3, <2>2, StoreEffect DEF IInv
  <2>4. Life = "live" /\ Life' = "live" /\ cr.finalizer = FALSE /\ cr'.finalizer = TRUE
    BY <1>1, <2>1, <2>2, <2>3, OrphanType DEF Life
  <2>5. orphanDeletionRequested(cr)' = orphanDeletionRequested(cr)
    BY <2>2, <2>3 DEF orphanDeletionRequested, forceOrphanRequested
  <2>6. Doing' = Doing
    BY <1>1, <1>3 DEF Return, Doing
  <2>7. QED
    BY <1>1, <2>4, <2>5, <2>6 DEF Step, Promise!Next, Promise!Claim
<1>4. QED
  BY <1>2, <1>3 DEF AddFinalizer, Write, Results

\* The claim goes only from a current copy, so it is the stored resource that
\* asks to orphan the object, or the object is gone.
LEMMA ReleasePromise ==
    ASSUME IInv, RemoveFinalizer
    PROVE  Step
<1> DEFINE o == [obj EXCEPT !.finalizer = FALSE]
<1>1. /\ pc = "removeFinalizer" /\ mq' = mq /\ obj.finalizer /\ obj.deleting
      /\ orphanDeletionRequested(obj) \/ ~mine
  BY DEF RemoveFinalizer, IInv, WorkerInv, ReleaseInv
<1>2. mine' = (mine /\ ~(orphanDeletionRequested(obj) /\ ~cr'.finalizer))
  BY DEF RemoveFinalizer
<1>3. mine \in BOOLEAN /\ (mine => cr.finalizer)
  BY DEF IInv, TypeOK, MQTypeOK, ReleaseInv, CleanupBeforeRelease
<1>4. CASE Return("error") /\ cr' = cr
  <2>1. mine' = mine
    BY <1>2, <1>3, <1>4
  <2>2. QED
    BY <1>1, <1>4, <2>1, FailedWritePromise
<1>5. CASE current /\ Store(o) /\ \E r \in Results : Return(r)
  <2>1. obj = cr /\ cr \in CRType /\ cr.exists
    BY <1>5 DEF IInv, CopiesInv, TypeOK, CRTypeOK
  <2>2. /\ o \in CRType /\ o.finalizer = FALSE /\ o.exists = cr.exists
        /\ o.deleting = cr.deleting /\ o.spec = cr.spec /\ o.ann = cr.ann
    BY <2>1 DEF CRType
  <2> HIDE DEF o
  <2>3. cr' = o \/ cr' = NoCR
    BY <1>5, <2>2, StoreEffect DEF IInv
  <2>4. cr'.finalizer = FALSE /\ cr.finalizer = TRUE
    BY <1>1, <2>1, <2>2, <2>3, NoCRUnclaimed, OrphanType
  <2>5. mine' = FALSE
    BY <1>1, <1>2, <1>3, <2>4
  <2>6. Life = "deleting"
    BY <1>1, <2>1 DEF Life
  <2>7. \/ Life' = Life /\ orphanDeletionRequested(cr)' = orphanDeletionRequested(cr)
        \/ Life' = "none" /\ orphanDeletionRequested(cr)' = FALSE
    <3>1. CASE cr' = o
      BY <2>1, <2>2, <3>1 DEF Life, orphanDeletionRequested, forceOrphanRequested
    <3>2. CASE cr' = NoCR
      BY <3>2, NoCRUnclaimed DEF Life, orphanDeletionRequested, forceOrphanRequested
    <3>3. QED
      BY <2>3, <3>1, <3>2
  <2>8. Doing = "nothing" /\ Doing' = "nothing"
    BY <1>1, <1>5 DEF Return, Doing
  <2>9. orphanDeletionRequested(cr) \/ ~mine
    BY <1>1, <2>1
  <2>10. QED
    BY <1>1, <2>4, <2>5, <2>6, <2>7, <2>8, <2>9 DEF Step, Promise!Next, Promise!Release
<1>6. QED
  BY <1>4, <1>5 DEF RemoveFinalizer, Write, Results

\* The Deleting condition is accepted only from a current copy: it is the fence
\* after which the worker may delete.
LEMMA PatchPromise ==
    ASSUME IInv, PatchStatus
    PROVE  Step
<1> DEFINE o == patchSyncedStatus(obj)
<1>1. pc = "patch" /\ UNCHANGED <<mq, mine>> /\ Doing = "nothing"
  BY DEF PatchStatus, mqVars, Doing
<1>2. CASE Return("error") /\ cr' = cr
  BY <1>1, <1>2, FailedWritePromise
<1>3. CASE /\ current /\ Store(o)
           /\ \/ \E r \in Results : Return(r)
              \/ pc' = andThen /\ andThen \in {"delete", "removeFinalizer"}
  <2>1. obj = cr /\ cr \in CRType /\ cr.exists
    BY <1>3 DEF IInv, CopiesInv, TypeOK, CRTypeOK
  <2>2. o \in CRType /\ Alike(o, cr) /\ o.ann = cr.ann
    BY <2>1, PatchedType, PatchedFields DEF IInv, TypeOK, WorkerTypeOK
  <2> HIDE DEF o
  <2>3. cr' = o \/ (cr' = NoCR /\ cr.deleting /\ ~cr.finalizer)
    BY <1>3, <2>2, StoreEffect DEF IInv, Alike
  <2>4. CASE cr' = NoCR /\ cr.deleting /\ ~cr.finalizer
    <3>1. Doing' = "nothing"
      <4>1. andThen = "delete" => obj.finalizer
        BY <1>1 DEF IInv, PatchInv
      <4>2. QED
        BY <1>3, <2>1, <2>4, <4>1 DEF Return, Doing
    <3>2. Life # "none" /\ Life' = "none" /\ cr'.finalizer = cr.finalizer
      BY <2>1, <2>4, NoCRUnclaimed, OrphanType DEF Life
    <3>3. orphanDeletionRequested(cr)' = FALSE
      BY <2>4, NoCRUnclaimed DEF orphanDeletionRequested, forceOrphanRequested
    <3>4. QED
      BY <1>1, <2>4, <3>1, <3>2, <3>3 DEF Step, Promise!Next, Promise!Vanish
  <2>5. CASE cr' = o
    <3>1. SameClaim(cr, cr')
      BY <2>2, <2>5 DEF SameClaim, Alike, orphanDeletionRequested, forceOrphanRequested
    <3>2. CASE pc' = "delete"
      <4>1. Doing' = "delete"
        BY <3>2 DEF Doing
      <4>2. andThen = "delete"
        BY <1>3, <3>2 DEF Return
      <4>3. cr.finalizer /\ cr.deleting
        BY <1>1, <2>1, <4>2 DEF IInv, PatchInv
      <4>4. Life = "deleting" /\ Life' = Life /\ cr'.finalizer = cr.finalizer
            /\ orphanDeletionRequested(cr)' = orphanDeletionRequested(cr)
        BY <2>1, <3>1, <4>3 DEF SameClaim, Life, orphanDeletionRequested, forceOrphanRequested
      <4>5. QED
        BY <1>1, <4>1, <4>3, <4>4 DEF Step, Promise!Next, Promise!Attempt
    <3>3. CASE pc' # "delete"
      <4>1. Doing' = "nothing"
        BY <1>3, <3>3 DEF Return, Doing
      <4>2. QED
        BY <1>1, <3>1, <4>1, QuietStep
    <3>4. QED
      BY <3>2, <3>3
  <2>6. QED
    BY <2>3, <2>4, <2>5
<1>4. andThen \in Results \cup {"delete", "removeFinalizer"}
  BY DEF IInv, TypeOK, WorkerTypeOK
<1>5. QED
  BY <1>2, <1>3, <1>4 DEF PatchStatus, Write, Results

\* Writes of users and of the garbage collector: the owner declares, discards, or
\* lets go of what nobody claims.
LEMMA OwnerStep ==
    ASSUME IInv, NEW o \in CRType, OtherWrite(o), UNCHANGED mqVars,
           o.exists, o.finalizer = cr.finalizer,
           ~cr.exists => ~o.deleting,
           cr.exists /\ cr.deleting => o.deleting,
           cr.exists /\ cr.deleting # o.deleting =>
               orphanDeletionRequested(o) = orphanDeletionRequested(cr)
    PROVE  Step
<1>1. Doing' = Doing /\ UNCHANGED <<mq, mine>>
  BY DEF OtherWrite, mqVars, Doing
<1>2. cr \in CRType /\ cr' \in CRType
  BY StoreType DEF OtherWrite, IInv, TypeOK, CRTypeOK
<1>3. cr' = o \/ (cr' = NoCR /\ o.deleting /\ ~o.finalizer)
  BY StoreEffect DEF IInv, OtherWrite
<1>4. CASE cr' = NoCR /\ o.deleting /\ ~o.finalizer
  <2>1. cr.exists /\ Life # "none" /\ Life' = "none" /\ ~cr.finalizer /\ cr'.finalizer = cr.finalizer
    BY <1>2, <1>4, NoCRUnclaimed, OrphanType DEF Life
  <2>2. orphanDeletionRequested(cr)' = FALSE
    BY <1>4, NoCRUnclaimed DEF orphanDeletionRequested, forceOrphanRequested
  <2>3. QED
    BY <1>1, <2>1, <2>2 DEF Step, Promise!Next, Promise!Vanish
<1>5. CASE cr' = o
  <2>1. cr'.finalizer = cr.finalizer
    BY <1>5
  <2>2. orphanDeletionRequested(cr)' = orphanDeletionRequested(o)
        /\ orphanDeletionRequested(o) \in BOOLEAN
    BY <1>5, OrphanType DEF orphanDeletionRequested, forceOrphanRequested
  <2>3. CASE cr.exists /\ cr.deleting # o.deleting
    <3>1. Life = "live" /\ Life' = "deleting"
      BY <1>2, <1>5, <2>3, OrphanType DEF Life
    <3>2. QED
      BY <1>1, <2>1, <2>2, <2>3, <3>1 DEF Step, Promise!Next, Promise!Discard
  <2>4. CASE ~(cr.exists /\ cr.deleting # o.deleting)
    <3>1. Life' = IF Life = "none" THEN "live" ELSE Life
      BY <1>5, <2>4 DEF Life
    <3>2. QED
      BY <1>1, <2>1, <2>2, <3>1 DEF Step, Promise!Next, Promise!Declare
  <2>5. QED
    BY <2>3, <2>4
<1>6. QED
  BY <1>3, <1>4, <1>5

LEMMA SurroundingsPromise ==
    ASSUME IInv, Deliver \/ TimerFires \/ GarbageCollect \/ Environment
    PROVE  Step
<1>0. cr \in CRType /\ (cr.finalizer => cr.exists)
  BY DEF IInv, TypeOK, CRTypeOK, FinalizerInv
<1>1. CASE cr' = cr /\ UNCHANGED <<mq, mine>> /\ pc' \in {pc, "idle"}
  <2>1. Doing' \in {Doing, "nothing"}
    BY <1>1 DEF Doing
  <2>2. QED
    BY <1>1, <2>1, QuietStep DEF SameClaim, orphanDeletionRequested, forceOrphanRequested
<1>2. CASE Deliver \/ TimerFires \/ RequestReconcile \/ Restart
  BY <1>1, <1>2 DEF Deliver, TimerFires, RequestReconcile, Restart, crVars, workerVars, mqVars
<1>3. CASE GarbageCollect
  <2> DEFINE o == [cr EXCEPT !.gc = FALSE]
  <2>1. /\ o \in CRType /\ o.exists = cr.exists /\ o.finalizer = cr.finalizer
        /\ o.deleting = cr.deleting
    BY <1>0 DEF CRType
  <2>2. QED
    BY <1>3, <2>1, OwnerStep DEF GarbageCollect
<1>4. ASSUME NEW s \in Specs, NEW a \in Annotations, CreateCR(s, a) PROVE Step
  <2> DEFINE o == [NoCR EXCEPT !.exists = TRUE, !.spec = s, !.ann = a]
  <2>1. o \in CRType
    BY NoCRType, WrittenType, UserAssumption
  <2>2. o.exists = TRUE /\ o.finalizer = FALSE /\ o.deleting = FALSE
    BY DEF NoCR
  <2>3. ~cr.exists /\ cr.finalizer = FALSE
    BY <1>0, <1>4, OrphanType DEF CreateCR
  <2>4. OtherWrite(o) /\ UNCHANGED mqVars
    BY <1>4 DEF CreateCR
  <2> HIDE DEF o
  <2>5. QED
    BY <2>1, <2>2, <2>3, <2>4, OwnerStep
<1>5. ASSUME NEW s \in Specs, EditSpec(s) PROVE Step
  <2> DEFINE o == [cr EXCEPT !.spec = s, !.atGen = FALSE]
  <2>1. o \in CRType
    BY <1>0, WrittenType, UserAssumption
  <2>2. o.exists = cr.exists /\ o.finalizer = cr.finalizer /\ o.deleting = cr.deleting
    BY <1>0 DEF CRType
  <2>3. QED
    BY <1>5, <2>1, <2>2, OwnerStep DEF EditSpec
<1>6. ASSUME NEW a \in Annotations, Annotate(a) PROVE Step
  <2> DEFINE o == [cr EXCEPT !.ann = a]
  <2>1. o \in CRType
    BY <1>0, WrittenType, UserAssumption
  <2>2. o.exists = cr.exists /\ o.finalizer = cr.finalizer /\ o.deleting = cr.deleting
    BY <1>0 DEF CRType
  <2>3. QED
    BY <1>6, <2>1, <2>2, OwnerStep DEF Annotate
<1>7. ASSUME NEW foreground \in Foregrounds, DeleteCR(foreground) PROVE Step
  <2> DEFINE o == [cr EXCEPT !.deleting = TRUE, !.gc = foreground, !.atGen = FALSE]
  <2>1. o \in CRType
    BY <1>0, WrittenType, UserAssumption
  <2>2. /\ o.exists = cr.exists /\ o.finalizer = cr.finalizer /\ o.deleting = TRUE
        /\ o.spec = cr.spec /\ o.ann = cr.ann
    BY <1>0 DEF CRType
  <2>3. orphanDeletionRequested(o) = orphanDeletionRequested(cr)
    BY <2>2 DEF orphanDeletionRequested, forceOrphanRequested
  <2>4. QED
    BY <1>7, <2>1, <2>2, <2>3, OwnerStep DEF DeleteCR
<1>8. ASSUME NEW v \in Foreign, OutOfBand(v) PROVE Step
  <2>1. /\ Life' = Life /\ cr'.finalizer = cr.finalizer /\ Doing' = Doing
        /\ orphanDeletionRequested(cr)' = orphanDeletionRequested(cr)
    BY <1>8 DEF OutOfBand, crVars, workerVars, Life, Doing, orphanDeletionRequested,
       forceOrphanRequested
  <2>2. mq' = v /\ mine' = (mine /\ v # NoObject)
    BY <1>8 DEF OutOfBand
  <2>3. QED
    BY <2>1, <2>2 DEF Step, Promise!Next, Promise!Meddle
<1>9. ASSUME NEW c \in Conns, NEW edited \in BOOLEAN, NEW listed \in BOOLEAN,
             ConnectionChange(c, edited, listed)
      PROVE  Step
  BY <1>1, <1>9 DEF ConnectionChange, crVars, workerVars, mqVars
<1>10. ASSUME NEW m \in Mqwebs, MqwebChange(m) PROVE Step
  BY <1>1, <1>10 DEF MqwebChange, crVars, workerVars, mqVars
<1>11. ASSUME NEW a \in Apis, ApiChange(a) PROVE Step
  BY <1>1, <1>11 DEF ApiChange, crVars, workerVars, mqVars
<1>12. QED
  BY <1>2, <1>3, <1>4, <1>5, <1>6, <1>7, <1>8, <1>9, <1>10, <1>11 DEF Environment

-----------------------------------------------------------------------------
(***************************************************************************)
(* The fence holds                                                         *)
(***************************************************************************)

\* Users and the garbage collector leave the finalizer and the deletion mark.
LEMMA OwnerFence ==
    ASSUME IInv, FenceInv, Deliver \/ TimerFires \/ GarbageCollect \/ Environment
    PROVE  FenceInv'
<1>0. cr \in CRType
  BY DEF IInv, TypeOK, CRTypeOK
<1>1. CASE pc' = "idle"
  BY <1>1 DEF FenceInv
<1>2. ASSUME UNCHANGED <<pc, obj>>,
             cr.exists /\ cr.finalizer /\ cr.deleting =>
                 cr'.exists /\ cr'.finalizer /\ cr'.deleting
      PROVE  FenceInv'
  BY <1>2 DEF FenceInv
<1>3. ASSUME NEW o \in CRType, OtherWrite(o), o.exists = cr.exists,
             o.finalizer = cr.finalizer, o.deleting = cr.deleting \/ o.deleting
      PROVE  FenceInv'
  <2>1. cr' = o \/ ~o.finalizer
    BY <1>3, StoreEffect DEF IInv, OtherWrite
  <2>2. QED
    BY <1>2, <1>3, <2>1 DEF OtherWrite
<1>4. CASE GarbageCollect
  <2> DEFINE o == [cr EXCEPT !.gc = FALSE]
  <2>1. /\ o \in CRType /\ o.exists = cr.exists /\ o.finalizer = cr.finalizer
        /\ o.deleting = cr.deleting
    BY <1>0 DEF CRType
  <2>2. QED
    BY <1>3, <1>4, <2>1 DEF GarbageCollect
<1>5. ASSUME NEW s \in Specs, NEW a \in Annotations, CreateCR(s, a) PROVE FenceInv'
  BY <1>2, <1>5 DEF CreateCR, OtherWrite
<1>6. ASSUME NEW s \in Specs, EditSpec(s) PROVE FenceInv'
  <2> DEFINE o == [cr EXCEPT !.spec = s, !.atGen = FALSE]
  <2>1. o \in CRType
    BY <1>0, WrittenType, UserAssumption
  <2>2. o.exists = cr.exists /\ o.finalizer = cr.finalizer /\ o.deleting = cr.deleting
    BY <1>0 DEF CRType
  <2>3. QED
    BY <1>3, <1>6, <2>1, <2>2 DEF EditSpec
<1>7. ASSUME NEW a \in Annotations, Annotate(a) PROVE FenceInv'
  <2> DEFINE o == [cr EXCEPT !.ann = a]
  <2>1. o \in CRType
    BY <1>0, WrittenType, UserAssumption
  <2>2. o.exists = cr.exists /\ o.finalizer = cr.finalizer /\ o.deleting = cr.deleting
    BY <1>0 DEF CRType
  <2>3. QED
    BY <1>3, <1>7, <2>1, <2>2 DEF Annotate
<1>8. ASSUME NEW foreground \in Foregrounds, DeleteCR(foreground) PROVE FenceInv'
  <2> DEFINE o == [cr EXCEPT !.deleting = TRUE, !.gc = foreground, !.atGen = FALSE]
  <2>1. o \in CRType
    BY <1>0, WrittenType, UserAssumption
  <2>2. o.exists = cr.exists /\ o.finalizer = cr.finalizer /\ o.deleting = TRUE
    BY <1>0 DEF CRType
  <2>3. QED
    BY <1>3, <1>8, <2>1, <2>2 DEF DeleteCR
<1>9. CASE cr' = cr /\ (UNCHANGED <<pc, obj>> \/ pc' = "idle")
  BY <1>1, <1>2, <1>9
<1>10. \/ cr' = cr /\ (UNCHANGED <<pc, obj>> \/ pc' = "idle")
       \/ GarbageCollect
       \/ \E s \in Specs, a \in Annotations : CreateCR(s, a)
       \/ \E s \in Specs : EditSpec(s)
       \/ \E a \in Annotations : Annotate(a)
       \/ \E foreground \in Foregrounds : DeleteCR(foreground)
  BY DEF Environment, Deliver, TimerFires, RequestReconcile, OutOfBand, ConnectionChange,
     MqwebChange, ApiChange, Restart, crVars, workerVars
<1>11. QED
  BY <1>4, <1>5, <1>6, <1>7, <1>8, <1>9, <1>10

LEMMA WorkerFence ==
    ASSUME IInv, FenceInv, Worker
    PROVE  FenceInv'
<1>1. CASE pc' \notin {"delete", "addFinalizer"}
  BY <1>1 DEF FenceInv
<1>2. CASE ResolveConnection /\ pc' = "addFinalizer"
  BY <1>2 DEF ResolveConnection, deletionAwaitingConnection, setSyncedError, Goto, GotoPatch,
     FenceInv
<1>3. CASE PatchStatus /\ pc' = "delete"
  <2>1. current /\ Store(patchSyncedStatus(obj)) /\ andThen = "delete"
    BY <1>3 DEF PatchStatus, Write, Return
  <2>2. obj = cr /\ cr \in CRType /\ cr.exists /\ cr.finalizer /\ cr.deleting
    BY <1>3, <2>1 DEF PatchStatus, IInv, CopiesInv, PatchInv, TypeOK, CRTypeOK
  <2>3. patchSyncedStatus(obj) \in CRType /\ Alike(patchSyncedStatus(obj), cr)
    BY <2>2, PatchedType, PatchedFields DEF IInv, TypeOK, WorkerTypeOK
  <2>4. cr' = patchSyncedStatus(obj)
    BY <2>1, <2>2, <2>3, StoreEffect DEF IInv, Alike
  <2>5. QED
    BY <1>3, <2>2, <2>3, <2>4 DEF FenceInv, Alike
<1>4. \/ pc' \notin {"delete", "addFinalizer"}
      \/ ResolveConnection /\ pc' = "addFinalizer"
      \/ PatchStatus /\ pc' = "delete"
  <2>1. CASE Reconcile \/ AddFinalizer \/ RemoveFinalizer
    BY <2>1 DEF Reconcile, Return, reconcileWorkloadSuspended, reconcileWorkloadDeletion,
       AddFinalizer, RemoveFinalizer, Write
  <2>2. CASE ResolveConnection
    BY <2>2 DEF ResolveConnection, deletionAwaitingConnection, setSyncedError, Goto, GotoPatch
  <2>3. CASE ObserveMQ \/ DefineMQ \/ handleDeletion
    BY <2>3 DEF ObserveMQ, DefineMQ, handleDeletion, setSyncedError, Goto, GotoPatch
  <2>4. CASE PatchStatus
    BY <2>4 DEF PatchStatus, Write, Return, IInv, TypeOK, WorkerTypeOK, Results
  <2>5. QED
    BY <2>1, <2>2, <2>3, <2>4 DEF Worker
<1>5. QED
  BY <1>1, <1>2, <1>3, <1>4

-----------------------------------------------------------------------------
\* WorkloadReconcile implements ManagedObject: for every kind and every mix of
\* faults, stale copies and restarts, each step of the reconcilers is a step the
\* promise allows, or one it does not see.
THEOREM PromiseKept == Spec => KeepsPromise
<1>1. Init => Promise!Init
  BY NoCRUnclaimed DEF Init, Promise!Init, Life, Doing
<1>2. Init => FenceInv
  BY DEF Init, FenceInv
<1>3. IInv /\ FenceInv /\ [Next]_vars => FenceInv'
  <2> SUFFICES ASSUME IInv, FenceInv, [Next]_vars PROVE FenceInv'
    OBVIOUS
  <2>1. CASE Next
    BY <2>1, WorkerFence, OwnerFence DEF Next
  <2>2. CASE UNCHANGED vars
    BY <2>2 DEF vars, crVars, workerVars, FenceInv
  <2>3. QED
    BY <2>1, <2>2
<1>4. IInv /\ FenceInv /\ [Next]_vars => [Promise!Next]_(Promise!vars)
  <2> SUFFICES ASSUME IInv, FenceInv, [Next]_vars PROVE Step
    BY DEF Step
  <2>1. CASE Next
    BY <2>1, PlanningStep, ObservePromise, DefinePromise, DeletePromise, ClaimPromise,
       ReleasePromise, PatchPromise, SurroundingsPromise DEF Next, Worker
  <2>2. CASE UNCHANGED vars
    <3>1. cr' = cr /\ UNCHANGED <<mq, mine>> /\ pc' = pc
      BY <2>2 DEF vars, crVars, workerVars, mqVars
    <3>2. QED
      BY <3>1, QuietStep DEF Doing, SameClaim, orphanDeletionRequested, forceOrphanRequested
  <2>3. QED
    BY <2>1, <2>2
<1>5. QED
  BY <1>1, <1>2, <1>3, <1>4, Inductive, PTL DEF Spec, KeepsPromise, Promise!Spec

=============================================================================
