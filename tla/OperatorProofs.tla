--------------------------- MODULE OperatorProofs ---------------------------
(***************************************************************************)
(* Proofs about the composed operator, for any number of resources.        *)
(***************************************************************************)
EXTENDS Operator, TLAPS

\* A create that is validated names a resource that is not there.  While it is
\* clean, so is its connection; while a delete of the connection is clean,
\* there is no resource.
RequestInv ==
    \A q \in requests :
        /\ q.obj # "qmc" => cr[q.obj].life = "none" /\ (q.clean => qmc.life = "live")
        /\ (q.obj = "qmc" /\ q.clean) => \A c \in Resources : cr[c].life = "none"

\* A validated request is the only one for what it names.
RequestsUnique == \A p, q \in requests : p.obj = q.obj => p = q

AdmissionInv == TypeOK /\ RequestInv /\ RequestsUnique /\ ConnectionOutlivesDependents

\* A resource that is gone has no finalizer, and a fresh copy is the resource.
CacheInv ==
    \A c \in Resources :
        /\ cr[c].finalizer => cr[c].life # "none"
        /\ fresh[c] => cached[c] = cr[c]

\* What a reconcile may rely on: a copy that calls for a DEFINE, and the DEFINE
\* itself, are of a resource that still has its finalizer; the finalizer is
\* removed only by a reconcile whose copy is being deleted.
FinalizerInv ==
    \A c \in Resources :
        /\ (cached[c].life = "live" /\ cached[c].finalizer) => cr[c].finalizer
        /\ w[c].pc = "ensure" => cr[c].finalizer
        /\ (w[c].pc \in {"delete", "release"} /\ w[c].current) =>
              cached[c].life = "deleting" /\ cr[c].life = "deleting"

\* An object has the values of a resource that has a finalizer and has not
\* sent its DELETE.
OwnerInv ==
    ~lateDefine => \A c \in Resources :
        mq[MQName(c)] = c => cr[c].finalizer /\ w[c].pc # "release"

\* An object has the values of a resource that names it.
NamesInv ==
    /\ \A n \in MQNames : mq[n] # NoObject => MQName(mq[n]) = n
    /\ \A e \in late : e.value # NoObject => MQName(e.value) = e.obj

CleanupInv == CacheInv /\ FinalizerInv /\ OwnerInv /\ NamesInv

OrphanInv == AdmissionInv /\ CleanupInv
-----------------------------------------------------------------------------
(***************************************************************************)
(* Type correctness                                                        *)
(***************************************************************************)

LEMMA TypeInit == Init => TypeOK
<1> SUFFICES ASSUME Init PROVE TypeOK
  OBVIOUS
<1>1. None \in ResourceType
  BY DEF None, ResourceType
<1>2. Idle \in [pc : {"idle", "ensure", "patch", "delete", "release"},
               current : BOOLEAN, seen : Resources \cup {NoObject}]
  BY DEF Idle
<1> QED
  BY <1>1, <1>2, Zenon DEF Init, TypeOK, NoConnection

LEMMA UpdateType ==
  ASSUME TypeOK, NEW c \in Resources, NEW current \in BOOLEAN, NEW new \in ResourceType,
         Update(c, current, new)
  PROVE  /\ cr' \in [Resources -> ResourceType]
         /\ cached' \in [Resources -> ResourceType]
         /\ fresh' \in [Resources -> BOOLEAN]
BY DEF TypeOK, Update

LEMMA StoreType ==
  ASSUME TypeOK, NEW c \in Resources, NEW new \in ResourceType, Store(c, new)
  PROVE  /\ cr' \in [Resources -> ResourceType]
         /\ cached' \in [Resources -> ResourceType]
         /\ fresh' \in [Resources -> BOOLEAN]
         /\ w' \in [Resources -> [pc : {"idle", "ensure", "patch", "delete", "release"},
                                 current : BOOLEAN, seen : Resources \cup {NoObject}]]
BY ZenonT(30) DEF TypeOK, Store

\* The records that are written.
LEMMA WrittenType ==
  ASSUME TypeOK, NEW c \in Resources
  PROVE  /\ \A b \in BOOLEAN : [cr[c] EXCEPT !.synced = b] \in ResourceType
         /\ [cr[c] EXCEPT !.finalizer = TRUE] \in ResourceType
         /\ [cr[c] EXCEPT !.life = "deleting"] \in ResourceType
         /\ None \in ResourceType
         /\ [None EXCEPT !.life = "live"] \in ResourceType
         /\ fresh[c] \in BOOLEAN /\ w[c].current \in BOOLEAN
<1>1. cr[c] \in ResourceType
  BY DEF TypeOK
<1>2. /\ \A b \in BOOLEAN : [cr[c] EXCEPT !.synced = b] \in ResourceType
      /\ [cr[c] EXCEPT !.finalizer = TRUE] \in ResourceType
      /\ [cr[c] EXCEPT !.life = "deleting"] \in ResourceType
  BY <1>1, Zenon DEF ResourceType
<1>3. None \in ResourceType /\ [None EXCEPT !.life = "live"] \in ResourceType
  BY Zenon DEF ResourceType, None
<1>4. fresh[c] \in BOOLEAN /\ w[c].current \in BOOLEAN
  BY DEF TypeOK
<1> QED
  BY <1>2, <1>3, <1>4

LEMMA OverlappedType ==
  ASSUME NEW q, requests \subseteq [obj : Resources \cup {"qmc"}, clean : BOOLEAN]
  PROVE  Overlapped(q) \subseteq [obj : Resources \cup {"qmc"}, clean : BOOLEAN]
<1> SUFFICES ASSUME NEW p \in requests \ {q}
             PROVE  [p EXCEPT !.clean = @ /\ (p.obj = "qmc") = (q.obj = "qmc")]
                        \in [obj : Resources \cup {"qmc"}, clean : BOOLEAN]
  BY DEF Overlapped
<1>1. p \in [obj : Resources \cup {"qmc"}, clean : BOOLEAN]
  OBVIOUS
<1>2. (p.clean /\ (p.obj = "qmc") = (q.obj = "qmc")) \in BOOLEAN
  OBVIOUS
<1> QED
  BY <1>1, <1>2, Zenon

LEMMA TypeStep == TypeOK /\ [Next]_vars => TypeOK'
<1> SUFFICES ASSUME TypeOK, [Next]_vars PROVE TypeOK'
  OBVIOUS
<1>1. ASSUME NEW c \in Resources, awaitConnection(c) PROVE TypeOK'
  BY <1>1, UpdateType, WrittenType, Zenon DEF TypeOK, api, history, awaitConnection, Copy
<1>2. ASSUME NEW c \in Resources, AddFinalizer(c) PROVE TypeOK'
  BY <1>2, UpdateType, WrittenType, ZenonT(30) DEF TypeOK, api, history, AddFinalizer, Copy
<1>3. ASSUME NEW c \in Resources, Get(c) PROVE TypeOK'
  BY <1>3 DEF TypeOK, api, history, Get, Copy, MQName, MQNames
<1>4. ASSUME NEW c \in Resources, ensure(c) PROVE TypeOK'
  BY <1>4 DEF TypeOK, api, history, ensure, MQName, MQNames
<1>5. ASSUME NEW c \in Resources, patchSyncedAvailable(c) PROVE TypeOK'
  BY <1>5, UpdateType, WrittenType, Zenon DEF TypeOK, api, history, patchSyncedAvailable, Idle
<1>6. ASSUME NEW c \in Resources, patchSyncedDeleting(c) PROVE TypeOK'
  BY <1>6, UpdateType, WrittenType, ZenonT(30) DEF TypeOK, api, history, patchSyncedDeleting, Idle, Copy
<1>7. ASSUME NEW c \in Resources, Delete(c) PROVE TypeOK'
  BY <1>7 DEF TypeOK, api, history, Delete, MQName, MQNames
<1>8. ASSUME NEW c \in Resources, RemoveFinalizer(c) PROVE TypeOK'
  BY <1>8, UpdateType, WrittenType, Zenon DEF TypeOK, api, history, RemoveFinalizer, Idle
<1>9. ASSUME NEW c \in Resources, CacheSync(c) PROVE TypeOK'
  BY <1>9 DEF TypeOK, api, history, CacheSync
<1>10. ASSUME NEW c \in Resources, ValidateCreate(c) PROVE TypeOK'
  <2>1. [obj |-> c, clean |-> TRUE] \in [obj : Resources \cup {"qmc"}, clean : BOOLEAN]
    OBVIOUS
  <2> QED
    BY <1>10, <2>1, Zenon DEF TypeOK, api, history, ValidateCreate
<1>11. ASSUME NEW c \in Resources, DeleteCR(c) PROVE TypeOK'
  BY <1>11, StoreType, WrittenType, Zenon DEF TypeOK, api, history, DeleteCR
<1>12. ASSUME NEW c \in Resources, TimedOut(c) PROVE TypeOK'
  <2>1. /\ cr' \in [Resources -> ResourceType]
        /\ cached' \in [Resources -> ResourceType]
        /\ fresh' \in [Resources -> BOOLEAN]
    BY <1>12, UpdateType, WrittenType, Zenon DEF TimedOut
  <2> DEFINE effect == [obj |-> MQName(c), value |-> IF w[c].pc = "delete" THEN NoObject ELSE c]
  <2>2. effect \in [obj : MQNames, value : Resources \cup {NoObject}]
    BY DEF MQName, MQNames
  <2>3. \/ UNCHANGED <<mq, late>>
        \/ mq' = [mq EXCEPT ![effect.obj] = effect.value] /\ UNCHANGED late
        \/ late' = late \cup {effect} /\ UNCHANGED mq
    BY <1>12 DEF TimedOut
  <2> HIDE DEF effect
  <2>4. mq' \in [MQNames -> Resources \cup {NoObject}]
        /\ late' \subseteq [obj : MQNames, value : Resources \cup {NoObject}]
    BY <2>2, <2>3 DEF TypeOK
  <2> QED
    BY <1>12, <2>1, <2>4, Zenon DEF TypeOK, history, TimedOut, Fault, Idle
<1>13. CASE CreateConnection
  BY <1>13, Zenon DEF TypeOK, api, history, CreateConnection, NoConnection
<1>14. CASE ConnectionReady
  BY <1>14, Zenon DEF TypeOK, api, history, ConnectionReady
<1>15. CASE ReleaseConnection
  BY <1>15 DEF TypeOK, api, history, ReleaseConnection, NoConnection
<1>16. CASE ConnectionFails
  BY <1>16, Zenon DEF TypeOK, api, history, ConnectionFails, Fault
<1>17. CASE Restart
  BY <1>17 DEF TypeOK, api, history, Restart, Fault, Idle
<1>18. CASE ValidateDelete
  <2> DEFINE upToDate == \A c \in Resources : cr[c].life = "none"
  <2>1. [obj |-> "qmc", clean |-> upToDate] \in [obj : Resources \cup {"qmc"}, clean : BOOLEAN]
    <3> upToDate \in BOOLEAN
      OBVIOUS
    <3> HIDE DEF upToDate
    <3> QED
      OBVIOUS
  <2>2. requests' = requests \cup {[obj |-> "qmc", clean |-> upToDate]}
    BY <1>18 DEF ValidateDelete
  <2> HIDE DEF upToDate
  <2>3. requests' \subseteq [obj : Resources \cup {"qmc"}, clean : BOOLEAN]
    BY <2>1, <2>2 DEF TypeOK
  <2> QED
    BY <1>18, <2>3 DEF TypeOK, history, ValidateDelete
<1>19. ASSUME NEW q \in requests, StoreCreate(q) PROVE TypeOK'
  BY <1>19, OverlappedType, StoreType, WrittenType, Zenon DEF TypeOK, api, history, StoreCreate
<1>20. ASSUME NEW q \in requests, StoreDelete(q) PROVE TypeOK'
  BY <1>20, OverlappedType DEF TypeOK, api, history, StoreDelete, NoConnection
<1>21. ASSUME NEW e \in late, CarriedOut(e) PROVE TypeOK'
  BY <1>21 DEF TypeOK, api, history, CarriedOut
<1>22. CASE UNCHANGED vars
  BY <1>22 DEF TypeOK, api, history, vars
<1> QED
  BY <1>1, <1>2, <1>3, <1>4, <1>5, <1>6, <1>7, <1>8, <1>9, <1>10, <1>11, <1>12, <1>13, <1>14,
     <1>15, <1>16, <1>17, <1>18, <1>19, <1>20, <1>21, <1>22
     DEF Next, System, Worker

\* Every variable of the composed operator keeps its type, whatever the
\* resources and however admission, reconciles and faults interleave.
THEOREM OperatorTypeCorrect == Spec => []TypeOK
<1>1. Init => TypeOK
  BY TypeInit
<1>2. TypeOK /\ [Next]_vars => TypeOK'
  BY TypeStep
<1> QED
  BY <1>1, <1>2, PTL DEF Spec

-----------------------------------------------------------------------------
(***************************************************************************)
(* Admission                                                               *)
(***************************************************************************)

LEMMA AdmissionInit == Init => AdmissionInv
BY TypeInit DEF Init, AdmissionInv, RequestInv, RequestsUnique, ConnectionOutlivesDependents, None

\* A step that neither creates a resource nor touches the connection's life or
\* the validated requests.
LEMMA NothingAdmitted ==
  ASSUME AdmissionInv, TypeOK', qmc'.life = qmc.life, requests' = requests, raced' = raced,
         \A d \in Resources : cr[d].life = "none" => cr'[d].life = "none"
  PROVE  AdmissionInv'
<1>1. RequestInv'
  BY DEF AdmissionInv, RequestInv, TypeOK
<1>2. RequestsUnique'
  BY DEF AdmissionInv, RequestsUnique
<1>3. ConnectionOutlivesDependents'
  BY DEF AdmissionInv, ConnectionOutlivesDependents
<1> QED
  BY <1>1, <1>2, <1>3 DEF AdmissionInv

LEMMA UpdateCreatesNothing ==
  ASSUME TypeOK, NEW c \in Resources, NEW current, NEW new, Update(c, current, new),
         new.life \in {cr[c].life, "none"}
  PROVE  \A d \in Resources : cr[d].life = "none" => cr'[d].life = "none"
BY DEF Update, TypeOK

LEMMA WorkerAdmission ==
  ASSUME AdmissionInv, TypeOK', NEW c \in Resources, Worker(c) \/ TimedOut(c)
  PROVE  AdmissionInv'
<1>1. TypeOK /\ cr[c] \in ResourceType
  BY DEF AdmissionInv, TypeOK
<1>2. /\ \A b \in BOOLEAN : [cr[c] EXCEPT !.synced = b].life = cr[c].life
      /\ [cr[c] EXCEPT !.finalizer = TRUE].life = cr[c].life
      /\ None.life = "none"
  BY <1>1 DEF ResourceType, None
<1>3. \A d \in Resources : cr[d].life = "none" => cr'[d].life = "none"
  <2>1. CASE Get(c) \/ ensure(c) \/ Delete(c)
    BY <2>1 DEF Get, ensure, Delete, api
  <2>2. CASE awaitConnection(c) \/ patchSyncedAvailable(c) \/ patchSyncedDeleting(c) \/ TimedOut(c)
    BY <2>2, <1>1, <1>2, UpdateCreatesNothing, Zenon
       DEF awaitConnection, patchSyncedAvailable, patchSyncedDeleting, TimedOut
  <2>3. CASE AddFinalizer(c) \/ RemoveFinalizer(c)
    BY <2>3, <1>1, <1>2, UpdateCreatesNothing, Zenon DEF AddFinalizer, RemoveFinalizer
  <2> QED
    BY <2>1, <2>2, <2>3 DEF Worker
<1>4. qmc' = qmc /\ requests' = requests /\ raced' = raced
  BY DEF Worker, TimedOut, awaitConnection, AddFinalizer, Get, ensure, patchSyncedAvailable,
         patchSyncedDeleting, Delete, RemoveFinalizer, api, history
<1> QED
  BY <1>3, <1>4, NothingAdmitted

\* What Overlapped leaves of the requests.
LEMMA OverlappedRequests ==
  ASSUME TypeOK, NEW q \in requests, NEW p \in Overlapped(q)
  PROVE  \E o \in requests \ {q} :
            /\ p.obj = o.obj /\ p.clean \in BOOLEAN /\ (p.clean => o.clean)
            /\ p = [o EXCEPT !.clean = @ /\ (o.obj = "qmc") = (q.obj = "qmc")]
            /\ p.clean => (p.obj = "qmc") = (q.obj = "qmc")
<1> PICK o \in requests \ {q} :
        p = [o EXCEPT !.clean = @ /\ (o.obj = "qmc") = (q.obj = "qmc")]
  BY DEF Overlapped
<1>1. o \in [obj : Resources \cup {"qmc"}, clean : BOOLEAN]
  BY DEF TypeOK
<1>2. p.obj = o.obj /\ p.clean = (o.clean /\ (o.obj = "qmc") = (q.obj = "qmc"))
  BY <1>1
<1> QED
  BY <1>1, <1>2, Zenon

LEMMA CreateAdmission ==
  ASSUME AdmissionInv, TypeOK', NEW q \in requests, StoreCreate(q)
  PROVE  AdmissionInv'
<1> DEFINE c == q.obj
<1>0. TypeOK /\ RequestInv /\ RequestsUnique /\ ConnectionOutlivesDependents
  BY DEF AdmissionInv
<1>1. c \in Resources /\ c # "qmc" /\ q.clean \in BOOLEAN
  BY <1>0 DEF TypeOK, StoreCreate
<1>2. /\ qmc' = qmc /\ requests' = Overlapped(q)
      /\ cr' = [cr EXCEPT ![c] = [None EXCEPT !.life = "live"]]
  BY DEF StoreCreate, Store
<1>3. q.clean => qmc.life = "live"
  BY <1>0, <1>1 DEF RequestInv
<1>4. ConnectionOutlivesDependents'
  BY <1>0, <1>2, <1>3, Zenon DEF StoreCreate, ConnectionOutlivesDependents
<1>5. RequestsUnique'
  BY <1>0, <1>2, OverlappedRequests DEF RequestsUnique
<1>6. RequestInv'
  <2> SUFFICES ASSUME NEW p \in Overlapped(q)
               PROVE  /\ p.obj # "qmc" => cr'[p.obj].life = "none" /\ (p.clean => qmc.life = "live")
                      /\ ~(p.obj = "qmc" /\ p.clean)
    BY <1>2 DEF RequestInv
  <2> PICK o \in requests \ {q} :
          /\ p.obj = o.obj /\ p.clean \in BOOLEAN /\ (p.clean => o.clean)
          /\ p.clean => (p.obj = "qmc") = (q.obj = "qmc")
    BY <1>0, OverlappedRequests
  <2>1. o.obj # c
    BY <1>0 DEF RequestsUnique
  <2>2. o.obj \in Resources \cup {"qmc"}
    BY <1>0 DEF TypeOK
  <2> QED
    BY <1>0, <1>1, <1>2, <2>1, <2>2 DEF RequestInv, TypeOK
<1> QED
  BY <1>4, <1>5, <1>6 DEF AdmissionInv

LEMMA DeleteAdmission ==
  ASSUME AdmissionInv, TypeOK', NEW q \in requests, StoreDelete(q)
  PROVE  AdmissionInv'
<1>0. TypeOK /\ RequestInv /\ RequestsUnique /\ ConnectionOutlivesDependents
  BY DEF AdmissionInv
<1>1. q.obj = "qmc" /\ cr' = cr /\ requests' = Overlapped(q) /\ q.clean \in BOOLEAN
  BY <1>0 DEF TypeOK, StoreDelete
<1>2. q.clean => \A c \in Resources : cr[c].life = "none"
  BY <1>0, <1>1 DEF RequestInv
<1>3. ConnectionOutlivesDependents'
  BY <1>0, <1>1, <1>2, Zenon DEF StoreDelete, ConnectionOutlivesDependents
<1>4. RequestsUnique'
  BY <1>0, <1>1, OverlappedRequests DEF RequestsUnique
<1>5. RequestInv'
  <2> SUFFICES ASSUME NEW p \in Overlapped(q)
               PROVE  /\ p.obj # "qmc" => cr[p.obj].life = "none" /\ ~p.clean
                      /\ p.obj # "qmc"
    BY <1>1 DEF RequestInv
  <2> PICK o \in requests \ {q} :
          /\ p.obj = o.obj /\ p.clean \in BOOLEAN
          /\ p.clean => (p.obj = "qmc") = (q.obj = "qmc")
    BY <1>0, OverlappedRequests
  <2> QED
    BY <1>0, <1>1 DEF RequestInv, RequestsUnique
<1> QED
  BY <1>3, <1>4, <1>5 DEF AdmissionInv

LEMMA AdmissionStep == AdmissionInv /\ [Next]_vars => AdmissionInv'
<1> SUFFICES ASSUME AdmissionInv, [Next]_vars PROVE AdmissionInv'
  OBVIOUS
<1>0. TypeOK /\ TypeOK'
  BY TypeStep DEF AdmissionInv
<1>1. ASSUME NEW c \in Resources, Worker(c) \/ TimedOut(c) PROVE AdmissionInv'
  BY <1>0, <1>1, WorkerAdmission
<1>2. ASSUME NEW c \in Resources, CacheSync(c) PROVE AdmissionInv'
  BY <1>0, <1>2, NothingAdmitted DEF CacheSync, history
<1>3. ASSUME NEW c \in Resources, DeleteCR(c) PROVE AdmissionInv'
  BY <1>0, <1>3, NothingAdmitted DEF DeleteCR, Store, history, TypeOK
<1>4. ASSUME NEW c \in Resources, ValidateCreate(c) PROVE AdmissionInv'
  <2>1. /\ requests' = requests \cup {[obj |-> c, clean |-> TRUE]}
        /\ cr' = cr /\ qmc' = qmc /\ raced' = raced
        /\ cr[c].life = "none" /\ qmc.life = "live" /\ \A q \in requests : q.obj # c
    BY <1>4 DEF ValidateCreate, ValidateSpec, ValidateConnectionRef, history
  <2>2. RequestInv'
    BY <2>1, PlansAssumption DEF AdmissionInv, RequestInv
  <2>3. RequestsUnique'
    <3> DEFINE new == [obj |-> c, clean |-> TRUE]
    <3>1. new.obj = c /\ requests' = requests \cup {new}
      BY <2>1
    <3> HIDE DEF new
    <3> QED
      BY <2>1, <3>1 DEF AdmissionInv, RequestsUnique
  <2>4. ConnectionOutlivesDependents'
    BY <2>1 DEF AdmissionInv, ConnectionOutlivesDependents
  <2> QED
    BY <1>0, <2>2, <2>3, <2>4 DEF AdmissionInv
<1>5. CASE ValidateDelete
  <2> DEFINE upToDate == \A c \in Resources : cr[c].life = "none"
  <2>1. /\ requests' = requests \cup {[obj |-> "qmc", clean |-> upToDate]}
        /\ cr' = cr /\ qmc' = qmc /\ raced' = raced
        /\ \A q \in requests : q.obj # "qmc"
    BY <1>5 DEF ValidateDelete, history
  <2>2. RequestInv'
    <3> SUFFICES ASSUME NEW q \in requests'
                 PROVE  /\ q.obj # "qmc" => cr[q.obj].life = "none" /\ (q.clean => qmc.life = "live")
                        /\ (q.obj = "qmc" /\ q.clean) => upToDate
      BY <2>1 DEF RequestInv
    <3>1. CASE q \in requests
      BY <3>1 DEF AdmissionInv, RequestInv
    <3>2. CASE q = [obj |-> "qmc", clean |-> upToDate]
      <4> HIDE DEF upToDate
      <4> QED
        BY <3>2
    <3> QED
      BY <2>1, <3>1, <3>2
  <2>3. RequestsUnique'
    <3> HIDE DEF upToDate
    <3> QED
      BY <2>1 DEF AdmissionInv, RequestsUnique
  <2>4. ConnectionOutlivesDependents'
    BY <2>1 DEF AdmissionInv, ConnectionOutlivesDependents
  <2> QED
    BY <1>0, <2>2, <2>3, <2>4 DEF AdmissionInv
<1>6. CASE CreateConnection
  <2>1. requests' = requests /\ cr' = cr /\ raced' = raced /\ qmc'.life = "live"
    BY <1>6 DEF CreateConnection, NoConnection, history
  <2>2. RequestInv' /\ RequestsUnique' /\ ConnectionOutlivesDependents'
    BY <2>1 DEF AdmissionInv, RequestInv, RequestsUnique, ConnectionOutlivesDependents
  <2> QED
    BY <1>0, <2>2 DEF AdmissionInv
<1>7. CASE ReleaseConnection
  <2>1. requests' = requests /\ cr' = cr /\ raced' = raced /\ qmc.life = "deleting"
    BY <1>7 DEF ReleaseConnection, history
  <2>2. RequestInv' /\ RequestsUnique' /\ ConnectionOutlivesDependents'
    BY <2>1 DEF AdmissionInv, RequestInv, RequestsUnique, ConnectionOutlivesDependents
  <2> QED
    BY <1>0, <2>2 DEF AdmissionInv
<1>8. CASE ConnectionReady \/ ConnectionFails
  BY <1>0, <1>8, NothingAdmitted, Zenon DEF ConnectionReady, ConnectionFails, history, TypeOK
<1>9. CASE Restart
  BY <1>0, <1>9, NothingAdmitted DEF Restart, history
<1>10. ASSUME NEW e \in late, CarriedOut(e) PROVE AdmissionInv'
  BY <1>0, <1>10, NothingAdmitted DEF CarriedOut, api
<1>11. ASSUME NEW q \in requests, StoreCreate(q) PROVE AdmissionInv'
  BY <1>0, <1>11, CreateAdmission
<1>12. ASSUME NEW q \in requests, StoreDelete(q) PROVE AdmissionInv'
  BY <1>0, <1>12, DeleteAdmission
<1>13. CASE UNCHANGED vars
  BY <1>0, <1>13, NothingAdmitted DEF vars, api, history
<1> QED
  BY <1>1, <1>2, <1>3, <1>4, <1>5, <1>6, <1>7, <1>8, <1>9, <1>10, <1>11, <1>12, <1>13
     DEF Next, System

\* The webhooks of ValidateCreate and ValidateDelete keep a connection for as
\* long as a resource refers to it, for any number of resources, unless a
\* create and a delete of the connection overlap or the cache that lists the
\* dependents is outdated.
THEOREM ConnectionHeld == Spec => []ConnectionOutlivesDependents
<1>1. Init => AdmissionInv
  BY AdmissionInit
<1>2. AdmissionInv /\ [Next]_vars => AdmissionInv'
  BY AdmissionStep
<1>3. AdmissionInv => ConnectionOutlivesDependents
  BY DEF AdmissionInv
<1> QED
  BY <1>1, <1>2, <1>3, PTL DEF Spec

-----------------------------------------------------------------------------
(***************************************************************************)
(* Cleanup                                                                 *)
(***************************************************************************)

LEMMA CleanupInit == Init => CleanupInv
BY PlansAssumption
   DEF Init, CleanupInv, CacheInv, FinalizerInv, OwnerInv, NamesInv, None, Idle, MQName, MQNames

LEMMA CleanupAwaitConnection ==
  ASSUME OrphanInv, TypeOK', NEW c \in Resources, awaitConnection(c)
  PROVE  CleanupInv'
<1>0. TypeOK /\ CacheInv /\ FinalizerInv /\ OwnerInv /\ NamesInv
  BY DEF OrphanInv, AdmissionInv, CleanupInv
<1>1. CacheInv'
  BY <1>0 DEF CacheInv, TypeOK, ResourceType, awaitConnection, Update, Copy, None
<1>2. FinalizerInv'
  BY <1>0 DEF CacheInv, FinalizerInv, TypeOK, ResourceType, awaitConnection, Update, Copy, None
<1>3. OwnerInv'
  BY <1>0, PlansAssumption DEF CacheInv, FinalizerInv, OwnerInv, TypeOK, ResourceType, history,
     awaitConnection, Update, Copy, None, MQName, MQNames
<1>4. NamesInv'
  BY <1>0, PlansAssumption DEF NamesInv, TypeOK, awaitConnection, Update, Copy, None, MQName,
     MQNames
<1> QED
  BY <1>1, <1>2, <1>3, <1>4 DEF CleanupInv

LEMMA CleanupAddFinalizer ==
  ASSUME OrphanInv, TypeOK', NEW c \in Resources, AddFinalizer(c)
  PROVE  CleanupInv'
<1>0. TypeOK /\ CacheInv /\ FinalizerInv /\ OwnerInv /\ NamesInv
  BY DEF OrphanInv, AdmissionInv, CleanupInv
<1>1. CacheInv'
  BY <1>0 DEF CacheInv, TypeOK, ResourceType, AddFinalizer, Update, Copy, None
<1>2. FinalizerInv'
  BY <1>0 DEF CacheInv, FinalizerInv, TypeOK, ResourceType, AddFinalizer, Update, Copy, None
<1>3. OwnerInv'
  BY <1>0, PlansAssumption DEF CacheInv, FinalizerInv, OwnerInv, TypeOK, ResourceType, history,
     AddFinalizer, Update, Copy, None, MQName, MQNames
<1>4. NamesInv'
  BY <1>0, PlansAssumption DEF NamesInv, TypeOK, AddFinalizer, Update, Copy, None, MQName, MQNames
<1> QED
  BY <1>1, <1>2, <1>3, <1>4 DEF CleanupInv

LEMMA CleanupGet ==
  ASSUME OrphanInv, TypeOK', NEW c \in Resources, Get(c)
  PROVE  CleanupInv'
<1>0. TypeOK /\ CacheInv /\ FinalizerInv /\ OwnerInv /\ NamesInv
  BY DEF OrphanInv, AdmissionInv, CleanupInv
<1>1. CacheInv'
  BY <1>0 DEF CacheInv, TypeOK, ResourceType, Get, Copy, None, api
<1>2. FinalizerInv'
  BY <1>0 DEF CacheInv, FinalizerInv, TypeOK, ResourceType, Get, Copy, None, api
<1>3. OwnerInv'
  BY <1>0, PlansAssumption DEF CacheInv, FinalizerInv, OwnerInv, TypeOK, ResourceType, history,
     Get, Copy, None, api, MQName, MQNames
<1>4. NamesInv'
  BY <1>0, PlansAssumption DEF NamesInv, TypeOK, Get, Copy, None, api, MQName, MQNames
<1> QED
  BY <1>1, <1>2, <1>3, <1>4 DEF CleanupInv

LEMMA CleanupEnsure ==
  ASSUME OrphanInv, TypeOK', NEW c \in Resources, ensure(c)
  PROVE  CleanupInv'
<1>0. TypeOK /\ CacheInv /\ FinalizerInv /\ OwnerInv /\ NamesInv
  BY DEF OrphanInv, AdmissionInv, CleanupInv
<1>1. CacheInv'
  BY <1>0 DEF CacheInv, TypeOK, ResourceType, ensure, api
<1>2. FinalizerInv'
  BY <1>0 DEF CacheInv, FinalizerInv, TypeOK, ResourceType, ensure, api
<1>3. OwnerInv'
  BY <1>0, PlansAssumption DEF CacheInv, FinalizerInv, OwnerInv, TypeOK, ResourceType, history,
     ensure, api, MQName, MQNames
<1>4. NamesInv'
  BY <1>0, PlansAssumption DEF NamesInv, TypeOK, ensure, api, MQName, MQNames
<1> QED
  BY <1>1, <1>2, <1>3, <1>4 DEF CleanupInv

LEMMA CleanupPatchSyncedAvailable ==
  ASSUME OrphanInv, TypeOK', NEW c \in Resources, patchSyncedAvailable(c)
  PROVE  CleanupInv'
<1>0. TypeOK /\ CacheInv /\ FinalizerInv /\ OwnerInv /\ NamesInv
  BY DEF OrphanInv, AdmissionInv, CleanupInv
<1>1. CacheInv'
  BY <1>0 DEF CacheInv, TypeOK, ResourceType, patchSyncedAvailable, Update, Idle
<1>2. FinalizerInv'
  BY <1>0 DEF CacheInv, FinalizerInv, TypeOK, ResourceType, patchSyncedAvailable, Update, Idle
<1>3. OwnerInv'
  BY <1>0, PlansAssumption DEF CacheInv, FinalizerInv, OwnerInv, TypeOK, ResourceType, history,
     patchSyncedAvailable, Update, Idle, MQName, MQNames
<1>4. NamesInv'
  BY <1>0, PlansAssumption DEF NamesInv, TypeOK, patchSyncedAvailable, Update, Idle, MQName, MQNames
<1> QED
  BY <1>1, <1>2, <1>3, <1>4 DEF CleanupInv

LEMMA CleanupPatchSyncedDeleting ==
  ASSUME OrphanInv, TypeOK', NEW c \in Resources, patchSyncedDeleting(c)
  PROVE  CleanupInv'
<1>0. TypeOK /\ CacheInv /\ FinalizerInv /\ OwnerInv /\ NamesInv
  BY DEF OrphanInv, AdmissionInv, CleanupInv
<1>1. CacheInv'
  BY <1>0 DEF CacheInv, TypeOK, ResourceType, patchSyncedDeleting, Update, Idle, Copy, None
<1>2. FinalizerInv'
  BY <1>0 DEF CacheInv, FinalizerInv, TypeOK, ResourceType, patchSyncedDeleting, Update, Idle,
     Copy, None
<1>3. OwnerInv'
  BY <1>0, PlansAssumption DEF CacheInv, FinalizerInv, OwnerInv, TypeOK, ResourceType, history,
     patchSyncedDeleting, Update, Idle, Copy, None, MQName, MQNames
<1>4. NamesInv'
  BY <1>0, PlansAssumption DEF NamesInv, TypeOK, patchSyncedDeleting, Update, Idle, Copy, None,
     MQName, MQNames
<1> QED
  BY <1>1, <1>2, <1>3, <1>4 DEF CleanupInv

LEMMA CleanupDelete ==
  ASSUME OrphanInv, TypeOK', NEW c \in Resources, Delete(c)
  PROVE  CleanupInv'
<1>0. TypeOK /\ CacheInv /\ FinalizerInv /\ OwnerInv /\ NamesInv
  BY DEF OrphanInv, AdmissionInv, CleanupInv
<1>1. CacheInv'
  BY <1>0 DEF CacheInv, TypeOK, ResourceType, Delete, api
<1>2. FinalizerInv'
  BY <1>0 DEF CacheInv, FinalizerInv, TypeOK, ResourceType, Delete, api
<1>3. OwnerInv'
  BY <1>0, PlansAssumption DEF CacheInv, FinalizerInv, OwnerInv, TypeOK, ResourceType, history,
     Delete, api, MQName, MQNames
<1>4. NamesInv'
  BY <1>0, PlansAssumption DEF NamesInv, TypeOK, Delete, api, MQName, MQNames
<1> QED
  BY <1>1, <1>2, <1>3, <1>4 DEF CleanupInv

LEMMA CleanupRemoveFinalizer ==
  ASSUME OrphanInv, TypeOK', NEW c \in Resources, RemoveFinalizer(c)
  PROVE  CleanupInv'
<1>0. TypeOK /\ CacheInv /\ FinalizerInv /\ OwnerInv /\ NamesInv
  BY DEF OrphanInv, AdmissionInv, CleanupInv
<1>1. CacheInv'
  BY <1>0 DEF CacheInv, TypeOK, ResourceType, RemoveFinalizer, Update, None, Idle
<1>2. FinalizerInv'
  BY <1>0 DEF CacheInv, FinalizerInv, TypeOK, ResourceType, RemoveFinalizer, Update, None, Idle
<1>3. OwnerInv'
  BY <1>0, PlansAssumption DEF CacheInv, FinalizerInv, OwnerInv, TypeOK, ResourceType, history,
     RemoveFinalizer, Update, None, Idle, MQName, MQNames
<1>4. NamesInv'
  BY <1>0, PlansAssumption DEF NamesInv, TypeOK, RemoveFinalizer, Update, None, Idle, MQName,
     MQNames
<1> QED
  BY <1>1, <1>2, <1>3, <1>4 DEF CleanupInv

LEMMA CleanupTimedOut ==
  ASSUME OrphanInv, TypeOK', NEW c \in Resources, TimedOut(c)
  PROVE  CleanupInv'
<1>0. TypeOK /\ CacheInv /\ FinalizerInv /\ OwnerInv /\ NamesInv
  BY DEF OrphanInv, AdmissionInv, CleanupInv
<1>1. CacheInv'
  BY <1>0 DEF CacheInv, TypeOK, ResourceType, TimedOut, Fault, Update, Idle
<1>2. FinalizerInv'
  BY <1>0 DEF CacheInv, FinalizerInv, TypeOK, ResourceType, TimedOut, Fault, Update, Idle
<1>3. OwnerInv'
  BY <1>0, PlansAssumption DEF CacheInv, FinalizerInv, OwnerInv, TypeOK, ResourceType, history,
     TimedOut, Fault, Update, Idle, MQName, MQNames
<1>4. NamesInv'
  BY <1>0, PlansAssumption DEF NamesInv, TypeOK, TimedOut, Fault, Update, Idle, MQName, MQNames
<1> QED
  BY <1>1, <1>2, <1>3, <1>4 DEF CleanupInv

LEMMA CleanupCacheSync ==
  ASSUME OrphanInv, TypeOK', NEW c \in Resources, CacheSync(c)
  PROVE  CleanupInv'
<1>0. TypeOK /\ CacheInv /\ FinalizerInv /\ OwnerInv /\ NamesInv
  BY DEF OrphanInv, AdmissionInv, CleanupInv
<1>1. CacheInv'
  BY <1>0 DEF CacheInv, TypeOK, ResourceType, CacheSync
<1>2. FinalizerInv'
  BY <1>0 DEF CacheInv, FinalizerInv, TypeOK, ResourceType, CacheSync
<1>3. OwnerInv'
  BY <1>0, PlansAssumption DEF CacheInv, FinalizerInv, OwnerInv, TypeOK, ResourceType, history,
     CacheSync, MQName, MQNames
<1>4. NamesInv'
  BY <1>0, PlansAssumption DEF NamesInv, TypeOK, CacheSync, MQName, MQNames
<1> QED
  BY <1>1, <1>2, <1>3, <1>4 DEF CleanupInv

LEMMA CleanupDeleteCR ==
  ASSUME OrphanInv, TypeOK', NEW c \in Resources, DeleteCR(c)
  PROVE  CleanupInv'
<1>0. TypeOK /\ CacheInv /\ FinalizerInv /\ OwnerInv /\ NamesInv
  BY DEF OrphanInv, AdmissionInv, CleanupInv
<1>1. CacheInv'
  BY <1>0 DEF CacheInv, TypeOK, ResourceType, DeleteCR, Store, None
<1>2. FinalizerInv'
  BY <1>0 DEF CacheInv, FinalizerInv, TypeOK, ResourceType, DeleteCR, Store, None
<1>3. OwnerInv'
  BY <1>0, PlansAssumption DEF CacheInv, FinalizerInv, OwnerInv, TypeOK, ResourceType, history,
     DeleteCR, Store, None, MQName, MQNames
<1>4. NamesInv'
  BY <1>0, PlansAssumption DEF NamesInv, TypeOK, DeleteCR, Store, None, MQName, MQNames
<1> QED
  BY <1>1, <1>2, <1>3, <1>4 DEF CleanupInv

LEMMA CleanupStoreCreate ==
  ASSUME OrphanInv, TypeOK', NEW q \in requests, StoreCreate(q)
  PROVE  CleanupInv'
<1>0. TypeOK /\ RequestInv /\ CacheInv /\ FinalizerInv /\ OwnerInv /\ NamesInv
  BY DEF OrphanInv, AdmissionInv, CleanupInv
<1>1. CacheInv'
  BY <1>0 DEF CacheInv, RequestInv, TypeOK, ResourceType, StoreCreate, Store, None
<1>2. FinalizerInv'
  BY <1>0 DEF CacheInv, RequestInv, FinalizerInv, TypeOK, ResourceType, StoreCreate, Store, None
<1>3. OwnerInv'
  BY <1>0, PlansAssumption DEF CacheInv, RequestInv, FinalizerInv, OwnerInv, TypeOK,
     ResourceType, history, StoreCreate, Store, None, MQName, MQNames
<1>4. NamesInv'
  BY <1>0, PlansAssumption DEF NamesInv, TypeOK, StoreCreate, Store, None, MQName, MQNames
<1> QED
  BY <1>1, <1>2, <1>3, <1>4 DEF CleanupInv

LEMMA CleanupCarriedOut ==
  ASSUME OrphanInv, TypeOK', NEW e \in late, CarriedOut(e)
  PROVE  CleanupInv'
<1>0. TypeOK /\ CacheInv /\ FinalizerInv /\ OwnerInv /\ NamesInv
  BY DEF OrphanInv, AdmissionInv, CleanupInv
<1>1. CacheInv' /\ FinalizerInv'
  BY <1>0 DEF CacheInv, FinalizerInv, CarriedOut, api
<1>2. ASSUME e.value # NoObject PROVE OwnerInv'
  <2>1. lateDefine'
    BY <1>2, Zenon DEF CarriedOut
  <2> QED
    BY <2>1 DEF OwnerInv
<1>3. ASSUME e.value = NoObject PROVE OwnerInv'
  <2>1. cr' = cr /\ w' = w /\ (lateDefine' => lateDefine) /\ (lateDefine => lateDefine')
    BY <1>3, Zenon DEF CarriedOut, api
  <2>2. \A n \in MQNames : mq'[n] = mq[n] \/ mq'[n] = NoObject
    BY <1>0, <1>3 DEF CarriedOut, TypeOK
  <2> QED
    BY <1>0, <2>1, <2>2, PlansAssumption DEF OwnerInv, MQName, MQNames
<1>4. NamesInv'
  BY <1>0 DEF NamesInv, TypeOK, CarriedOut
<1> QED
  BY <1>1, <1>2, <1>3, <1>4 DEF CleanupInv

LEMMA CleanupRestart ==
  ASSUME OrphanInv, TypeOK', Restart
  PROVE  CleanupInv'
<1>0. TypeOK /\ CacheInv /\ FinalizerInv /\ OwnerInv /\ NamesInv
  BY DEF OrphanInv, AdmissionInv, CleanupInv
<1>1. CacheInv' /\ FinalizerInv'
  BY <1>0 DEF CacheInv, FinalizerInv, TypeOK, Restart, Idle
<1>2. OwnerInv' /\ NamesInv'
  BY <1>0 DEF OwnerInv, NamesInv, Restart, Idle, history
<1> QED
  BY <1>1, <1>2 DEF CleanupInv

\* Steps of the connection and of requests only.
LEMMA CleanupElsewhere ==
  ASSUME CleanupInv, UNCHANGED <<cr, cached, fresh, w, mq, late, lateDefine>>
  PROVE  CleanupInv'
BY DEF CleanupInv, CacheInv, FinalizerInv, OwnerInv, NamesInv

LEMMA OrphanStep == OrphanInv /\ [Next]_vars => OrphanInv'
<1> SUFFICES ASSUME OrphanInv, [Next]_vars PROVE OrphanInv'
  OBVIOUS
<1>0. AdmissionInv' /\ TypeOK' /\ CleanupInv
  BY AdmissionStep DEF OrphanInv, AdmissionInv
<1> SUFFICES CleanupInv'
  BY <1>0 DEF OrphanInv
<1>1. ASSUME NEW c \in Resources, Worker(c) PROVE CleanupInv'
  BY <1>0, <1>1, CleanupAwaitConnection, CleanupAddFinalizer, CleanupGet, CleanupEnsure,
     CleanupPatchSyncedAvailable, CleanupPatchSyncedDeleting, CleanupDelete,
     CleanupRemoveFinalizer DEF Worker
<1>2. ASSUME NEW c \in Resources, CacheSync(c) \/ DeleteCR(c) \/ TimedOut(c) PROVE CleanupInv'
  BY <1>0, <1>2, CleanupCacheSync, CleanupDeleteCR, CleanupTimedOut
<1>3. ASSUME NEW q \in requests, StoreCreate(q) PROVE CleanupInv'
  BY <1>0, <1>3, CleanupStoreCreate
<1>4. ASSUME NEW e \in late, CarriedOut(e) PROVE CleanupInv'
  BY <1>0, <1>4, CleanupCarriedOut
<1>5. CASE Restart
  BY <1>0, <1>5, CleanupRestart
<1>6. ASSUME NEW c \in Resources, ValidateCreate(c) PROVE CleanupInv'
  BY <1>0, <1>6, CleanupElsewhere DEF ValidateCreate, history
<1>7. ASSUME NEW q \in requests, StoreDelete(q) PROVE CleanupInv'
  BY <1>0, <1>7, CleanupElsewhere DEF StoreDelete
<1>8. CASE CreateConnection \/ ConnectionReady \/ ReleaseConnection
  BY <1>0, <1>8, CleanupElsewhere DEF CreateConnection, ConnectionReady, ReleaseConnection, history
<1>9. CASE ConnectionFails \/ ValidateDelete
  BY <1>0, <1>9, CleanupElsewhere DEF ConnectionFails, ValidateDelete, history
<1>10. CASE UNCHANGED vars
  BY <1>0, <1>10, CleanupElsewhere DEF vars, api, history
<1> QED
  BY <1>1, <1>2, <1>3, <1>4, <1>5, <1>6, <1>7, <1>8, <1>9, <1>10 DEF Next, System

\* handleDeletion and the finalizer: when the last of any number of resources
\* that name an MQ object is gone, so is the object, unless mqweb carried out a
\* DEFINE after its time-out.
THEOREM NothingOrphaned == Spec => []NoOrphanObject
<1>1. Init => OrphanInv
  BY AdmissionInit, CleanupInit DEF OrphanInv
<1>2. OrphanInv /\ [Next]_vars => OrphanInv'
  BY OrphanStep
<1>3. OrphanInv => NoOrphanObject
  <2> SUFFICES ASSUME OrphanInv, NEW n \in MQNames, ~lateDefine,
                      \A c \in Resources : MQName(c) = n => cr[c].life = "none",
                      mq[n] # NoObject
               PROVE  FALSE
    BY DEF NoOrphanObject
  <2>1. mq[n] \in Resources /\ MQName(mq[n]) = n
    BY DEF OrphanInv, AdmissionInv, CleanupInv, NamesInv, TypeOK
  <2> QED
    BY <2>1 DEF OrphanInv, CleanupInv, OwnerInv, CacheInv
<1> QED
  BY <1>1, <1>2, <1>3, PTL DEF Spec
=============================================================================
