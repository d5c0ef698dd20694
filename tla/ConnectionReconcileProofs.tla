---------------------- MODULE ConnectionReconcileProofs ----------------------
(***************************************************************************)
(* Proofs about ConnectionReconcile, for any bound on the generations and  *)
(* any behaviour of the Secret, mqweb and the API server.                  *)
(***************************************************************************)
EXTENDS ConnectionReconcile, TLAPS

\* The stored connection: nothing is observed before it exists, and a deleting
\* one has its finalizer.
ObjectInv ==
    /\ qmc.observedGeneration <= qmc.generation
    /\ qmc.exists /\ qmc.deleting => qmc.finalizer

\* The worker's copy is the stored connection until somebody else writes; then
\* the connection is not ready at its generation and a reconcile is to come.
CopyInv ==
    /\ current => pc # "idle" /\ conn = qmc
    /\ pc # "idle" /\ ~current => ~alreadyReady(qmc)
    /\ pc # "idle" /\ ~current /\ qmc.exists => event \/ queued

\* What the worker found out on its way.
PathInv ==
    /\ pc = "addFinalizer" => ~conn.finalizer
    /\ pc = "removeFinalizer" => conn.deleting
    /\ pc = "progressing" => ~conn.deleting
    /\ pc = "available" /\ current => pinged = conn.generation

ConnInv ==
    TypeOK /\ ObjectInv /\ CopyInv /\ PathInv /\ ReadyMeansPinged /\ NeverStuck

\* An object that the worker may write without breaking what is known of it.
Fits(o) ==
    /\ o \in QMCType
    /\ o.observedGeneration <= o.generation
    /\ o.exists /\ alreadyReady(o) => pinged = o.generation

\* What the API server stores of such an object is a connection, or none.
LEMMA StoredFits ==
    ASSUME NEW o, Fits(o)
    PROVE  /\ Stored(o) \in QMCType
           /\ Stored(o).observedGeneration <= Stored(o).generation
           /\ Stored(o).exists /\ Stored(o).deleting => Stored(o).finalizer
           /\ Stored(o).exists /\ alreadyReady(Stored(o)) => pinged = Stored(o).generation
<1>1. CASE Stored(o) = NoQMC
  <2>1. NoQMC \in QMCType
    BY DEF NoQMC, QMCType
  <2>2. ~NoQMC.exists /\ NoQMC.observedGeneration = 0 /\ NoQMC.generation = 0
    BY DEF NoQMC
  <2>3. QED
    BY <1>1, <2>1, <2>2
<1>2. CASE Stored(o) = o /\ ~(o.deleting /\ ~o.finalizer)
  BY <1>2 DEF Fits, QMCType
<1>3. QED
  BY <1>1, <1>2 DEF Stored

\* The end of a reconcile, with or without a write, keeps the invariant when
\* the reconcile asks to be called again or leaves nothing to do.
LEMMA ReturnInv ==
    ASSUME ConnInv, NEW o, NEW result, Fits(o), Return(result),
           \/ UNCHANGED <<qmc, event>>
           \/ Store(o) /\ UNCHANGED pinged,
           pinged' \in Nat,
           qmc.exists /\ alreadyReady(qmc) => pinged' \in {pinged, qmc.generation},
           UNCHANGED <<secret, secretEvent, envVars>>,
           queued' \in BOOLEAN, woken' \in BOOLEAN,
           result = "done" /\ qmc'.exists => event' \/ queued' \/ alreadyReady(qmc')
    PROVE  ConnInv'
<1>0. TypeOK /\ ObjectInv /\ ReadyMeansPinged
  BY DEF ConnInv
<1>1. /\ qmc' \in QMCType /\ event' \in BOOLEAN
      /\ qmc'.observedGeneration <= qmc'.generation
      /\ qmc'.exists /\ qmc'.deleting => qmc'.finalizer
      /\ qmc'.exists /\ alreadyReady(qmc') => pinged' = qmc'.generation
  <2>1. CASE UNCHANGED <<qmc, event>>
    BY <1>0, <2>1 DEF TypeOK, ObjectInv, ReadyMeansPinged, alreadyReady
  <2>2. CASE Store(o) /\ UNCHANGED pinged
    BY <2>2, StoredFits DEF Store, TypeOK
  <2>3. QED
    BY <2>1, <2>2
<1>2. TypeOK'
  <2>1. conn' \in QMCType
    BY DEF Return, NoQMC, QMCType
  <2>2. timer' \in BOOLEAN /\ delayed' \in BOOLEAN /\ current' \in BOOLEAN
    BY Zenon DEF Return
  <2>3. QED
    BY <1>0, <1>1, <2>1, <2>2 DEF TypeOK, Return, envVars, WorkerStates, SecretStates
<1>3. ObjectInv'
  BY <1>1 DEF ObjectInv
<1>4. ReadyMeansPinged'
  BY <1>1 DEF ReadyMeansPinged, alreadyReady
<1>5. CopyInv' /\ PathInv'
  BY DEF Return, CopyInv, PathInv
<1>6. NeverStuck'
  <2>1. CASE result = "done"
    BY <2>1 DEF NeverStuck, alreadyReady
  <2>2. CASE result # "done"
    BY <2>2, Zenon DEF NeverStuck, Return
  <2>3. QED
    BY <2>1, <2>2
<1>7. QED
  BY <1>2, <1>3, <1>4, <1>5, <1>6 DEF ConnInv

\* What is stored now fits, and so does any object that the worker makes of its
\* copy, as long as the copy is current: the conditions it sets, and the
\* observed generation after a ping.
LEMMA CopyFits ==
    ASSUME ConnInv
    PROVE  /\ Fits(qmc)
           /\ current => conn = qmc /\ Fits(conn)
           /\ current => Fits([conn EXCEPT !.finalizer = FALSE])
           /\ current => Fits([conn EXCEPT !.finalizer = TRUE])
           /\ current => Fits(setCondition(conn, "Progressing"))
           /\ current => Fits(setCondition(conn, "Error"))
           /\ current /\ pc = "available" =>
                Fits([setCondition(conn, "Available") EXCEPT !.observedGeneration = conn.generation])
<1>1. Fits(qmc)
  BY DEF ConnInv, TypeOK, ObjectInv, ReadyMeansPinged, Fits
<1>2. current => conn = qmc
  BY DEF ConnInv, CopyInv
<1>3. current => Fits(conn)
  BY <1>1, <1>2
<1>4. current => Fits([conn EXCEPT !.finalizer = FALSE]) /\ Fits([conn EXCEPT !.finalizer = TRUE])
  BY <1>3 DEF Fits, QMCType, alreadyReady
<1>5. current => Fits(setCondition(conn, "Progressing")) /\ Fits(setCondition(conn, "Error"))
  BY <1>3 DEF Fits, QMCType, alreadyReady, setCondition
<1>6. current /\ pc = "available" =>
          Fits([setCondition(conn, "Available") EXCEPT !.observedGeneration = conn.generation])
  <2>1. current /\ pc = "available" => pinged = conn.generation
    BY DEF ConnInv, PathInv
  <2> SUFFICES ASSUME current, pc = "available"
               PROVE  Fits([setCondition(conn, "Available")
                               EXCEPT !.observedGeneration = conn.generation])
    OBVIOUS
  <2> DEFINE o == [setCondition(conn, "Available")
                      EXCEPT !.observedGeneration = conn.generation]
  <2>2. conn \in QMCType /\ conn.generation \in Nat
    BY <1>3 DEF Fits, QMCType
  <2>3. o \in QMCType
    BY <2>2 DEF setCondition, QMCType
  <2>4. o.generation = conn.generation /\ o.observedGeneration = conn.generation
    BY <2>2 DEF setCondition, QMCType
  <2>5. QED
    BY <2>1, <2>2, <2>3, <2>4 DEF Fits
<1>7. QED
  BY <1>1, <1>2, <1>3, <1>4, <1>5, <1>6

\* A write that fails, landed or not, keeps the invariant: the error makes the
\* work queue add the request again.
LEMMA WriteFailsInv ==
    ASSUME ConnInv, NEW o, Return("error"),
           UNCHANGED <<qmc, event>> \/ (Fits(o) /\ Store(o)),
           UNCHANGED <<secret, secretEvent, queued, envVars, pinged, woken>>
    PROVE  ConnInv'
<1>1. Fits(qmc) /\ queued \in BOOLEAN /\ woken \in BOOLEAN /\ pinged \in Nat
  BY CopyFits DEF ConnInv, TypeOK
<1>2. CASE UNCHANGED <<qmc, event>>
  BY <1>1, <1>2, ReturnInv
<1>3. CASE Fits(o) /\ Store(o)
  BY <1>1, <1>3, ReturnInv
<1>4. QED
  BY <1>2, <1>3

\* Reconcile: the request is taken and the connection read.
LEMMA ReconcileInv ==
    ASSUME ConnInv, Reconcile
    PROVE  ConnInv'
<1>0. TypeOK /\ ObjectInv /\ CopyInv /\ PathInv /\ ReadyMeansPinged /\ Fits(qmc)
  BY CopyFits DEF ConnInv
<1>1. CASE api = "down" \/ reconcile(qmc) \in {"done", "error"}
  <2>1. reconcile(qmc) = "done" => ~qmc.exists
    BY <1>0 DEF reconcile, reconcileDeletion, ObjectInv, alreadyReady
  <2>2. woken' = FALSE /\ queued' = FALSE /\ UNCHANGED <<qmc, event, secret, secretEvent, envVars, pinged>>
    BY DEF Reconcile, objectVars
  <2>3. PICK result : Return(result) /\ (result = "done" => ~qmc.exists)
    BY <1>1, <2>1 DEF Reconcile
  <2>4. QED
    BY <1>0, <2>2, <2>3, ReturnInv, Zenon DEF TypeOK
<1>2. CASE ~(api = "down" \/ reconcile(qmc) \in {"done", "error"})
  <2>1. /\ pc' = reconcile(qmc) /\ conn' = qmc /\ current' = TRUE
        /\ queued' = FALSE /\ woken' = FALSE
        /\ UNCHANGED <<client, err, timer, delayed, qmc, event, secret, secretEvent,
                       mqweb, api, pinged>>
    BY <1>2 DEF Reconcile, objectVars, envVars
  <2>2. /\ pc' \in {"removeFinalizer", "addFinalizer", "forConnection", "progressing"}
        /\ pc' = "addFinalizer" => ~qmc.finalizer
        /\ pc' = "removeFinalizer" => qmc.deleting
        /\ pc' = "progressing" => ~qmc.deleting
    BY <1>2, <2>1 DEF reconcile, reconcileDeletion
  <2>3. TypeOK'
    BY <1>0, <2>1, <2>2, Zenon DEF TypeOK, WorkerStates
  <2>4. ObjectInv' /\ ReadyMeansPinged'
    BY <1>0, <2>1 DEF ObjectInv, ReadyMeansPinged, alreadyReady
  <2>5. CopyInv' /\ PathInv' /\ NeverStuck'
    BY <2>1, <2>2 DEF CopyInv, PathInv, NeverStuck
  <2>6. QED
    BY <2>3, <2>4, <2>5 DEF ConnInv
<1>3. QED
  BY <1>1, <1>2

\* The finalizer updates: adding it brings the request back, removing it ends
\* the connection.
LEMMA FinalizerInv ==
    ASSUME ConnInv, AddFinalizer \/ RemoveFinalizer
    PROVE  ConnInv'
<1>0. TypeOK /\ CopyInv /\ PathInv
  BY DEF ConnInv
<1>1. UNCHANGED <<secret, secretEvent, queued, envVars, pinged, woken>>
  BY DEF AddFinalizer, RemoveFinalizer
<1>2. CASE AddFinalizer
  <2> DEFINE o == [conn EXCEPT !.finalizer = TRUE]
  <2>1. current => Fits(o) /\ conn = qmc
    BY CopyFits
  <2>2. CASE Return("error") /\ (UNCHANGED <<qmc, event>> \/ (current /\ Store(o)))
    BY <1>1, <2>1, <2>2, WriteFailsInv
  <2>3. CASE current /\ Store(o) /\ Return("done")
    <3>1. conn = qmc /\ ~qmc.finalizer /\ o.finalizer
      BY <1>0, <1>2, <2>1, <2>3 DEF AddFinalizer, PathInv, TypeOK, QMCType
    <3>2. event'
      BY <2>3, <3>1, Zenon DEF Store, Stored
    <3>3. QED
      BY <1>0, <1>1, <2>1, <2>3, <3>2, ReturnInv, Zenon DEF TypeOK
  <2>4. QED
    BY <1>2, <2>2, <2>3 DEF AddFinalizer, Write
<1>3. CASE RemoveFinalizer
  <2> DEFINE o == [conn EXCEPT !.finalizer = FALSE]
  <2>1. current => Fits(o) /\ conn = qmc
    BY CopyFits
  <2>2. CASE Return("error") /\ (UNCHANGED <<qmc, event>> \/ (current /\ Store(o)))
    BY <1>1, <2>1, <2>2, WriteFailsInv
  <2>3. CASE current /\ Store(o) /\ Return("done")
    <3>1. o.deleting /\ ~o.finalizer
      BY <1>0, <1>3 DEF RemoveFinalizer, PathInv, TypeOK, QMCType
    <3>2. ~qmc'.exists
      BY <2>3, <3>1 DEF Store, Stored, NoQMC
    <3>3. QED
      BY <1>0, <1>1, <2>1, <2>3, <3>2, ReturnInv DEF TypeOK
  <2>4. QED
    BY <1>3, <2>2, <2>3 DEF RemoveFinalizer, Write
<1>4. QED
  BY <1>2, <1>3

\* A step inside a reconcile that writes nothing.
LEMMA InsideInv ==
    ASSUME ConnInv, pc # "idle",
           pc' \in {"forConnection", "ping", "fail", "available"},
           UNCHANGED <<qmc, event, secret, secretEvent, queued, timer, conn, current,
                       envVars, delayed, woken>>,
           client' \in SecretStates, err' \in {"none", "transient", "other"},
           \/ pc' # "available" /\ UNCHANGED pinged
           \/ pinged' = conn.generation
    PROVE  ConnInv'
<1>0. TypeOK /\ ObjectInv /\ CopyInv /\ ReadyMeansPinged /\ conn.generation \in Nat
  BY DEF ConnInv, TypeOK, QMCType
<1>1. TypeOK'
  BY <1>0 DEF TypeOK, WorkerStates, envVars
<1>2. ObjectInv' /\ CopyInv' /\ PathInv'
  BY <1>0 DEF ObjectInv, CopyInv, PathInv, alreadyReady
<1>3. ReadyMeansPinged'
  BY <1>0 DEF ReadyMeansPinged, CopyInv, alreadyReady
<1>4. NeverStuck'
  BY DEF NeverStuck
<1>5. QED
  BY <1>1, <1>2, <1>3, <1>4 DEF ConnInv

\* MarkProgressing: the copy stays current, and not ready.
LEMMA ProgressingInv ==
    ASSUME ConnInv, MarkProgressing
    PROVE  ConnInv'
<1> DEFINE o == setCondition(conn, "Progressing")
<1>0. /\ TypeOK /\ CopyInv /\ PathInv
      /\ current => conn = qmc /\ Fits(o)
      /\ UNCHANGED <<secret, secretEvent, queued, envVars, pinged, woken>>
  BY CopyFits DEF ConnInv, MarkProgressing
<1>1. CASE Return("error") /\ (UNCHANGED <<qmc, event>> \/ (current /\ Store(o)))
  BY <1>0, <1>1, WriteFailsInv
<1>2. CASE /\ current /\ Store(o) /\ pc' = "forConnection" /\ conn' = o
           /\ UNCHANGED <<current, client, err, timer, delayed>>
  <2>1. conn = qmc /\ Fits(o) /\ ~conn.deleting
    BY <1>0, <1>2 DEF MarkProgressing, PathInv
  <2>2. o.deleting = conn.deleting /\ o.condReason = "Progressing"
    BY <1>0 DEF setCondition, TypeOK, QMCType
  <2>3. qmc' = o /\ event' \in BOOLEAN
    BY <1>0, <1>2, <2>1, <2>2 DEF Store, Stored, TypeOK
  <2>4. TypeOK'
    BY <1>0, <1>2, <2>1, <2>3 DEF TypeOK, Fits, WorkerStates, envVars
  <2>5. ObjectInv' /\ ReadyMeansPinged'
    BY <2>1, <2>2, <2>3 DEF ObjectInv, ReadyMeansPinged, Fits, alreadyReady
  <2>6. CopyInv' /\ PathInv' /\ NeverStuck'
    BY <1>0, <1>2, <2>3 DEF CopyInv, PathInv, NeverStuck
  <2>7. QED
    BY <2>4, <2>5, <2>6 DEF ConnInv
<1>3. QED
  BY <1>1, <1>2 DEF MarkProgressing, Write

\* ForConnection, Ping and the reports of their results.
LEMMA TestInv ==
    ASSUME ConnInv, ForConnection \/ Ping
    PROVE  ConnInv'
<1>0. TypeOK /\ CopyInv /\ Fits(qmc) /\ conn.generation \in Nat
  BY CopyFits DEF ConnInv, TypeOK, QMCType
<1>1. CASE ForConnection
  <2>1. /\ pc # "idle" /\ pc' \in {"fail", "ping"}
        /\ UNCHANGED <<qmc, event, secret, secretEvent, queued, timer, conn, current,
                       envVars, delayed, woken, pinged>>
        /\ client' \in SecretStates /\ err' \in {"none", "transient", "other"}
    BY <1>0, <1>1 DEF ForConnection, GotoFail, objectVars, TypeOK
  <2>2. QED
    BY <2>1, InsideInv
<1>2. CASE Ping /\ (GotoFail("transient") \/ GotoFail("other")) /\ UNCHANGED pinged
  <2>1. /\ pc # "idle" /\ pc' = "fail"
        /\ UNCHANGED <<qmc, event, secret, secretEvent, queued, timer, conn, current,
                       envVars, delayed, woken, pinged>>
        /\ client' \in SecretStates /\ err' \in {"none", "transient", "other"}
    BY <1>0, <1>2 DEF Ping, GotoFail, objectVars, TypeOK
  <2>2. QED
    BY <2>1, InsideInv
<1>3. CASE Ping /\ ~alreadyReady(conn) /\ Goto("available") /\ pinged' = conn.generation
  <2>1. /\ pc # "idle" /\ pc' = "available"
        /\ UNCHANGED <<qmc, event, secret, secretEvent, queued, timer, conn, current,
                       envVars, delayed, woken>>
        /\ client' \in SecretStates /\ err' \in {"none", "transient", "other"}
    BY <1>0, <1>3 DEF Ping, Goto, objectVars, TypeOK
  <2>2. QED
    BY <1>3, <2>1, InsideInv
<1>4. CASE Ping /\ alreadyReady(conn) /\ Return("done") /\ pinged' = conn.generation
  <2>1. pc # "idle" /\ UNCHANGED <<qmc, event, secret, secretEvent, queued, envVars, woken>>
    BY <1>4 DEF Ping, objectVars
  <2>2. qmc.exists => event \/ queued \/ alreadyReady(qmc)
    BY <1>0, <1>4, <2>1 DEF CopyInv
  <2>3. alreadyReady(qmc) => pinged' = qmc.generation
    BY <1>0, <1>4, <2>1 DEF CopyInv
  <2>4. QED
    BY <1>0, <1>4, <2>1, <2>2, <2>3, ReturnInv DEF TypeOK
<1>5. QED
  BY <1>1, <1>2, <1>3, <1>4 DEF Ping

\* fail and MarkAvailable end the reconcile with a requeue, or ready.
LEMMA ReportInv ==
    ASSUME ConnInv, fail \/ MarkAvailable
    PROVE  ConnInv'
<1>0. /\ TypeOK /\ Fits(qmc)
      /\ current => conn = qmc
      /\ UNCHANGED <<secret, secretEvent, queued, envVars, pinged, woken>>
  BY CopyFits, Zenon DEF ConnInv, fail, MarkAvailable
<1>1. CASE fail
  <2> DEFINE o == setCondition(conn, "Error")
  <2>1. current => Fits(o)
    BY CopyFits
  <2>2. CASE Return("requeueAfter") /\ UNCHANGED <<qmc, event>>
    BY <1>0, <2>2, ReturnInv DEF TypeOK
  <2>3. CASE Return("requeueAfter") /\ current /\ Store(o)
    BY <1>0, <2>1, <2>3, ReturnInv DEF TypeOK
  <2>4. CASE Return("error") /\ (UNCHANGED <<qmc, event>> \/ (current /\ Store(o)))
    BY <1>0, <2>1, <2>4, WriteFailsInv
  <2>5. QED
    BY <1>1, <2>2, <2>3, <2>4 DEF fail, Write
<1>2. CASE MarkAvailable
  <2> DEFINE o == [setCondition(conn, "Available") EXCEPT !.observedGeneration = conn.generation]
  <2>1. current => Fits(o)
    BY <1>2, CopyFits DEF MarkAvailable
  <2>2. CASE Return("done") /\ current /\ Store(o)
    <3>0. /\ o.condReason = "Available"
          /\ o.observedGeneration = conn.generation /\ o.generation = conn.generation
      BY <1>0 DEF setCondition, TypeOK, QMCType
    <3>1. alreadyReady(o)
      BY <3>0 DEF alreadyReady
    <3>2. qmc'.exists => alreadyReady(qmc')
      BY <2>2, <3>1 DEF Store, Stored, NoQMC
    <3>3. QED
      BY <1>0, <2>1, <2>2, <3>2, ReturnInv DEF TypeOK
  <2>3. CASE Return("error") /\ (UNCHANGED <<qmc, event>> \/ (current /\ Store(o)))
    BY <1>0, <2>1, <2>3, WriteFailsInv
  <2>4. QED
    BY <1>2, <2>2, <2>3 DEF MarkAvailable, Write
<1>3. QED
  BY <1>1, <1>2

\* Writes of users: the event brings the worker back, and its copy is not
\* current any more.
LEMMA OtherWriteInv ==
    ASSUME ConnInv, NEW o, o \in QMCType, OtherWrite(o), pinged' \in Nat,
           o.observedGeneration < o.generation, Stored(o) # qmc
    PROVE  ConnInv'
<1>0. TypeOK
  BY DEF ConnInv
<1>1. Fits(o) /\ ~alreadyReady(o)
  <2>1. o.generation \in Nat /\ o.observedGeneration \in Nat
    BY DEF QMCType
  <2>2. o.observedGeneration # o.generation /\ o.observedGeneration <= o.generation
    BY <2>1
  <2>3. QED
    BY <2>2 DEF Fits, alreadyReady
<1>2. /\ qmc' = Stored(o) /\ event' = TRUE /\ current' = FALSE /\ woken' = TRUE
      /\ UNCHANGED <<secret, secretEvent, queued, timer, pc, conn, client, err, mqweb, api,
                     delayed>>
  BY Zenon DEF OtherWrite, Store, queueVars, envVars
<1>3. TypeOK'
  BY <1>0, <1>1, <1>2, StoredFits, Zenon DEF TypeOK
<1>4. ~alreadyReady(qmc')
  <2>1. ~alreadyReady(NoQMC)
    BY DEF NoQMC, alreadyReady
  <2>2. Stored(o) \in {o, NoQMC}
    BY DEF Stored
  <2>3. QED
    BY <1>1, <1>2, <2>1, <2>2
<1>5. ObjectInv'
  BY <1>1, <1>2, StoredFits DEF ObjectInv
<1>6. CopyInv' /\ ReadyMeansPinged' /\ NeverStuck'
  BY <1>2, <1>4 DEF CopyInv, ReadyMeansPinged, NeverStuck, alreadyReady
<1>7. PathInv'
  BY <1>2 DEF ConnInv, PathInv
<1>8. QED
  BY <1>3, <1>5, <1>6, <1>7 DEF ConnInv

\* CreateQMC, EditSpec and DeleteQMC.
LEMMA UserInv ==
    ASSUME ConnInv, CreateQMC \/ EditSpec \/ DeleteQMC
    PROVE  ConnInv'
<1>0. /\ qmc \in QMCType /\ qmc.generation \in Nat /\ qmc.observedGeneration \in Nat
      /\ pinged \in Nat /\ ObjectInv
  BY DEF ConnInv, TypeOK, QMCType
<1>1. CASE CreateQMC
  <2> DEFINE o == [NoQMC EXCEPT !.exists = TRUE, !.generation = 1]
  <2>1. /\ o \in QMCType /\ o.observedGeneration = 0 /\ o.generation = 1
        /\ o.exists /\ ~o.deleting
    BY DEF NoQMC, QMCType
  <2>2. Stored(o) # qmc
    BY <1>1, <2>1, Zenon DEF CreateQMC, Stored
  <2>3. OtherWrite(o) /\ pinged' \in Nat
    BY <1>1 DEF CreateQMC
  <2>4. o.observedGeneration < o.generation
    BY <2>1
  <2> HIDE DEF o
  <2>5. QED
    BY <2>1, <2>2, <2>3, <2>4, OtherWriteInv
<1>2. CASE EditSpec
  <2> DEFINE o == [qmc EXCEPT !.generation = @ + 1]
  <2>0. qmc.generation + 1 \in Nat
    BY <1>0
  <2>1. /\ o \in QMCType /\ o.generation = qmc.generation + 1
        /\ o.observedGeneration = qmc.observedGeneration
        /\ o.deleting = qmc.deleting /\ o.finalizer = qmc.finalizer /\ o.exists = qmc.exists
    BY <1>0, <2>0 DEF QMCType
  <2>2. OtherWrite(o) /\ pinged' \in Nat /\ qmc.exists /\ ~NoQMC.exists
    BY <1>0, <1>2 DEF EditSpec, NoQMC
  <2> HIDE DEF o
  <2>3. o.observedGeneration < o.generation /\ o.generation # qmc.generation
    BY <1>0, <2>1 DEF ObjectInv
  <2>4. Stored(o) # qmc
    BY <2>2, <2>3 DEF Stored
  <2>5. QED
    BY <2>1, <2>2, <2>3, <2>4, OtherWriteInv
<1>3. CASE DeleteQMC
  <2> DEFINE o == [qmc EXCEPT !.deleting = TRUE, !.generation = @ + 1]
  <2>0. qmc.generation + 1 \in Nat
    BY <1>0
  <2>1. /\ o \in QMCType /\ o.generation = qmc.generation + 1
        /\ o.observedGeneration = qmc.observedGeneration
    BY <1>0, <2>0 DEF QMCType
  <2>2. OtherWrite(o) /\ pinged' \in Nat /\ qmc.exists /\ ~NoQMC.exists
    BY <1>0, <1>3 DEF DeleteQMC, NoQMC
  <2> HIDE DEF o
  <2>3. o.observedGeneration < o.generation /\ o.generation # qmc.generation
    BY <1>0, <2>1 DEF ObjectInv
  <2>4. Stored(o) # qmc
    BY <2>2, <2>3 DEF Stored
  <2>5. QED
    BY <2>1, <2>2, <2>3, <2>4, OtherWriteInv
<1>4. QED
  BY <1>1, <1>2, <1>3

\* The watches, the timer, the faults and the restart: a request that was on its
\* way ends up in the work queue.
LEMMA SurroundingsInv ==
    ASSUME ConnInv,
           \/ Deliver \/ requestsForSecret \/ TimerFires \/ Restart
           \/ \E s \in Secrets : SecretChange(s)
           \/ \E m \in Mqwebs : MqwebChange(m)
           \/ \E a \in Apis : ApiChange(a)
    PROVE  ConnInv'
<1>0. TypeOK /\ ObjectInv /\ CopyInv /\ PathInv /\ ReadyMeansPinged /\ NeverStuck
  BY DEF ConnInv
<1>1. ASSUME UNCHANGED <<qmc, workerVars, pinged>>, TypeOK',
             event => event' \/ queued', queued => queued', timer => timer' \/ queued'
      PROVE  ConnInv'
  <2>1. ObjectInv' /\ PathInv' /\ ReadyMeansPinged'
    BY <1>0, <1>1 DEF ObjectInv, PathInv, ReadyMeansPinged, alreadyReady, workerVars
  <2>2. CopyInv'
    BY <1>0, <1>1 DEF CopyInv, alreadyReady, workerVars
  <2>3. NeverStuck'
    BY <1>0, <1>1 DEF NeverStuck, alreadyReady, workerVars
  <2>4. QED
    BY <1>1, <2>1, <2>2, <2>3 DEF ConnInv
<1> USE DEF objectVars, queueVars, envVars, historyVars
<1>2. CASE Deliver
  <2>1. TypeOK'
    BY <1>0, <1>2, Zenon DEF Deliver, TypeOK, workerVars
  <2>2. QED
    BY <1>1, <1>2, <2>1 DEF Deliver
<1>3. CASE requestsForSecret
  <2>1. TypeOK'
    BY <1>0, <1>3, Zenon DEF requestsForSecret, TypeOK, workerVars
  <2>2. QED
    BY <1>1, <1>3, <2>1, Zenon DEF requestsForSecret
<1>4. CASE TimerFires
  <2>1. TypeOK'
    BY <1>0, <1>4, Zenon DEF TimerFires, TypeOK, workerVars
  <2>2. QED
    BY <1>1, <1>4, <2>1 DEF TimerFires
<1>5. ASSUME NEW s \in Secrets, SecretChange(s)
      PROVE  ConnInv'
  <2>1. TypeOK'
    BY <1>0, <1>5, ConnectionAssumption DEF SecretChange, TypeOK, workerVars
  <2>2. QED
    BY <1>1, <1>5, <2>1 DEF SecretChange
<1>6. ASSUME NEW m \in Mqwebs, MqwebChange(m)
      PROVE  ConnInv'
  <2>1. TypeOK'
    BY <1>0, <1>6, ConnectionAssumption DEF MqwebChange, TypeOK, workerVars
  <2>2. QED
    BY <1>1, <1>6, <2>1 DEF MqwebChange
<1>7. ASSUME NEW a \in Apis, ApiChange(a)
      PROVE  ConnInv'
  <2>1. TypeOK'
    BY <1>0, <1>7, ConnectionAssumption DEF ApiChange, TypeOK, workerVars
  <2>2. QED
    BY <1>1, <1>7, <2>1 DEF ApiChange
<1>8. CASE Restart
  <2>1. conn' \in QMCType /\ queued' \in BOOLEAN
    BY <1>0, <1>8 DEF Restart, NoQMC, TypeOK, QMCType
  <2>2. TypeOK'
    BY <1>0, <1>8, <2>1, Zenon DEF Restart, TypeOK, WorkerStates, SecretStates
  <2>3. ObjectInv' /\ ReadyMeansPinged'
    BY <1>0, <1>8 DEF Restart, ObjectInv, ReadyMeansPinged, alreadyReady
  <2>4. CopyInv' /\ PathInv' /\ NeverStuck'
    BY <1>8 DEF Restart, CopyInv, PathInv, NeverStuck
  <2>5. QED
    BY <2>2, <2>3, <2>4 DEF ConnInv
<1>9. QED
  BY <1>2, <1>3, <1>4, <1>5, <1>6, <1>7, <1>8

\* The strengthened invariant holds of every execution.
LEMMA ConnInductive == Spec => []ConnInv
<1>1. Init => ConnInv
  <2> SUFFICES ASSUME Init PROVE ConnInv
    OBVIOUS
  <2>1. NoQMC \in QMCType
    BY DEF NoQMC, QMCType
  <2>2. TypeOK
    BY <2>1, ConnectionAssumption, Zenon DEF Init, TypeOK, WorkerStates, SecretStates
  <2>3. ObjectInv /\ CopyInv /\ PathInv /\ ReadyMeansPinged /\ NeverStuck
    <3>1. /\ qmc.observedGeneration = 0 /\ qmc.generation = 0 /\ ~qmc.exists
          /\ pc = "idle" /\ ~current
      BY DEF Init, NoQMC
    <3>2. QED
      BY <3>1 DEF ObjectInv, CopyInv, PathInv, ReadyMeansPinged, NeverStuck
  <2>4. QED
    BY <2>2, <2>3 DEF ConnInv
<1>2. ConnInv /\ [Next]_vars => ConnInv'
  <2> SUFFICES ASSUME ConnInv, [Next]_vars PROVE ConnInv'
    OBVIOUS
  <2>1. CASE Worker
    BY <2>1, ReconcileInv, FinalizerInv, ProgressingInv, TestInv, ReportInv DEF Worker
  <2>2. CASE Deliver \/ requestsForSecret \/ TimerFires \/ Environment
    BY <2>2, UserInv, SurroundingsInv DEF Environment
  <2>3. CASE UNCHANGED vars
    <3>1. UNCHANGED <<qmc, event, secret, secretEvent, queued, timer, pc, conn, current,
                      client, err, mqweb, api, pinged, delayed, woken>>
      BY <2>3 DEF vars, objectVars, queueVars, workerVars, envVars, historyVars
    <3>2. QED
      BY <3>1 DEF ConnInv, TypeOK, ObjectInv, CopyInv, PathInv, ReadyMeansPinged, NeverStuck,
                  alreadyReady
  <2>4. QED
    BY <2>1, <2>2, <2>3 DEF Next
<1>3. QED
  BY <1>1, <1>2, PTL DEF Spec

\* The connection's reconciler and its surroundings: every variable keeps its
\* type.
THEOREM ConnTypeCorrect == Spec => []TypeOK
<1>1. ConnInv => TypeOK
  BY DEF ConnInv
<1>2. QED
  BY <1>1, ConnInductive, PTL

\* reconcile: a connection that is ready at its generation was pinged with the
\* spec of that generation.
THEOREM ReadyMeansPingedProved == Spec => []ReadyMeansPinged
<1>1. ConnInv => ReadyMeansPinged
  BY DEF ConnInv
<1>2. QED
  BY <1>1, ConnInductive, PTL

\* reconcile and fail: when nothing is queued, scheduled or on its way, the
\* connection is ready at its generation.
THEOREM NeverStuckProved == Spec => []NeverStuck
<1>1. ConnInv => NeverStuck
  BY DEF ConnInv
<1>2. QED
  BY <1>1, ConnInductive, PTL
=============================================================================
