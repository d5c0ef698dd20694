---------------------------- MODULE ClientFactory ----------------------------
(***************************************************************************)
(* The cache entry of one connection (namespace/name) in the factory of    *)
(* mqweb clients (internal/adapter/mqrest/factory.go), the reconciles that *)
(* ask for a client at once, and the release of the entry when the         *)
(* QueueManagerConnection is deleted.                                      *)
(*                                                                         *)
(* ForConnection holds the mutex for the lookup and for the store only; it *)
(* reads the two Secrets once for the fingerprint and once more for the    *)
(* client.  A connection that names no CA Secret is one whose CA Secret    *)
(* never changes.                                                          *)
(***************************************************************************)
EXTENDS Naturals

CONSTANTS
    Workers,        \* the reconciles that use the connection
    connWorker,     \* the one of the connection itself
    NoEntry,        \* the factory has no client for the connection
    MaxConnections, \* bound: connections created under the name
    MaxGeneration,  \* bound: users edit specs of lower generations only
    MaxVersion      \* bound: writes of each Secret

ASSUME FactoryAssumption ==
    /\ connWorker \in Workers
    /\ MaxConnections \in Nat /\ MaxGeneration \in Nat /\ MaxVersion \in Nat

Secrets == {"credentials", "ca"}

VARIABLES
    phase,     \* of the QueueManagerConnection
    created,   \* the number of connections created under the name
    generation,
    version,   \* the resourceVersion of each Secret
    present,   \* the Secrets that exist
    cache,     \* the entry of the connection
    released,  \* connWorker released the client and is to remove the finalizer
    overlap,   \* history: a call was in flight at the last release or came after it
    pc,        \* where each worker is in ForConnection
    ref,       \* the Secret it reads next
    conn,      \* the generation of the connection it was given
    fp,        \* its fingerprint
    cfg,       \* the client it built or was given: what it was built from
    since      \* history: the resourceVersions when it was called

connVars   == <<phase, created, generation, released, overlap>>
secretVars == <<version, present>>
workerVars == <<pc, ref, conn, fp, cfg, since>>
vars       == <<connVars, secretVars, cache, workerVars>>

Versions == [Secrets -> Nat]

\* A client is told from another by what it was built from.
FingerprintType == [generation : Nat, rv : Versions]

cacheEntry == [fp : FingerprintType, client : FingerprintType]

Stages == {"idle", "fingerprint", "lookup", "buildConfig", "store", "use"}

\* Every variable of the connection, the Secrets, the cache and the workers has
\* its type.
TypeOK ==
    /\ phase \in {"absent", "live", "deleting"}
    /\ created \in Nat /\ generation \in Nat
    /\ version \in Versions
    /\ present \subseteq Secrets
    /\ cache \in cacheEntry \cup {NoEntry}
    /\ released \in BOOLEAN /\ overlap \in BOOLEAN
    /\ pc \in [Workers -> Stages]
    /\ ref \in [Workers -> Secrets]
    /\ conn \in [Workers -> Nat]
    /\ fp \in [Workers -> FingerprintType]
    /\ cfg \in [Workers -> FingerprintType]
    /\ since \in [Workers -> Versions]

NoVersions == [s \in Secrets |-> 0]

NoFingerprint == [generation |-> 0, rv |-> NoVersions]

-----------------------------------------------------------------------------
(***************************************************************************)
(* ForConnection                                                           *)
(***************************************************************************)

\* The call is over, with an error or after the client's use.
Finish(w) ==
    /\ pc' = [pc EXCEPT ![w] = "idle"]
    /\ ref' = [ref EXCEPT ![w] = "credentials"]
    /\ conn' = [conn EXCEPT ![w] = 0]
    /\ fp' = [fp EXCEPT ![w] = NoFingerprint]
    /\ cfg' = [cfg EXCEPT ![w] = NoFingerprint]
    /\ since' = [since EXCEPT ![w] = NoVersions]

\* A reconcile reads the connection and calls ForConnection; the connection's
\* own reconcile does so for a live connection only.
ForConnection(w) ==
    /\ pc[w] = "idle"
    /\ phase = "live" \/ (phase = "deleting" /\ w # connWorker)
    /\ pc' = [pc EXCEPT ![w] = "fingerprint"]
    /\ conn' = [conn EXCEPT ![w] = generation]
    /\ fp' = [fp EXCEPT ![w].generation = generation]
    /\ since' = [since EXCEPT ![w] = version]
    /\ overlap' = (overlap \/ released)
    /\ UNCHANGED <<phase, created, generation, released, secretVars, cache, ref, cfg>>

\* The worker goes on with the other Secret, or to stage l.
NextSecret(w, l) ==
    IF ref[w] = "credentials"
    THEN ref' = [ref EXCEPT ![w] = "ca"] /\ UNCHANGED pc
    ELSE /\ ref' = [ref EXCEPT ![w] = "credentials"]
         /\ pc' = [pc EXCEPT ![w] = l]

\* The resourceVersion of the next Secret goes into the fingerprint.
cacheFingerprint(w) ==
    /\ pc[w] = "fingerprint"
    /\ \/ /\ ref[w] \in present
          /\ fp' = [fp EXCEPT ![w].rv[ref[w]] = version[ref[w]]]
          /\ NextSecret(w, "lookup")
          /\ UNCHANGED <<conn, cfg, since>>
       \/ Finish(w)
    /\ UNCHANGED <<connVars, secretVars, cache>>

\* Mutant: the resourceVersions are not compared.
matchesGeneration(entry, f) == entry # NoEntry /\ entry.fp.generation = f.generation

matches(entry, f) == entry # NoEntry /\ entry.fp = f

\* Under the mutex: the cached client, or one is to be built.
Lookup(w) ==
    /\ pc[w] = "lookup"
    /\ \/ /\ matches(cache, fp[w])
          /\ cfg' = [cfg EXCEPT ![w] = cache.client]
          /\ pc' = [pc EXCEPT ![w] = "use"]
       \/ /\ ~matches(cache, fp[w])
          /\ cfg' = [cfg EXCEPT ![w] = [generation |-> conn[w],
                                          rv |-> NoVersions]]
          /\ pc' = [pc EXCEPT ![w] = "buildConfig"]
    /\ UNCHANGED <<connVars, secretVars, cache, ref, conn, fp, since>>

\* The next Secret is read again, for the client.
buildConfig(w) ==
    /\ pc[w] = "buildConfig"
    /\ \/ /\ ref[w] \in present
          /\ cfg' = [cfg EXCEPT ![w].rv[ref[w]] = version[ref[w]]]
          /\ NextSecret(w, "store")
          /\ UNCHANGED <<conn, fp, since>>
       \/ Finish(w)
    /\ UNCHANGED <<connVars, secretVars, cache>>

\* Under the mutex again: a client that another worker stored meanwhile under
\* the same fingerprint is preferred; any other entry is replaced.
Store(w) ==
    /\ pc[w] = "store"
    /\ \/ /\ matches(cache, fp[w])
          /\ cfg' = [cfg EXCEPT ![w] = cache.client]
          /\ UNCHANGED cache
       \/ /\ ~matches(cache, fp[w])
          /\ cache' = [fp |-> fp[w], client |-> cfg[w]]
          /\ UNCHANGED cfg
    /\ pc' = [pc EXCEPT ![w] = "use"]
    /\ UNCHANGED <<connVars, secretVars, ref, conn, fp, since>>

\* The reconcile has done its requests to mqweb.
Done(w) ==
    /\ pc[w] = "use"
    /\ Finish(w)
    /\ UNCHANGED <<connVars, secretVars, cache>>

Step(w) ==
    \/ ForConnection(w) \/ cacheFingerprint(w) \/ Lookup(w) \/ buildConfig(w)
    \/ Store(w) \/ Done(w)

-----------------------------------------------------------------------------
(***************************************************************************)
(* The deletion of the connection, and its surroundings                    *)
(***************************************************************************)

\* Mutant: only the client of the connection's current generation is released.
ReleaseCurrent ==
    /\ phase = "deleting" /\ ~released /\ pc[connWorker] = "idle"
    /\ cache' = IF matchesGeneration(cache, [generation |-> generation])
                THEN NoEntry ELSE cache
    /\ released' = TRUE
    /\ overlap' = (\E w \in Workers : pc[w] # "idle")
    /\ UNCHANGED <<phase, created, generation, secretVars, workerVars>>

\* connWorker reconciles one request at a time.
ReleaseConnection ==
    /\ phase = "deleting" /\ ~released /\ pc[connWorker] = "idle"
    /\ cache' = NoEntry
    /\ released' = TRUE
    /\ overlap' = (\E w \in Workers : pc[w] # "idle")
    /\ UNCHANGED <<phase, created, generation, secretVars, workerVars>>

\* The finalizer is removed, and the connection with it, or the update fails
\* and the next reconcile starts again.
RemoveFinalizer ==
    /\ released
    /\ released' = FALSE
    /\ phase' \in {"absent", "deleting"}
    /\ UNCHANGED <<overlap, created, generation, secretVars, cache, workerVars>>

\* A new connection under the same name starts at generation 1.
CreateConnection ==
    /\ phase = "absent" /\ created < MaxConnections
    /\ phase' = "live"
    /\ created' = created + 1
    /\ generation' = 1
    /\ UNCHANGED <<released, overlap, secretVars, cache, workerVars>>

EditConnection ==
    /\ phase # "absent" /\ generation < MaxGeneration
    /\ generation' = generation + 1
    /\ UNCHANGED <<phase, created, released, overlap, secretVars, cache, workerVars>>

DeleteConnection ==
    /\ phase = "live"
    /\ phase' = "deleting"
    /\ generation' = generation + 1
    /\ UNCHANGED <<created, released, overlap, secretVars, cache, workerVars>>

\* A resourceVersion is never used twice, not even for a Secret that is deleted
\* and created again.
WriteSecret(s) ==
    /\ version[s] < MaxVersion
    /\ version' = [version EXCEPT ![s] = @ + 1]
    /\ present' = present \cup {s}
    /\ UNCHANGED <<connVars, cache, workerVars>>

DeleteSecret(s) ==
    /\ s \in present
    /\ present' = present \ {s}
    /\ UNCHANGED <<connVars, version, cache, workerVars>>

\* The cache is in memory.
Restart ==
    /\ cache' = NoEntry
    /\ released' = FALSE /\ overlap' = FALSE
    /\ pc' = [w \in Workers |-> "idle"]
    /\ ref' = [w \in Workers |-> "credentials"]
    /\ conn' = [w \in Workers |-> 0]
    /\ fp' = [w \in Workers |-> NoFingerprint]
    /\ cfg' = [w \in Workers |-> NoFingerprint]
    /\ since' = [w \in Workers |-> NoVersions]
    /\ UNCHANGED <<phase, created, generation, secretVars>>

-----------------------------------------------------------------------------
Init ==
    /\ phase = "absent" /\ created = 0 /\ generation = 0
    /\ version = NoVersions /\ present = {}
    /\ cache = NoEntry /\ released = FALSE /\ overlap = FALSE
    /\ pc = [w \in Workers |-> "idle"]
    /\ ref = [w \in Workers |-> "credentials"]
    /\ conn = [w \in Workers |-> 0]
    /\ fp = [w \in Workers |-> NoFingerprint]
    /\ cfg = [w \in Workers |-> NoFingerprint]
    /\ since = [w \in Workers |-> NoVersions]

Environment ==
    \/ CreateConnection \/ EditConnection \/ DeleteConnection
    \/ \E s \in Secrets : WriteSecret(s) \/ DeleteSecret(s)
    \/ Restart

Next ==
    \/ \E w \in Workers : Step(w)
    \/ ReleaseConnection \/ RemoveFinalizer
    \/ Environment

Spec == Init /\ [][Next]_vars

-----------------------------------------------------------------------------
\* ADR-0023: rotation "triggers replace-on-mismatch".  A client that
\* ForConnection returns is for the generation it was called with and was built
\* from Secrets no older than the ones at the time of the call, although the
\* Secrets are read twice, outside the mutex, and a slower call may store its
\* client last.
FreshClient ==
    \A w \in Workers : pc[w] = "use" =>
        /\ cfg[w].generation = conn[w]
        /\ \A s \in Secrets : cfg[w].rv[s] >= since[w][s]

\* ADR-0023: "The cache size is thus bounded by the number of live QMCs".  The
\* factory keeps no client for a connection that is gone, unless a call of
\* another reconcile overlapped the release and stored its client afterwards.
CacheBounded == phase = "absent" /\ ~overlap => cache = NoEntry
=============================================================================
