------------------------- MODULE ClientFactoryProofs -------------------------
(***************************************************************************)
(* Proofs about ClientFactory, for any number of reconciles, generations   *)
(* and versions of the Secrets.                                            *)
(***************************************************************************)
EXTENDS ClientFactory, TLAPS

\* Worker w is past its first read of Secret s, the one for the fingerprint.
InFingerprint(w, s) ==
    \/ pc[w] \in {"lookup", "buildConfig", "store", "use"}
    \/ pc[w] = "fingerprint" /\ ref[w] = "ca" /\ s = "credentials"

\* Worker w has a client, or a part of one, that was built from Secret s.
InClient(w, s) ==
    \/ pc[w] \in {"store", "use"}
    \/ pc[w] = "buildConfig" /\ ref[w] = "ca" /\ s = "credentials"

\* What a worker holds is of its generation, and the later it was read the newer
\* it is: the Secrets at the call, in the fingerprint, in the client.
Holds(w) ==
    /\ pc[w] \in {"idle", "lookup", "store", "use"} => ref[w] = "credentials"
    /\ pc[w] # "idle" => fp[w].generation = conn[w]
    /\ pc[w] \in {"buildConfig", "store", "use"} => cfg[w].generation = conn[w]
    /\ \A s \in Secrets :
        /\ since[w][s] <= version[s] /\ fp[w].rv[s] <= version[s]
        /\ InFingerprint(w, s) => since[w][s] <= fp[w].rv[s]
        /\ InClient(w, s) => fp[w].rv[s] <= cfg[w].rv[s]

\* The cached client is at least as new as the fingerprint it is kept under.
CacheInv ==
    cache # NoEntry =>
        /\ cache.client.generation = cache.fp.generation
        /\ \A s \in Secrets : cache.fp.rv[s] <= cache.client.rv[s]

FactoryInv == TypeOK /\ CacheInv /\ \A w \in Workers : Holds(w)

\* A write of a Secret leaves what a worker holds older still.
LEMMA HoldsStable ==
    ASSUME TypeOK, TypeOK', NEW w \in Workers, Holds(w),
           \A s \in Secrets : version[s] <= version'[s],
           pc'[w] = pc[w], ref'[w] = ref[w], conn'[w] = conn[w],
           fp'[w] = fp[w], cfg'[w] = cfg[w], since'[w] = since[w]
    PROVE  Holds(w)'
<1>1. \A s \in Secrets : /\ version[s] \in Nat /\ version'[s] \in Nat
                         /\ since[w][s] \in Nat /\ fp[w].rv[s] \in Nat
                         /\ cfg[w].rv[s] \in Nat
  BY DEF TypeOK, FingerprintType, Versions
<1>2. \A s \in Secrets : InFingerprint(w, s)' <=> InFingerprint(w, s)
  BY DEF InFingerprint
<1>3. \A s \in Secrets : InClient(w, s)' <=> InClient(w, s)
  BY DEF InClient
<1>4. QED
  BY <1>1, <1>2, <1>3 DEF Holds

\* A step of worker w touches neither the Secrets nor what the other workers hold.
LEMMA OthersUntouched ==
    ASSUME TypeOK, NEW w \in Workers, Step(w), NEW v \in Workers, v # w
    PROVE  /\ UNCHANGED secretVars
           /\ pc'[v] = pc[v] /\ ref'[v] = ref[v] /\ conn'[v] = conn[v]
           /\ fp'[v] = fp[v] /\ cfg'[v] = cfg[v] /\ since'[v] = since[v]
<1> USE DEF TypeOK, Finish, NextSecret
<1>1. CASE ForConnection(w)
  BY <1>1 DEF ForConnection
<1>2. CASE cacheFingerprint(w)
  BY <1>2 DEF cacheFingerprint
<1>3. CASE Lookup(w)
  BY <1>3 DEF Lookup
<1>4. CASE buildConfig(w)
  BY <1>4 DEF buildConfig
<1>5. CASE Store(w)
  BY <1>5 DEF Store
<1>6. CASE Done(w)
  BY <1>6 DEF Done
<1>7. QED
  BY <1>1, <1>2, <1>3, <1>4, <1>5, <1>6 DEF Step

\* A finished call leaves the worker with nothing.
LEMMA FinishHolds ==
    ASSUME TypeOK, NEW w \in Workers, Finish(w), UNCHANGED secretVars
    PROVE  Holds(w)'
<1>1. /\ pc'[w] = "idle" /\ ref'[w] = "credentials" /\ version' = version
      /\ fp'[w] = NoFingerprint /\ since'[w] = NoVersions
  BY DEF TypeOK, Finish, secretVars
<1>2. \A s \in Secrets : version[s] \in Nat /\ since'[w][s] = 0 /\ fp'[w].rv[s] = 0
  BY <1>1 DEF TypeOK, Versions, NoFingerprint, NoVersions
<1>3. QED
  BY <1>1, <1>2 DEF Holds, InFingerprint, InClient

\* Every step of a worker keeps the types.
LEMMA StepType ==
    ASSUME TypeOK, NEW w \in Workers, Step(w)
    PROVE  TypeOK'
<1> USE DEF TypeOK, Stages, FingerprintType, Versions, NoVersions, NoFingerprint,
            connVars, secretVars
<1>1. ASSUME Finish(w), UNCHANGED <<connVars, secretVars, cache>>
      PROVE  TypeOK'
  <2>1. fp' \in [Workers -> FingerprintType] /\ cfg' \in [Workers -> FingerprintType]
    BY <1>1 DEF Finish
  <2>2. since' \in [Workers -> Versions] /\ conn' \in [Workers -> Nat]
    BY <1>1 DEF Finish
  <2>3. pc' \in [Workers -> Stages] /\ ref' \in [Workers -> Secrets]
    BY <1>1 DEF Finish, Secrets
  <2>4. QED
    BY <1>1, <2>1, <2>2, <2>3
<1>2. CASE ForConnection(w)
  <2>1. fp' \in [Workers -> FingerprintType]
    BY <1>2, Zenon DEF ForConnection
  <2>2. since' \in [Workers -> Versions] /\ conn' \in [Workers -> Nat]
    BY <1>2 DEF ForConnection
  <2>3. pc' \in [Workers -> Stages]
    BY <1>2 DEF ForConnection
  <2>4. QED
    BY <1>2, <2>1, <2>2, <2>3, Zenon DEF ForConnection
<1>3. ASSUME pc[w] = "fingerprint", ref[w] \in present,
             fp' = [fp EXCEPT ![w].rv[ref[w]] = version[ref[w]]],
             NextSecret(w, "lookup"), UNCHANGED <<conn, cfg, since>>,
             UNCHANGED <<connVars, secretVars, cache>>
      PROVE  TypeOK'
  <2>1. fp' \in [Workers -> FingerprintType]
    BY <1>3, Zenon
  <2>2. pc' \in [Workers -> Stages] /\ ref' \in [Workers -> Secrets]
    BY <1>3, Zenon DEF NextSecret, Secrets
  <2>3. QED
    BY <1>3, <2>1, <2>2, Zenon
<1>4. CASE Lookup(w)
  <2>1. cfg' \in [Workers -> FingerprintType]
    <3>1. CASE matches(cache, fp[w]) /\ cfg' = [cfg EXCEPT ![w] = cache.client]
      BY <3>1 DEF matches, cacheEntry
    <3>2. CASE cfg' = [cfg EXCEPT ![w] = [generation |-> conn[w], rv |-> NoVersions]]
      BY <3>2
    <3>3. QED
      BY <1>4, <3>1, <3>2 DEF Lookup
  <2>2. pc' \in [Workers -> Stages]
    BY <1>4, Zenon DEF Lookup
  <2>3. QED
    BY <1>4, <2>1, <2>2 DEF Lookup
<1>5. ASSUME pc[w] = "buildConfig", ref[w] \in present,
             cfg' = [cfg EXCEPT ![w].rv[ref[w]] = version[ref[w]]],
             NextSecret(w, "store"), UNCHANGED <<conn, fp, since>>,
             UNCHANGED <<connVars, secretVars, cache>>
      PROVE  TypeOK'
  <2>1. cfg' \in [Workers -> FingerprintType]
    BY <1>5, Zenon
  <2>2. pc' \in [Workers -> Stages] /\ ref' \in [Workers -> Secrets]
    BY <1>5, Zenon DEF NextSecret, Secrets
  <2>3. QED
    BY <1>5, <2>1, <2>2, Zenon
<1>6. CASE Store(w)
  <2>1. cfg' \in [Workers -> FingerprintType] /\ cache' \in cacheEntry \cup {NoEntry}
    <3>1. CASE matches(cache, fp[w]) /\ cfg' = [cfg EXCEPT ![w] = cache.client]
               /\ UNCHANGED cache
      BY <3>1 DEF matches, cacheEntry
    <3>2. CASE cache' = [fp |-> fp[w], client |-> cfg[w]] /\ UNCHANGED cfg
      BY <3>2 DEF cacheEntry
    <3>3. QED
      BY <1>6, <3>1, <3>2 DEF Store
  <2>2. pc' \in [Workers -> Stages]
    BY <1>6 DEF Store
  <2>3. QED
    BY <1>6, <2>1, <2>2 DEF Store
<1>7. CASE cacheFingerprint(w)
  BY <1>1, <1>3, <1>7 DEF cacheFingerprint
<1>8. CASE buildConfig(w)
  BY <1>1, <1>5, <1>8 DEF buildConfig
<1>9. CASE Done(w)
  BY <1>1, <1>9 DEF Done
<1>10. QED
  BY <1>2, <1>4, <1>6, <1>7, <1>8, <1>9 DEF Step

\* Every step of a worker leaves what it holds in order.
LEMMA StepHolds ==
    ASSUME FactoryInv, TypeOK', NEW w \in Workers, Step(w)
    PROVE  Holds(w)'
<1>0. TypeOK /\ CacheInv /\ Holds(w)
  BY DEF FactoryInv
<1> USE <1>0 DEF Secrets
<1>1. /\ \A s \in Secrets : version[s] \in Nat /\ since[w][s] \in Nat
      /\ \A s \in Secrets : fp[w].rv[s] \in Nat /\ cfg[w].rv[s] \in Nat
      /\ pc[w] \in Stages /\ ref[w] \in Secrets
  BY DEF TypeOK, FingerprintType, Versions
<1>2. CASE ForConnection(w)
  <2>1. /\ pc[w] = "idle" /\ pc'[w] = "fingerprint" /\ ref'[w] = ref[w]
        /\ version' = version /\ since'[w] = version
        /\ conn'[w] = generation /\ fp'[w].generation = generation
        /\ fp'[w].rv = fp[w].rv
    BY <1>2 DEF ForConnection, TypeOK, FingerprintType, secretVars
  <2>2. QED
    BY <1>1, <2>1 DEF Holds, InFingerprint, InClient
<1>3. ASSUME pc[w] = "fingerprint", ref[w] \in present,
             fp' = [fp EXCEPT ![w].rv[ref[w]] = version[ref[w]]],
             NextSecret(w, "lookup"), UNCHANGED <<conn, cfg, since>>,
             UNCHANGED <<connVars, secretVars, cache>>
      PROVE  Holds(w)'
  <2>1. /\ version' = version /\ since' = since /\ conn' = conn
        /\ fp'[w].generation = fp[w].generation
        /\ fp'[w].rv = [fp[w].rv EXCEPT ![ref[w]] = version[ref[w]]]
    BY <1>3 DEF TypeOK, FingerprintType, secretVars
  <2>2. CASE ref[w] = "credentials"
    <3>1. pc'[w] = "fingerprint" /\ ref'[w] = "ca"
      BY <1>3, <2>2 DEF NextSecret, TypeOK
    <3>2. /\ fp'[w].rv["credentials"] = version["credentials"]
          /\ fp'[w].rv["ca"] = fp[w].rv["ca"]
      BY <2>1, <2>2 DEF TypeOK, FingerprintType, Versions
    <3>3. QED
      BY <1>1, <1>3, <2>1, <3>1, <3>2 DEF Holds, InFingerprint, InClient
  <2>3. CASE ref[w] = "ca"
    <3>1. pc'[w] = "lookup" /\ ref'[w] = "credentials"
      BY <1>3, <2>3 DEF NextSecret, TypeOK
    <3>2. /\ fp'[w].rv["ca"] = version["ca"]
          /\ fp'[w].rv["credentials"] = fp[w].rv["credentials"]
      BY <2>1, <2>3 DEF TypeOK, FingerprintType, Versions
    <3>3. QED
      BY <1>1, <1>3, <2>1, <2>3, <3>1, <3>2 DEF Holds, InFingerprint, InClient
  <2>4. QED
    BY <1>1, <2>2, <2>3
<1>4. ASSUME matches(cache, fp[w]), cfg' = [cfg EXCEPT ![w] = cache.client],
             pc[w] \in {"lookup", "store"}, pc' = [pc EXCEPT ![w] = "use"],
             UNCHANGED <<secretVars, ref, conn, fp, since>>
      PROVE  Holds(w)'
  <2>1. /\ pc'[w] = "use" /\ cfg'[w] = cache.client /\ version' = version
        /\ cache.client.generation = fp[w].generation
        /\ \A s \in Secrets : fp[w].rv[s] <= cache.client.rv[s]
    BY <1>4 DEF matches, CacheInv, TypeOK, secretVars
  <2>2. QED
    BY <1>1, <1>4, <2>1 DEF Holds, InFingerprint, InClient
<1>5. CASE Lookup(w)
  <2>1. CASE matches(cache, fp[w])
    BY <1>4, <1>5, <2>1 DEF Lookup
  <2>2. CASE ~matches(cache, fp[w])
    <3>1. /\ pc[w] = "lookup" /\ pc'[w] = "buildConfig" /\ version' = version
          /\ cfg'[w].generation = conn[w]
          /\ UNCHANGED <<ref, conn, fp, since>>
      BY <1>5, <2>2 DEF Lookup, TypeOK, secretVars
    <3>2. QED
      BY <1>1, <3>1 DEF Holds, InFingerprint, InClient
  <2>3. QED
    BY <2>1, <2>2
<1>6. ASSUME pc[w] = "buildConfig", ref[w] \in present,
             cfg' = [cfg EXCEPT ![w].rv[ref[w]] = version[ref[w]]],
             NextSecret(w, "store"), UNCHANGED <<conn, fp, since>>,
             UNCHANGED <<connVars, secretVars, cache>>
      PROVE  Holds(w)'
  <2>1. /\ version' = version /\ since' = since /\ conn' = conn /\ fp' = fp
        /\ cfg'[w].generation = cfg[w].generation
        /\ cfg'[w].rv = [cfg[w].rv EXCEPT ![ref[w]] = version[ref[w]]]
    BY <1>6 DEF TypeOK, FingerprintType, secretVars
  <2>2. CASE ref[w] = "credentials"
    <3>1. pc'[w] = "buildConfig" /\ ref'[w] = "ca"
      BY <1>6, <2>2 DEF NextSecret, TypeOK
    <3>2. cfg'[w].rv["credentials"] = version["credentials"]
      BY <2>1, <2>2 DEF TypeOK, FingerprintType, Versions
    <3>3. QED
      BY <1>1, <1>6, <2>1, <3>1, <3>2 DEF Holds, InFingerprint, InClient
  <2>3. CASE ref[w] = "ca"
    <3>1. pc'[w] = "store" /\ ref'[w] = "credentials"
      BY <1>6, <2>3 DEF NextSecret, TypeOK
    <3>2. /\ cfg'[w].rv["ca"] = version["ca"]
          /\ cfg'[w].rv["credentials"] = cfg[w].rv["credentials"]
      BY <2>1, <2>3 DEF TypeOK, FingerprintType, Versions
    <3>3. QED
      BY <1>1, <1>6, <2>1, <2>3, <3>1, <3>2 DEF Holds, InFingerprint, InClient
  <2>4. QED
    BY <1>1, <2>2, <2>3
<1>7. CASE Store(w)
  <2>1. CASE matches(cache, fp[w])
    BY <1>4, <1>7, <2>1 DEF Store
  <2>2. CASE ~matches(cache, fp[w])
    <3>1. /\ pc[w] = "store" /\ pc'[w] = "use" /\ version' = version
          /\ UNCHANGED <<ref, conn, fp, since, cfg>>
      BY <1>7, <2>2 DEF Store, TypeOK, secretVars
    <3>2. QED
      BY <1>1, <3>1 DEF Holds, InFingerprint, InClient
  <2>3. QED
    BY <2>1, <2>2
<1>8. CASE cacheFingerprint(w)
  BY <1>3, <1>8, FinishHolds DEF cacheFingerprint
<1>9. CASE buildConfig(w)
  BY <1>6, <1>9, FinishHolds DEF buildConfig
<1>10. CASE Done(w)
  BY <1>10, FinishHolds DEF Done
<1>11. QED
  BY <1>2, <1>5, <1>7, <1>8, <1>9, <1>10 DEF Step

\* Whatever a worker stores is at least as new as its fingerprint.
LEMMA StepCache ==
    ASSUME FactoryInv, NEW w \in Workers, Step(w)
    PROVE  CacheInv'
<1>1. CASE UNCHANGED cache
  BY <1>1 DEF FactoryInv, CacheInv
<1>2. CASE Store(w) /\ ~UNCHANGED cache
  <2>1. cache' = [fp |-> fp[w], client |-> cfg[w]] /\ pc[w] = "store"
    BY <1>2 DEF Store
  <2>2. /\ fp[w].generation = cfg[w].generation
        /\ \A s \in Secrets : fp[w].rv[s] <= cfg[w].rv[s]
    BY <2>1 DEF FactoryInv, Holds, InClient
  <2>3. QED
    BY <2>1, <2>2 DEF CacheInv
<1>3. QED
  BY <1>1, <1>2 DEF Step, ForConnection, cacheFingerprint, Lookup, buildConfig, Done

\* The connection's deletion and its surroundings keep the invariant.
LEMMA OtherInductive ==
    ASSUME FactoryInv, ReleaseConnection \/ RemoveFinalizer \/ Environment
    PROVE  FactoryInv'
<1>0. TypeOK /\ CacheInv /\ \A w \in Workers : Holds(w)
  BY DEF FactoryInv
<1> USE <1>0
<1>1. ASSUME UNCHANGED workerVars, UNCHANGED cache \/ cache' = NoEntry, TypeOK',
             \A s \in Secrets : version[s] <= version'[s]
      PROVE  FactoryInv'
  <2>1. CacheInv'
    BY <1>1 DEF CacheInv
  <2>2. ASSUME NEW w \in Workers PROVE Holds(w)'
    BY <1>1, <2>2, HoldsStable DEF workerVars
  <2>3. QED
    BY <1>1, <2>1, <2>2 DEF FactoryInv
<1>2. \A s \in Secrets : version[s] \in Nat
  BY DEF TypeOK, Versions
<1>3. CASE ReleaseConnection
  <2>1. TypeOK'
    BY <1>3 DEF ReleaseConnection, TypeOK, secretVars, workerVars
  <2>2. QED
    BY <1>1, <1>2, <1>3, <2>1 DEF ReleaseConnection, secretVars
<1>4. ASSUME phase' \in {"absent", "live", "deleting"}, released' \in BOOLEAN, overlap' \in BOOLEAN,
             created' \in Nat, generation' \in Nat,
             UNCHANGED <<secretVars, cache, workerVars>>
      PROVE  FactoryInv'
  <2>1. TypeOK'
    BY <1>4 DEF TypeOK, secretVars, workerVars
  <2>2. QED
    BY <1>1, <1>2, <1>4, <2>1 DEF secretVars
<1>5. CASE RemoveFinalizer
  BY <1>4, <1>5, Zenon DEF RemoveFinalizer, TypeOK
<1>6. CASE CreateConnection
  BY <1>4, <1>6 DEF CreateConnection, TypeOK
<1>7. CASE EditConnection
  BY <1>4, <1>7 DEF EditConnection, TypeOK
<1>8. CASE DeleteConnection
  BY <1>4, <1>8 DEF DeleteConnection, TypeOK
<1>9. ASSUME NEW s \in Secrets, WriteSecret(s)
      PROVE  FactoryInv'
  <2>1. version' \in Versions /\ \A x \in Secrets : version[x] <= version'[x]
    BY <1>2, <1>9 DEF WriteSecret, TypeOK, Versions
  <2>2. TypeOK'
    BY <1>9, <2>1 DEF WriteSecret, TypeOK, connVars, workerVars
  <2>3. QED
    BY <1>1, <1>9, <2>1, <2>2 DEF WriteSecret
<1>10. ASSUME NEW s \in Secrets, DeleteSecret(s)
       PROVE  FactoryInv'
  <2>1. TypeOK'
    BY <1>10 DEF DeleteSecret, TypeOK, connVars, workerVars
  <2>2. QED
    BY <1>1, <1>2, <1>10, <2>1 DEF DeleteSecret
<1>11. CASE Restart
  <2>1. TypeOK'
    BY <1>11, Zenon DEF Restart, TypeOK, Stages, Secrets, FingerprintType, Versions,
                 NoVersions, NoFingerprint, secretVars
  <2>2. CacheInv'
    BY <1>11 DEF Restart, CacheInv
  <2>3. ASSUME NEW w \in Workers PROVE Holds(w)'
    <3>1. /\ pc'[w] = "idle" /\ ref'[w] = "credentials" /\ version' = version
          /\ \A s \in Secrets : since'[w][s] = 0 /\ fp'[w].rv[s] = 0
      BY <1>11 DEF Restart, secretVars, NoVersions, NoFingerprint
    <3>2. QED
      BY <1>2, <3>1 DEF Holds, InFingerprint, InClient
  <2>4. QED
    BY <2>1, <2>2, <2>3 DEF FactoryInv
<1>12. QED
  BY <1>3, <1>5, <1>6, <1>7, <1>8, <1>9, <1>10, <1>11 DEF Environment

\* The strengthened invariant holds of every execution.
LEMMA FactoryInductive == Spec => []FactoryInv
<1>1. Init => FactoryInv
  <2> SUFFICES ASSUME Init PROVE FactoryInv
    OBVIOUS
  <2>1. TypeOK
    BY Zenon DEF Init, TypeOK, Stages, Secrets, FingerprintType, Versions, NoVersions,
           NoFingerprint
  <2>2. CacheInv
    BY DEF Init, CacheInv
  <2>3. ASSUME NEW w \in Workers PROVE Holds(w)
    BY DEF Init, Holds, InFingerprint, InClient, NoVersions, NoFingerprint
  <2>4. QED
    BY <2>1, <2>2, <2>3 DEF FactoryInv
<1>2. FactoryInv /\ [Next]_vars => FactoryInv'
  <2> SUFFICES ASSUME FactoryInv, [Next]_vars PROVE FactoryInv'
    OBVIOUS
  <2>1. ASSUME NEW w \in Workers, Step(w) PROVE FactoryInv'
    <3>1. TypeOK'
      BY <2>1, StepType DEF FactoryInv
    <3>2. CacheInv'
      BY <2>1, StepCache
    <3>3. ASSUME NEW v \in Workers, v # w PROVE Holds(v)'
      <4>1. TypeOK /\ Holds(v) /\ \A s \in Secrets : version[s] \in Nat
        BY DEF FactoryInv, TypeOK, Versions
      <4>2. \A s \in Secrets : version[s] <= version'[s]
        BY <2>1, <3>3, <4>1, OthersUntouched DEF secretVars
      <4>3. QED
        BY <2>1, <3>1, <3>3, <4>1, <4>2, OthersUntouched, HoldsStable
    <3>4. Holds(w)'
      BY <2>1, <3>1, StepHolds
    <3>5. QED
      BY <3>1, <3>2, <3>3, <3>4 DEF FactoryInv
  <2>2. CASE UNCHANGED vars
    <3>1. UNCHANGED <<phase, created, generation, released, overlap, version, present,
                      cache, pc, ref, conn, fp, cfg, since>>
      BY <2>2 DEF vars, connVars, secretVars, workerVars
    <3>2. QED
      BY <3>1 DEF FactoryInv, TypeOK, CacheInv, Holds, InFingerprint, InClient
  <2>3. QED
    BY <2>1, <2>2, OtherInductive DEF Next
<1>3. QED
  BY <1>1, <1>2, PTL DEF Spec

-----------------------------------------------------------------------------
\* Between a release that nobody overlapped and the next connection, no call is
\* under way that could store a client.
ReleaseInv ==
    /\ released => phase = "deleting"
    /\ (released \/ phase = "absent") /\ ~overlap =>
           cache = NoEntry /\ \A w \in Workers : pc[w] = "idle"

\* The steps of a call: only ForConnection leaves "idle", and it is counted.
LEMMA StepRelease ==
    ASSUME TypeOK, ReleaseInv, NEW w \in Workers, Step(w)
    PROVE  ReleaseInv'
<1>1. CASE ForConnection(w)
  <2>1. /\ phase \in {"live", "deleting"} /\ UNCHANGED <<phase, released>>
        /\ released => overlap' = TRUE
    BY <1>1, Zenon DEF ForConnection
  <2>2. QED
    BY <2>1 DEF ReleaseInv
<1>2. CASE pc[w] # "idle" /\ UNCHANGED connVars
  BY <1>2 DEF ReleaseInv, connVars
<1>3. QED
  BY <1>1, <1>2 DEF Step, cacheFingerprint, Lookup, buildConfig, Store, Done

\* The deletion of the connection and its surroundings.
LEMMA OtherRelease ==
    ASSUME TypeOK, ReleaseInv, ReleaseConnection \/ RemoveFinalizer \/ Environment
    PROVE  ReleaseInv'
<1> USE DEF ReleaseInv, workerVars, connVars
<1>1. CASE ReleaseConnection
  BY <1>1 DEF ReleaseConnection
<1>2. CASE RemoveFinalizer
  BY <1>2 DEF RemoveFinalizer
<1>3. CASE CreateConnection
  BY <1>3 DEF CreateConnection
<1>4. CASE EditConnection \/ DeleteConnection
  BY <1>4 DEF EditConnection, DeleteConnection
<1>5. CASE \E s \in Secrets : WriteSecret(s) \/ DeleteSecret(s)
  BY <1>5 DEF WriteSecret, DeleteSecret
<1>6. CASE Restart
  BY <1>6 DEF Restart
<1>7. QED
  BY <1>1, <1>2, <1>3, <1>4, <1>5, <1>6 DEF Environment

\* ForConnection, its cache and its Secrets: every variable keeps its type.
THEOREM FactoryTypeCorrect == Spec => []TypeOK
<1>1. FactoryInv => TypeOK
  BY DEF FactoryInv
<1>2. QED
  BY <1>1, FactoryInductive, PTL

\* ForConnection returns a client of the generation it was called with, built
\* from Secrets no older than those at the call, however many reconciles call it
\* at once and however their reads and stores interleave.
THEOREM FreshClientProved == Spec => []FreshClient
<1>1. FactoryInv => FreshClient
  <2> SUFFICES ASSUME FactoryInv, NEW w \in Workers, pc[w] = "use"
               PROVE  /\ cfg[w].generation = conn[w]
                      /\ \A s \in Secrets : cfg[w].rv[s] >= since[w][s]
    BY DEF FreshClient
  <2>1. Holds(w) /\ TypeOK
    BY DEF FactoryInv
  <2>2. \A s \in Secrets : /\ since[w][s] \in Nat /\ fp[w].rv[s] \in Nat
                           /\ cfg[w].rv[s] \in Nat
    BY <2>1 DEF TypeOK, FingerprintType, Versions
  <2>3. QED
    BY <2>1, <2>2 DEF Holds, InFingerprint, InClient
<1>2. QED
  BY <1>1, FactoryInductive, PTL

\* ReleaseConnection leaves no client behind for a connection that is gone, unless
\* a call of ForConnection overlapped it, for any number of reconciles.
THEOREM CacheBoundedProved == Spec => []CacheBounded
<1>1. Init => ReleaseInv
  BY DEF Init, ReleaseInv
<1>2. TypeOK /\ ReleaseInv /\ [Next]_vars => ReleaseInv'
  <2> SUFFICES ASSUME TypeOK, ReleaseInv, [Next]_vars PROVE ReleaseInv'
    OBVIOUS
  <2>1. CASE UNCHANGED vars
    BY <2>1 DEF vars, connVars, workerVars, ReleaseInv
  <2>2. QED
    BY <2>1, StepRelease, OtherRelease DEF Next
<1>3. ReleaseInv => CacheBounded
  BY DEF ReleaseInv, CacheBounded
<1>4. QED
  BY <1>1, <1>2, <1>3, FactoryTypeCorrect, PTL DEF Spec
=============================================================================
