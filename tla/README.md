# A TLA+ verification of MKurator

MKurator is a Kubernetes operator. Users write custom resources (`Queue`,
`Topic`, `Channel`, `ChannelAuthRule`, `AuthorityRecord`, each naming a
`QueueManagerConnection`); the operator keeps the IBM MQ objects they describe
in step with them by sending MQSC commands to the mqweb REST interface of a
queue manager. This directory holds TLA+ models of that code, TLC
configurations that check them on small instances, and proofs that TLAPS checks
for every instance. `PROJECT.json` lists the runs, which source lines each
definition models, the disagreements found between documentation and code, the
hazards and the theorems.

## 1. Inventory

| part | source | state it keeps | operations |
|---|---|---|---|
| workload reconcilers | `internal/controller/{queue,topic,channel,channelauthrule,authorityrecord}_controller.go`, `reconcile_shared.go` | the custom resource (spec, finalizer, Synced condition, observedGeneration), work queue, timers | reconcile: suspend, resolve the connection, finalizer, GET, DEFINE, status; deletion: DELETE or orphan, finalizer |
| policies | `lifecycle_policy.go`, `adoption_policy.go`, `drift_policy.go`, `suspend.go` | none of their own | deletion, adoption, observe-only, suspend decisions; the event filter |
| admission webhooks | `internal/webhook/v1beta1`, `internal/validation` | none | validate creations and updates, finalizer updates included |
| connection reconciler, Secret watch | `queuemanagerconnection_controller.go`, `secret_watch.go`, `internal/cacheconfig` | Ready condition, finalizer | ping, status, release of the cached client, fan-out to dependents |
| mqweb client | `internal/adapter/mqrest/{client,auth,mqsc_*}.go` | the MQ object (on the queue manager) | DEFINE, SET, DISPLAY, DELETE, classification of answers |
| resilience | `resilience.go`, `circuit_breaker.go` | breaker state, failure count, probe flag | retry with backoff, re-login on 401, open/half-open/closed |
| login session | `ltpa.go`, `auth_strategy.go`, `clientcert.go` | cookies and their generation | login, re-login after a 401 |
| client factory | `factory.go`, `display_probe*.go` | clients by connection with a fingerprint of their inputs, probe results | get or build, release |
| comparison | `internal/mqadmin/{attrmatch,authmatch}.go` | none | which attributes or authorities differ |
| health, metrics, logging, set-up | `internal/health`, `internal/metrics`, `internal/logging`, `cmd/main.go` | none that decides | |

How they interact: events of custom resources pass a filter and put a request
in the work queue; a worker reads the custom resource from the informer's
cache, the connection and its Secret from the API server, gets a client from the
factory, and talks to mqweb. The connection reconciler's Ready condition gates the
workloads, and its changes wake them. Webhooks stand between every writer and
the API server except for the status subresource.

What is hard about it: the worker decides on stale copies while users edit; each
of its calls may fail with or without effect; the operator may stop between any
two; the only memory of what it did is in the custom resource's status, written
last; a request that nothing schedules is never looked at again; and the
administrators of the queue manager change the same objects. `PROJECT.json`
lists each such hazard at its line.

## 2. How it is split

The models divide the operator by the questions that can be asked of it. Each
keeps the control of the code it is about in full and reduces the rest to what
its neighbours can see of it:

- one resource in depth (`WorkloadReconcile`), where values are opaque and the
  connection, mqweb and the API server are states that change;
- what the operator promises about the MQ object of one resource
  (`ManagedObject`), which `WorkloadReconcile` is shown to implement;
- several resources, their connection, admission and the queue manager together
  (`Operator`), where a reconcile is reduced to its writes and commands;
- what becomes of the values (`AttributeMapping`, `AttributeFold`, `ObjectSync`,
  `AuthSync`), where lifecycle and faults are reduced to what disturbs a comparison;
- the connection (`ConnectionReconcile`) and the client below it (`ClientFactory`,
  `CircuitBreaker`, `LTPASession`).

## 3. Modules

| module | what it is |
|---|---|
| `WorkloadReconcile` | one custom resource, its controller worker, the MQ object, users, administrators and faults |
| `MCWorkload` | the specs, annotations and attribute values the runs use |
| `ManagedObject` | the abstract finalizer protocol |
| `Operator`, `MCOperator` | Channels and rules over one connection, with admission, informer cache and late commands |
| `AttributeMapping` | the stateless path of an attribute: map and typed fields, DEFINE parameters, DISPLAY answers, comparison, warnings |
| `ObjectSync`, `MCObjects` | reconciles of queues, topics and channels by their commands, with the DISPLAY probe and its cache |
| `ObjectSpecs` | the types and specs of the resources, which `ObjectSync` and `AttributeFold` share |
| `AttributeFold` | folding of map entries into typed fields in any order, warnings about deprecated entries |
| `AuthSync`, `MCAuth` | reconciles of CHLAUTH rules and authority records by their commands |
| `ConnectionReconcile`, `MCConnection` | one `QueueManagerConnection`, its worker, its Secret and the watch on it, admission, mqweb |
| `ClientFactory`, `MCFactory` | the factory's cache entry of one connection, concurrent `ForConnection` calls, the release |
| `CircuitBreaker`, `MCBreaker` | the breaker of one client and the requests that go through it |
| `LTPASession`, `MCSession` | the login session of one client and the requests that use it |
| `WorkloadReconcileProofs`, `OperatorProofs`, `ObjectSyncProofs`, `AuthSyncProofs`, `ConnectionReconcileProofs`, `ClientFactoryProofs`, `LTPASessionProofs` | the theorems about the module of that name |
| `LoopProofs` | the theorems about `CircuitBreaker` and `AttributeFold`, whose loops are proved by the same induction |

### WorkloadReconcile

The five reconcilers share one flow; `Kind` selects the points where they
differ: the comparison (`AttributesNeedUpdate`, `ChannelAuthNeedsUpdate`,
`AuthorityNeedsUpdate`), the order of observe-only and adoption
(`reconcileMQObjectState` against `ensureChannelAuth` and `ensureAuthority`), the
command (`defineObjectParameters`, `buildSetChannelAuthMQSC`,
`buildSetAuthorityMQSC`) and the webhook (`queueValidateUpdate`,
`authValidateUpdate`).

A reconcile is split at its calls to the API server and mqweb; what happens
between two calls is one step. The worker's program counter:

| `pc` | action | code |
|---|---|---|
| `idle` | `Reconcile` | read the cached object; suspend and the first half of the deletion path |
| `resolve` | `ResolveConnection` | `resolveConnection`, `waitForConnectionReady`, `ForConnection`, MQSC formatting |
| `addFinalizer` | `AddFinalizer` | the finalizer update, which returns without requeue |
| `get` | `ObserveMQ` | GET, adoption and drift decision |
| `define` | `DefineMQ` | DEFINE or SET |
| `delete` | `handleDeletion` | DELETE |
| `removeFinalizer` | `RemoveFinalizer` | the finalizer update that releases the object |
| `patch` | `PatchStatus` | a status write of condition `patch`, then `andThen` |

The other actions are the informer (`Deliver`), delayed adds to the work queue
(`TimerFires`), the garbage collector's foreground finalizer, users (`CreateCR`,
`EditSpec`, `Annotate`, `RequestReconcile`, `DeleteCR`), administrators
(`OutOfBand`), changes of the connection, mqweb and the API server, and `Restart`.

Abstractions:

- `metadata.generation` is compared only with the generation in the condition,
  and `observedGeneration` only with 0, so two Booleans (`atGen`, `adopted`)
  stand for them and no bound is needed. Likewise `synced` and `current` say whether
  the informer's and the worker's copy carry the latest `resourceVersion`.
- An object is a function from attributes to settings. `Checked` are the attributes
  drift detection compares; for `ChannelAuthRule` the ones compared even when the
  spec leaves them out. Normalisation of single values is left to `ObjectSync`. `DEFINE ...
  REPLACE` gives attributes that are left out their defaults and `AUTHADD` adds to
  the record: that is IBM MQ's behaviour, not the repository's. The description of a
  CHLAUTH rule, which DISPLAY does not return, is not among its attributes.
- The connection is what `ForConnection` finds: `missing`, `notReady`, `ready`,
  `deleting` (Ready and marked for deletion, which only admission looks at),
  `noSecret` (Ready, but the Secret cannot be read), `badCert` (Ready, but the TLS
  material does not parse). Connection and Secret are read from the API server, not from
  a cache. Its fan-out to dependents is one step, which is lost when they cannot be listed.
- mqweb is `up`, `down` (every command fails transiently) or `rejecting` (every
  command fails terminally: 401, 403, other 4xx, or an answer that does not parse).
  A failed command may have taken effect before its error comes back. That it takes
  effect later, after newer commands, is modelled in `Operator`.
- With the API server `down` a write fails, with or without effect.
- Reasons that only word an error differently are one: `Error` stands for
  `ConnectionNotFound`, `SecretNotFound` and the rest of the retried errors. The terminal
  reasons, which end the retries (`TerminalErrors`), are told apart by whose fault they are:
  `InvalidSpec` for a spec that cannot be formatted or that the queue manager refuses,
  `Unauthorized` for credentials, certificates and all else that an edit of the spec does not mend.
- The informer's re-list after a restart is up to date. Status writes that change nothing
  count as new versions.
- One custom resource per MQ object (several: `Operator`), whose name and `connectionRef` do not change; one
  worker (the work queue never runs one key twice at once). Leader election is not
  modelled.

`mine`, `tampered` and `touched` are history variables that no action reads: the operator
wrote the object and has not orphaned it; somebody else changed the object since the
operator last saw it match; somebody else changed it since the GET of the running reconcile.

### ManagedObject

The promise without copies, queues, retries or faults: the object is claimed (the
finalizer is set) before it is written, written and deleted only while claimed, and
the claim is given up only when the object is gone or its owner asked for it to be left
behind. `KeepsPromise` in `WorkloadReconcile` says that the detailed model implements
it. The mapping takes `life` and `claimed` from the stored custom resource, `orphan` from
its deletion policy and annotation, and `doing` from the program counter (`define` and
`delete`), so that the step at issue is a DEFINE or DELETE that was decided on a copy
while the stored resource changed.

### Operator

One `QueueManagerConnection`, any number of Channels that name one MQ channel, and any
number of rules of it. Admission and storage are two steps: `ValidateCreate` and
`ValidateDelete` put a request into `requests`, `StoreCreate` and `StoreDelete` carry it
out later. The connection is read from the API server; Channels and dependents are
listed from `cached`, which `CacheSync` brings up to date one resource at a time (`fresh`).
A reconcile is `awaitConnection`, `AddFinalizer`, or `Get`, `ensure` and
`patchSyncedAvailable`; a deletion is `patchSyncedDeleting`, `Delete` and
`RemoveFinalizer`. A write from an outdated copy is a conflict and changes nothing
(`Update`). A command that times out is lost, carried out, or put into `late` and
carried out after newer ones. The update that removes a finalizer passes the webhooks:
`ValidateUpdate` exempts deleting rules but not Channels, as the code does.

Left to `WorkloadReconcile`: what schedules a reconcile (here it runs again and again),
the Orphan policy, adoption, observe-only, suspend and lost answers of API writes. Values
are reduced to whose they are: `mq` says which resource the object was last written by.
`raced` and `lateDefine` are histories that the properties' provisos name.

### AttributeMapping, AttributeFold, ObjectSync

A text is a word or a number with a style: capital letters, spaces around it, leading
zeros, an exponent, or more digits than 32 bits hold. A map key is a name and a spelling.
With these, `toMQSpec` (typed fields over the map, in any order Go visits it), the
`define*Parameters`, `firstObjectAttributes` (numbers printed from a float64),
`normalize*Attributes`, `AttributeValueMatches` with its normalisations, the
admission warnings and, in `AttributeFold`, the `Fold*AttributesToTyped` are the code's
functions, the lists of attributes included. What the queue manager stores and displays is external: it
ignores case and spaces of keywords and numbers, refuses a text that is not a plain number of 32
bits where it wants one, and answers with long or short attribute names.

`ObjectSync` runs the reconciles: `Begin`, the resolution of the keys
(`probeQueueLocalDisplayableCached`, the probe itself, `StoreProbeResult`, each a step because
the mutex is not held across the command), `Get*`, the second resolution,
`reconcileMQObjectState` and `Define*`. There are two worlds: one resource of any type
with any of many specs, alone; and two local queues that share a client, with users,
administrators, failing commands, a probe queue that comes and goes, and an mqweb that starts or
stops to display attributes. A DISPLAY that names an attribute mqweb cannot display fails as a whole.

`AttributeFold` has no steps: `FoldFirst` is the loop of `foldAttributes` over the first keys of
an order, and `FoldInAnyOrder` its results for every order of the keys, since Go promises none. Its
property is about the specs the resources have in any state (`ObjectSpecs`). In the repository
only tests call the folding functions.

### AuthSync

Rules of one channel with all six types, their SET and DISPLAY clauses as
`buildSetChannelAuthMQSC` and `buildDisplayChannelAuthMQSC` choose them, and
`ChannelAuthNeedsUpdate`; the queue manager tells rules apart by type and the clauses they
match on, so that a DISPLAY by one clause may answer with several, in any order. GET merges them
into one (`MergedAttributes`): of each attribute it keeps the last value in the answer. The history
`mixed` says that it did and that no SET followed. Another
resource disturbs a rule when it SETs one that matches the same but for the case of the letters
(`SameMatch`). `Treats` is what a spec asks of a rule: the same type and match, and every clause
the SET would send, as DISPLAY shows it, defaults included; a blank `mcauser`, `usersrc` or
`chckclnt` asks for nothing, because the comparison passes over it. And one
authority record with `authoritySetsEqual` on lists, the index that could run past the
end included (verdict `panic`). The CRD's pattern for an authority admits no blank (`IsAuthorityList`);
DISPLAY lists what is granted in any order (`Listings`), and only finitely many are granted.

### ConnectionReconcile

One reconcile is split at its API writes and mqweb calls: `Reconcile` (the read and
the first decision), `AddFinalizer`, `RemoveFinalizer`, `MarkProgressing`, `ForConnection`, `Ping`,
`fail`, `MarkAvailable`. The connection is read from the API server (the manager's
client does not cache it), so the worker's copy is the stored object until somebody
writes (`current`). The controller has no event filter: every write that changes the
object, its own status writes included, makes an `event` that `Deliver` queues.
`secretWatchPredicates` and `requestsForSecret` are the Secret's watch; a failing
List drops the event. `RequeueAfter` and errors leave one `timer`.

The Secret is `missing`, `malformed` (no client can be built), `wrong` (mqweb refuses
it) or `good`. With the API server `down` reads and writes fail, the latter with or without
effect. `Webhooks` says whether the validating webhook is installed. Deletions
that the webhook refuses because of dependents are in `Operator`: users here delete
connections without dependents. `pinged`, `delayed` and `woken` are histories: the
generation of the last successful ping, whether the last reconcile asked for a
delay, and whether anything but the reconcile's own writes wants another one.

### ClientFactory

`ForConnection` reads the two Secrets for the fingerprint, looks the entry up under
the mutex, reads the Secrets again to build a client, and stores it under the mutex;
each read and each critical section is one step, for any number of workers at once. A client is
told from another by what it was built from: a generation and two
`resourceVersion`s. `connWorker` is the connection's own reconcile, which releases
the entry and then removes the finalizer; the others are reconciles of workloads. An edit
that names another Secret changes the generation, which the fingerprint holds, so the
names of the Secrets are fixed. `since` and `overlap` are histories.

### CircuitBreaker

`beforeRequest`, `recordSuccess` and `recordFailure` under the breaker's mutex, and the ways
`roundTrip` returns: an answer, a rejected client certificate, the last failed
attempt, and the returns that tell the breaker nothing (`Aborted`: the context ends, or the
request cannot be built). The open timeout is the step `OpenTimeout`, which requests may
outlast. `backoff` is the sleep before an attempt. `prober`, `lost` and `slow` are histories: the last probe, whether it returned without a
record, and whether requests outlasted the last open timeout. A request that hangs until its context ends counts
neither as a failure nor as a success, so a mqweb that accepts connections and never answers
does not open the breaker. A late success closes an open breaker directly.

### LTPASession

A login creates a new generation (`gen`) of cookies; mqweb may revoke a token at any time.
A request notes the generation (`currentToken`), attaches the cookies there are when it
is built (`authenticate`), and on a 401 logs in again unless the generation advanced since
(`reauthenticate`), then sends once more. The mutex is held across the login's exchange
(`doLogin`).

## 4. Runs

### Workloads

`WorkloadReconcile` has no counter, so the state spaces of the first three runs are
finite without bounds on the behaviours; what is bounded is the number of specs,
attribute values and fault states, chosen per run so that the case it is
about occurs. Two values are enough where a spec is edited or a foreign object
differs, because every decision compares one value with one other.

| run | checks | shows |
|---|---|---|
| `queue_lifecycle` | `CleanupBeforeRelease`, `NeverWedged`, `AdoptionRespected` | a `Queue` that is suspended, resumed, edited between Delete/Adopt and Orphan/AdoptIfMatching, deleted and recreated, with rejecting mqweb, failing API server, administrators and restarts: no object is left behind, no wake-up is lost, no mismatched object is overwritten unless it was put there after the GET |
| | `SyncedMeansApplied` | with edits under a running reconcile, values the queue manager refuses and an object changed behind the operator's back, Synced=True is never stale |
| | `KeepsPromise` | every step is one that `ManagedObject` allows |
| `rule_converges` | `EventuallySynced`, `EventuallyReleased` | a `ChannelAuthRule` that is edited, malformed at times, deleted and recreated, with an mqweb that fails or refuses and a connection that goes, whose fan-out may be lost: once everything works it syncs, fixing its spec heals a terminal failure, and a deleted one goes, an orphaned one even without its connection; what stays is only a resource that gave up on a refusal that was not its spec's fault (`GivenUp`) |
| `authority_adoption` | `SyncedMeansGranted`, `NeverAdopts` | an administrator grants more than was asked for, grants others and revokes, the connection loses its readiness and its certificate: nothing the spec asks for is missing when an `AuthorityRecord` is synced; `FailIfExists`, observed or not, never adopts, unless the record was put there after the GET |

The runs share out the faults: a failing API server and an mqweb that refuses commands in the first, an
mqweb that does not answer or refuses and a missing connection in the second, which has no administrator, a connection
that is not ready or has a bad certificate in the third. The theorems let all of them happen in every order. Queues, topics and channels take the same decisions in this model, so that each
question is asked of one of them; `NeedsUpdate`, `Ensure`, the command and the
webhook of the two auth kinds are exercised by the last two runs. In the runs users
ask for an orphan by the policy; the force-orphan annotation takes the same path and is
covered by the theorems.

### Several resources

| run | checks | shows |
|---|---|---|
| `operator` | `ConnectionOutlivesDependents` | while a resource refers to it, a connection stays, unless its delete overlapped the create or was validated against an outdated cache |
| | `NoOrphanObject` | when all resources that name an MQ object are gone, so is the object, unless mqweb carried out a DEFINE after its time-out |
| | `SurvivorHeals` | deleting one of two Channels that name one MQ channel deletes it under the other; when only that one is left, its reconciles bring the object back for good |
| | `TearsDown` | when users delete everything in whatever order, and again until it is accepted, nothing is left, unless the connection's delete overlapped a create or was validated against an outdated cache |

Either two Channels of one MQ channel, or a Channel and a rule of it that are to be torn
down. `MaxCreates` 3 lets the connection and both resources be created, or the connection and
one resource twice; `MaxFaults` 1 allows one time-out, outage or restart at any point. The
theorems need neither bound. Deadlock is not checked here: when the bounds are used up
and users do nothing, everything may rest.

### Values

| run | checks | shows |
|---|---|---|
| `attributes` | `DefineAnswersRealDrift` | a DEFINE is sent for a missing object or a real difference only, whatever the spelling of keys and values |
| | `ComparedWereDisplayed` | with the probe cache written by several reconciles, nothing is compared that the DISPLAY did not ask for |
| | `SyncedMeansStored`, `Settles` | Synced means that the object has the values; left alone, a resource becomes Synced and is not defined again, though the cache may hold that an older mqweb did not display an attribute; what it holds as displayed must still be (`CacheHolds`) |
| | `FoldKeepsMeaning`, `WarnedIsIgnored` | folding the map into typed fields does not change the object; admission's warning that an attribute is ignored is true |
| `auth_rules` | `RuleSyncedMeansSet`, `RulesSettle` | a synced `ChannelAuthRule` has a rule that treats connections as its spec says, unless GET merged several rules and found no difference (`mixed`); one that DISPLAY answers with alone, and that no other resource names, comes to rest |
| | `AuthorityComparison`, `AuthoritySettles` | the comparison of lists is that of sets, in any order and case, and never indexes past the end; a record that is granted nothing else comes to rest |

Both also check `TypeOK`. Attributes do not influence each other, so for one resource alone
it is enough to vary the keys of one MQSC keyword: at most two in the map, in either spelling,
and each typed field, for every type of object. `MaxChanges` 2 lets two things go wrong around two queues
that share the cache, and 1 suffices for rules, where the specs already differ in the initial state: one in another case,
with a default named, with a blank field and with a field of another type among them. One
probed attribute is enough, since each has its own cache entry; each list names up to
three authorities.

### Connection, clients and sessions

| run | checks | shows |
|---|---|---|
| `connection` | `ReadyMeansPinged`, `NeverStuck` | edits, deletions, failing writes and restarts between any two calls: ready means pinged at this generation, and nothing is left unscheduled unless ready |
| | `EventuallyReady`, `Settles` | once all is well the connection is ready for good, and its reconciles stop |
| | `RotationNoticed`, `DeletionSucceeds` | a Secret rotated to refused credentials takes the connection out of Ready; a deletion finishes whatever is in the Secret |
| `factory` | `FreshClient`, `CacheBounded` | no caller gets a client older than its call; no client outlives its connection unless a call overlapped the release |
| `breaker` | `ProbeAccounted`, `OneProbe`, `RecoversUnlessLost` | slow and aborted requests: a half-open breaker waits for a probe that will report, or was aborted, and which is alone unless others were slow; once mqweb answers the breaker closes, unless its probe was aborted |
| | `BackoffDoubles` | the sleeps of a request double up to `maxBackoff`, at the boundary too |
| `session` | `LoginOnlyWhenNeeded`, `FreshAfterSeen`, `RequestsReturn` | logins, expiry and retries of concurrent requests; nobody waits for the mutex for ever |

The type invariants of the modules that have proofs, `OneLogin` (the holder of the mutex is the one
that logs in) and `ClosedBelowThreshold` (a closed breaker has a full count ahead of it) are
proved, and no run repeats them.

Bounds: `MaxGeneration` 2 lets one edit fall under a reconcile (a deletion adds one
generation more), and further generations meet the same comparisons. Two versions of each Secret are
what a rotation between two reads needs. Two or three requests suffice for a probe, a
late result and a bystander; the number of tokens bounds how often a
session expires. The proofs need none of these bounds.

### Expected violations

The code does not do what a document of the repository says. `PROJECT.json` quotes the
lines.

| run | property | what happens |
|---|---|---|
| `hot_loop` | `NoHotLoop` | a failing connection's own status writes (Progressing, Error) queue it again at once, so the 30 s and 2 min delays, and with them the backstop timers, decide nothing |
| `number_drift` | `DefineOnlyOnDrift` | a number of a million or more is read back as `4.194304e+06`, differs from the spec's text, and is defined again on every resync |

### Behaviours to know

The models also contain these behaviours of the code. Some properties have a
proviso because of them.

Lifecycle:

- A terminal answer of mqweb that is not the spec's fault (a 401 while a password is rotated, a
  DELETE refused because the queue is in use) ends the retries of a custom resource until
  somebody touches it or its connection (`setSyncedError`). `Resting` allows it, and
  `EventuallySynced` and `EventuallyReleased` have it as their one exception (`GivenUp`): a resource in that state
  stays as it is though everything works again. ADR-0022 (lines 50-52) says that a deletion whose "connection
  chain is broken keeps requeueing with a clear condition instead of failing terminally with no
  requeue", and the comment in `setSyncedError` calls the terminal failures "bad spec — retrying cannot help".
- Deleting a custom resource that `FailIfExists` blocks deletes the foreign object: the deletion
  path does not look at the adoption policy.
- A crash between the DEFINE and the status write makes the operator's own object look foreign,
  because `observedGeneration` is the only memory of adoption; with `FailIfExists` it is then blocked
  by its own object.
- Observe-only is looked at before the adoption policy for queues, topics and channels, so an
  observed `FailIfExists` custom resource over a matching object counts as having adopted it;
  `NeverAdopts` is a property of the auth kinds.
- The webhooks of queues, topics, channels and connections also validate the update that removes a
  finalizer: an orphan deletion waits for the connection (`Releasable`), and the connection's
  deletion for its Secret (`DeletionSucceeds`), against ADR-0022 and ADR-0023. A Channel whose
  create overlapped the delete of its connection (`raced`) cannot be deleted until the connection is
  created again.
- `suspend` is looked at before the deletion timestamp and hides force-orphan.
- A DEFINE that mqweb carries out after its time-out, when the resource is already gone, leaves the
  object behind (`lateDefine`). So does a rename of the object in the spec.

Values:

- `SET AUTHREC` sends `AUTHADD` only, so an authority dropped from the spec stays, the
  record is reported synced, and each resync writes again; `SyncedMeansApplied` is therefore not a
  property of `AuthorityRecord`.
- An edit of attributes that drift detection does not compare is not sent to the queue manager.
- Results of the DISPLAY probe are kept as long as the client. When mqweb stops to display an attribute
  that is cached as displayable, every DISPLAY of a local queue fails until the client is replaced
  (`CacheHolds`). A probe queue that is missing is
  taken for a missing object, which is defined again (`missed`); in the second resolution it is an error.
- Two map keys that differ in case, or by a long and a short name, are one attribute; which wins depends
  on Go's order of the map (`Unambiguous`). A keyword outside `caseInsensitiveAttrKeys` that the spec has
  in lower case never matches (`Recognisable`).
- GET of a CHLAUTH rule asks by one clause and merges all rules of the answer, the last value of each attribute
  winning. A difference in the mixture makes the resource SET its rule on every resync; no difference
  makes it Synced even when none of the rules is the one it asks for (`mixed`).
- A field of another rule type is compared but never sent; such rules are set again on every resync
  (`Applicable`), and so are rules that two resources name (`Sole`).
- A list that names one authority in two cases is longer than the set it means and never matches.

Connection and client:

- A reconcile that is under way during `ReleaseConnection` stores its client afterwards, for good
  (`overlap`); the fingerprint holds no UID, so a later connection of the same name, generation
  and Secrets would be given it.
- A half-open probe that is aborted reports nothing, and the breaker refuses every request from then on
  (`lost`), until the client is replaced.
- A request that saw one token and attached a newer one, which is refused, does not log in and
  sends the refused token again; hence the proviso of `FreshAfterSeen`.
- A List that fails while a Secret's event is mapped loses the event; hence the proviso of
  `RotationNoticed`.

### Fairness and deadlock

**Fairness.** The worker goroutine, the informer, pending timers and the garbage
collector are weakly fair: the Go scheduler runs them, and nothing in the code can
disable them for good. Users, administrators, faults and restarts owe nothing. The
liveness properties assume that these stop at some point (`Quiet`), because a
custom resource edited for ever never settles, and that what the property needs works from then on.
`Quiet` says that from some time on every step is one of the operator's or the cluster's own.
It does not say that no step looks like a fault: a timer that fires can look like a restart, and such
behaviours must not be excused.
In `Operator`, `ObjectSync` and `AuthSync` the reconciles of a resource are weakly fair: requeues and the
periodic resync of `drift_resync.go` bring every resource back, and which of them does is the
subject of `WorkloadReconcile`. In `Operator` the informer cache, the connection's own reconcile, the
stores of validated requests and the late commands are weakly fair too, the cache as a whole and not each
resource in it; users owe deletes only in the plan that tears everything
down, where they send some delete again until nothing is left to delete, in an order they choose.
`CircuitBreaker` also counts on new requests, which the requeued reconciles make, and on time
passing. `LTPASession` takes a request that has begun as strongly fair, since Go's mutex
starves no waiter. Deadlock is checked in every run but `operator`.

## 5. Proofs

`WorkloadReconcileProofs` proves, for every kind and every choice of the
constants that satisfies the assumptions of `WorkloadReconcile`:

| theorem | statement |
|---|---|
| `TypeCorrect` | `Spec => []TypeOK` |
| `CleanupProved` | `Spec => []CleanupBeforeRelease` |
| `SyncedProved` | `Spec => []SyncedMeansApplied`, for every kind but `AuthorityRecord` |
| `GrantedProved` | `Spec => []SyncedMeansGranted` |
| `NeverWedgedProved` | `Spec => []NeverWedged` |
| `AdoptionProved` | `Spec => AdoptionRespected` |
| `NeverAdoptsProved` | `Spec => NeverAdopts`, for the two auth kinds |
| `PromiseKept` | `Spec => KeepsPromise`, the refinement of `ManagedObject` |

Assumptions: there is at least one value, objects and specs are functions on
`Attributes`, values are closed under adding authorities, and users, administrators
and faults choose from the sets the constants name.

None of the properties is inductive, since each step acts on copies. The
inductive invariant `IInv` adds to `TypeOK`:

- `CopiesInv`: a copy that claims the latest `resourceVersion` is the custom resource,
  and a stale cache without a pending event differs from it only in what the event filter ignores;
- `WorkerInv` and `PatchInv`: what the program counter says about the worker's copy (it
  has the finalizer at `get`, `define`, `delete`; it is deleting at `removeFinalizer`;
  which condition goes with which continuation);
- `FinalizerInv`, `ReleaseInv`: a copy that is not being deleted has a finalizer only if the
  custom resource does; while the worker is about to write the object, the custom resource
  still has the finalizer, because only the one worker takes it away; at
  `removeFinalizer` the object is gone or the worker's copy asks for an orphan;
- `GenerationInv`, `AppliedInv`: a condition of the current generation was computed from the
  current spec, and a worker about to write `Available` has seen or made a match;
- `WakeInv`: a custom resource that is not at rest has a request queued, a timer, an
  event on its way or a worker on it.

`Inductive` proves it with one lemma per action (`ReconcileStep`, `ResolveStep`,
`ObserveStep`, `DefineStep`, ...). `AdoptionProved` adds `AdoptionInv`: at `define`,
for a copy that has adopted nothing yet and whose policy is not `Adopt`, the object is missing or was put there after
the GET (`touched`). `NeverAdoptsProved` adds `AnnouncementInv`:
a worker about to announce success for a resource that must not adopt, and has not, wrote the object
itself, or somebody has changed it since the GET.

`PromiseKept`: initial states map to
initial states, and each action maps to a step of `ManagedObject` or a stutter, one lemma per action. It needs
`IInv` and one fact more (`FenceInv`): a worker at `delete` has written the Deleting condition
from its copy, so that copy was the stored resource then, and since nobody but this worker
takes the finalizer away, the stored resource still has it and is still being deleted. Without the
status write in front of it, the DELETE could be sent for a resource that was created again
under the same name.

`OperatorProofs` holds for any number of Channels, rules, creations, time-outs, outages and
restarts:

| theorem | statement |
|---|---|
| `OperatorTypeCorrect` | `Spec => []TypeOK` |
| `ConnectionHeld` | `Spec => []ConnectionOutlivesDependents` |
| `NothingOrphaned` | `Spec => []NoOrphanObject` |

It assumes that Channels and rules are distinct, and that `NoObject` is none of them. `ConnectionHeld` rests on
`AdmissionInv`: a validated create that nothing overlapped still has its connection, a validated delete
that nothing overlapped still has no dependents, and no two requests are for one
object. `NothingOrphaned` adds `CleanupInv`: a copy that calls for a DEFINE is of a resource whose finalizer is
still there, because only a reconcile of a deleting resource removes it; and an object has the
values of a resource that has the finalizer and has not sent its DELETE (`OwnerInv`), unless a
DEFINE was carried out late. The second is what makes the property inductive when several resources
write one object: a DELETE by any of them clears it, and each DEFINE has an owner that will send one.

`ObjectSyncProofs` holds for any number of objects, any specs of their types, any list of
probed candidates and any number of interferences, with the code's own lists of attributes:

| theorem | statement |
|---|---|
| `SyncTypes` | `Spec => []TypeOK` |
| `ComparedDisplayed` | `Spec => []ComparedWereDisplayed` |
| `WarnedIgnored` | `Spec => []WarnedIsIgnored` |
| `SyncedStored` | `Spec => []SyncedMeansStored` |
| `DefineOnDrift` | `Spec => []DefineAnswersRealDrift` |
| `WellFormedSpecs` | `Spec => []WellFormed`, on which `FoldProved` below rests |

It assumes that the candidates are among those the code lists and that specs are well-formed: every
typed field of the type, and texts as values. `SyncInv`, proved as `SyncInvariant`, has four parts.
`CacheIsRight`: as long as mqweb displays what it always did, the shared cache says what it displays.
`Progress` and `Resolution`: what a reconcile has found displayable and what it has still to look
at cover all there is, so the DISPLAY asked for it, and the second resolution, which other reconciles may
have fed, finds nothing else. `Together`: an answer is what DISPLAY makes of the object that was
read, that object is still there unless somebody disturbed it, and the attributes worked on are
those of the spec. Below it are lemmas about the stateless path of an attribute, which say for every text
that a stored value is read back under the name that is compared (`AnswerShows`), that a
comparison without a difference means an equal stored value (`MatchMeans`), and conversely for recognisable
values (`AgreeMatches`).

`AuthSyncProofs` holds for any number of `ChannelAuthRule`s, any specs of the six types and any number of
interferences:

| theorem | statement |
|---|---|
| `AuthTypes` | `Spec => []TypeOK` |
| `RuleSynced` | `Spec => []RuleSyncedMeansSet` |
| `AuthoritiesCompared` | `Spec => []AuthorityComparison` |

It assumes that a spec has one of the six types and a text in every field, and that lists of authorities are
sequences of words that are not blank. `AuthInv`, proved as
`AuthInvariant`, says that every rule of the queue manager was SET from a spec with clauses its type
has (`Rulebook`), and that an undisturbed resource works on its spec as it is, and holds a rule that
treats connections as the spec says whenever its answer needs no update or it is Synced, unless the answer was a
mixture (`Reliable`). Three lemmas carry it. `Merged`: the merged answer has each attribute from one of the rules, and
is the rule's own when there is one.
`NoDriftTreats`: the comparison runs over the fields of the spec and SET sends clauses, but a field that
is not sent for a type is in no rule of that type, so no difference means the same treatment. `SetKeeps`: a SET replaces
rules of one identity only, which match the same as the rule it sets, so a resource that is not disturbed keeps
its rule. `AuthoritiesCompared` is about sorting: every finite set can be listed in the order of the
alphabet (`SortedExists`, by induction over its size), so the sorted list that
`normalizeAuthoritySet` chooses exists; two sorted lists without repetitions that name the same
set are the same list (`SortedAlike`), so the comparison place by place is one of sets. The invariant
`RecordInv` adds that DISPLAY's answer is a listing of a finite set and that the verdict was computed
from the list and that answer.

The other proof modules hold for any number of requests, workers, attempts, generations,
tokens and versions:

| theorem | statement | why it is inductive |
|---|---|---|
| `ReadyMeansPingedProved`, `NeverStuckProved`, `ConnTypeCorrect` | the invariants of `ConnectionReconcile` | `ConnInv`: the worker's copy is the stored connection while `current`; once it is not, the connection is not ready at its generation and an event or a request is pending; a copy about to become Available was pinged |
| `FreshClientProved`, `CacheBoundedProved`, `FactoryTypeCorrect` | the invariants of `ClientFactory` | `FactoryInv`: what is read later is newer (Secrets at the call, in the fingerprint, in the client), and a cached client is at least as new as its fingerprint; `ReleaseInv`: between a release that nobody overlapped and the next connection no call is under way |
| `ProbeProved`, `CountProved`, `OneProbeProved`, `BreakerTypeCorrect` | the invariants of `CircuitBreaker` | who the prober is, and that only requests admitted before the breaker opened are in flight besides it |
| `BackoffProved` | `Spec => []BackoffDoubles` | it holds in every state: see below |
| `FoldProved` | `[]WellFormed => []FoldKeepsMeaning` | it holds in every state with well-formed specs: see below |
| `OneLoginProved`, `LoginsProved`, `FreshProved`, `SessionTypeCorrect` | the invariants of `LTPASession` | `SessionInv`: nobody saw or attached a generation from the future, and past a re-login there is a newer session than was seen |

`BackoffProved` and `FoldProved` are about loops over data. The provers cannot use an induction theorem
that takes a predicate as its parameter, so `LoopProofs` derives one about sets from the well-foundedness of the
numbers (`SetInduction`: a set that holds 0 and, with each number, the next holds all of them), and states what
is to be shown as membership. A recursive function of the model is a choice among functions that satisfy its equation; the first
induction shows that there is one (`SleepsExist`, `LoopExists`), the second what it returns.

- `BackoffProved`, for any number of attempts and any two delays: as long as no doubled delay has reached the cap the loop's
  value is the base doubled once per attempt (`DoubledSteps`), and from then on it is the cap
  (`CappedAtTheEnd`).
- `FoldProved`, for well-formed specs with any finite number of keys: the invariant of the loop, `LeftBy`, says of
  the keys visited so far that a field has its old value or that of a visited key it can take, that a
  key is gone only if its field is set, and that every key that could be taken is gone. It holds after the last key
  in whatever order they came (`FoldedLeaves`). On the other side, what an object is
  defined with depends only on which values a spec gives to a keyword (`Gives`), spelled as the queue manager
  stores them (`MeaningMade`, `SameMeaning`). An unambiguous spec gives one value to each keyword, and a
  fold moves it from the map to the field without changing what it says (`TakenSaysTheSame`).

Only model-checked: the liveness properties (`EventuallySynced`, `EventuallyReleased`,
`EventuallyReady`, `Settles`, `RotationNoticed`, `DeletionSucceeds`,
`RecoversUnlessLost`, `RequestsReturn`, `SurvivorHeals`, `TearsDown`, `RulesSettle`,
`AuthoritySettles`), because the prover does not handle fairness. Every invariant and action
property of the passing runs is proved.

## 6. Not modelled

- The quoting and parsing of MQSC text (`mqsc_format.go`, `mqsc_display_parse.go`) beyond which values are
  refused, which clauses a command has and which attributes an answer holds.
- Field requirements of admission that look at one object without state: required fields of
  channel types, the keys of a connection's Secrets, error wording.
- The lengths of requeue intervals and their environment overrides, Kubernetes events, and which
  of a connection's references names a Secret.
- The contents of a client (TLS configuration, URL) and closing its idle connections.
- The readiness probe, a pure function of the connections' statuses; metrics and logging, on which
  no decision depends; flags and wiring of the process, of which restarts are all that the models see;
  generated code, tools, and the PCF stub, which answers every call with an error.
- Renaming an MQ object in a spec, and leader election: the models have one operator process at a time.
