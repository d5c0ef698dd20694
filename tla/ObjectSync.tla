---------------------------- MODULE ObjectSync ----------------------------
(***************************************************************************)
(* Reconciles of Queue, Topic and Channel resources at the grain of the    *)
(* commands they send: GET, with the probing of what DISPLAY can return    *)
(* for local queues, the comparison, and DEFINE.  Each resource has its    *)
(* own MQ object; the resources share one mqrest client, and with it the   *)
(* cache of probe results, which nothing ever invalidates.                 *)
(*                                                                         *)
(* Two worlds are explored.  Alone: one resource of any type with any of   *)
(* many specs, and nobody else.  Shared: several local queues, users who   *)
(* edit them, administrators who alter the objects or delete the queue     *)
(* that probes look at, and an mqweb that displays more or less than it    *)
(* did.                                                                    *)
(***************************************************************************)
EXTENDS ObjectSpecs

CONSTANTS
    Candidates,     \* the sequence of attributes that are probed
    AloneSpecs(_),  \* the specs looked at in the world alone, for each type
    SharedSpecs,    \* the specs of the local queues of the shared world
    MaxChanges      \* bound: how often the shared world interferes

CandidateSet == {Candidates[i] : i \in DOMAIN Candidates}

ASSUME CandidatesAssumption == Candidates \in Seq(QueueLocalDefineOnlyCandidates)

ASSUME SpecsAssumption ==
    /\ \A t \in ObjectTypes : \A s \in AloneSpecs(t) : IsSpec(t, s)
    /\ \A s \in SharedSpecs : IsSpec("local", s)

ASSUME BoundAssumption == MaxChanges \in Nat

VARIABLES
    world,        \* "alone" or "shared"
    status,       \* the condition of each resource: "none", "Synced" or "Error"
    mq,           \* its MQ object
    r,            \* its reconcile, see Idle
    shows,        \* the candidates mqweb can display
    probeObject,  \* the queue that probes look at exists
    displayProbeCache, \* what the client knows about the candidates
    changes,      \* how often the shared world has interfered
    disturbed,    \* history: spec or object changed since the reconcile began
    upgraded      \* history: mqweb has changed what it displays

vars == <<world, type, spec, status, mq, r, shows, probeObject, displayProbeCache,
          changes, disturbed, upgraded>>

NoObject == [exists |-> FALSE]

Object(stored) == [exists |-> TRUE, stored |-> stored]

(***************************************************************************)
(* The local variables of a reconcile: where it is; the attributes it      *)
(* wants; what the keys are resolved for; the candidates still to resolve  *)
(* and those found displayable; what GET returned.  History: the           *)
(* attributes the GET asked for, the object when it read it, and whether a *)
(* probe found its queue missing.                                          *)
(***************************************************************************)
Idle == [pc |-> "idle", desired |-> <<>>, call |-> "get", left |-> <<>>, extra |-> {},
         seen |-> NoObject, asked |-> {}, was |-> NoObject, missed |-> FALSE]

\* A resource that does not exist.
Absent == [Idle EXCEPT !.pc = "absent"]

\* The keys a reconcile of o compares.
driftKeys(o) == DriftCheckKeys(type[o]) \cup r[o].extra

-----------------------------------------------------------------------------
(***************************************************************************)
(* A reconcile                                                             *)
(***************************************************************************)

\* Mutant: a reconcile that fails leaves the condition blank.
ReturnBlank(o, s) ==
    /\ r' = [r EXCEPT ![o] = Idle]
    /\ status' = [status EXCEPT ![o] = IF s = "Error" THEN "" ELSE s]

Return(o, s) ==
    /\ r' = [r EXCEPT ![o] = Idle]
    /\ status' = [status EXCEPT ![o] = s]

\* The keys are resolved for c: only local queues have candidates to probe.
Resolving(o, c) ==
    [r[o] EXCEPT !.pc = "resolve", !.call = c, !.extra = {},
                 !.left = IF type[o] = "local" THEN Candidates ELSE <<>>]

\* ensureQueue, ensureTopic or ensureChannel begins.
Begin(o) ==
    /\ r[o].pc = "idle"
    /\ \E attrs \in toMQSpec(type[o], spec[o]) :
          r' = [r EXCEPT ![o] = [Resolving(o, "get") EXCEPT !.desired = attrs]]
    /\ disturbed' = [disturbed EXCEPT ![o] = FALSE]
    /\ UNCHANGED <<world, type, spec, status, mq, shows, probeObject, displayProbeCache,
                   changes, upgraded>>

\* The reconcile has an answer for the next candidate.
Resolved(o, displayable) ==
    [r[o] EXCEPT !.pc = "resolve", !.left = Tail(@),
                 !.extra = IF displayable THEN @ \cup {Head(r[o].left)} ELSE @]

\* The cache is looked at under the mutex, which is given up before the probe.
probeQueueLocalDisplayableCached(o) ==
    /\ r[o].pc = "resolve" /\ r[o].left # <<>>
    /\ LET a == Head(r[o].left)
       IN  r' = [r EXCEPT ![o] = IF a \in DOMAIN displayProbeCache
                                 THEN Resolved(o, displayProbeCache[a])
                                 ELSE [@ EXCEPT !.pc = "probe"]]
    /\ UNCHANGED <<world, type, spec, status, mq, shows, probeObject, displayProbeCache,
                   changes, disturbed, upgraded>>

\* Mutant: an attribute that cannot be displayed is an error.
ProbeQueueLocalAttributeRejected(o) ==
    /\ r[o].pc = "probe"
    /\ \/ /\ Head(r[o].left) \in shows /\ probeObject
          /\ r' = [r EXCEPT ![o].pc = "storeYes"]
          /\ UNCHANGED status
       \/ ~(Head(r[o].left) \in shows /\ probeObject) /\ Return(o, "Error")
    /\ UNCHANGED <<world, type, spec, mq, shows, probeObject, displayProbeCache,
                   changes, disturbed, upgraded>>

\* A DISPLAY of the one attribute.  mqweb rejects an attribute it cannot
\* display (MQWB0120E) before it looks for the queue.  A missing probe queue is
\* a NotFoundError, which GetQueue passes on and ensureQueue takes for a missing
\* object; from the second resolution it is an error like any other.
ProbeQueueLocalAttributeDisplayable(o) ==
    /\ r[o].pc = "probe"
    /\ LET displayable == Head(r[o].left) \in shows
       IN  \/ /\ ~displayable \/ probeObject
              /\ r' = [r EXCEPT ![o].pc = IF displayable THEN "storeYes" ELSE "storeNo"]
              /\ UNCHANGED status
           \/ /\ displayable /\ ~probeObject /\ r[o].call = "get"
              /\ r' = [r EXCEPT ![o] = [Resolving(o, "drift") EXCEPT !.missed = TRUE]]
              /\ UNCHANGED status
           \/ displayable /\ ~probeObject /\ r[o].call = "drift" /\ Return(o, "Error")
    /\ UNCHANGED <<world, type, spec, mq, shows, probeObject, displayProbeCache,
                   changes, disturbed, upgraded>>

\* Mutant: whatever was found is stored as displayable.
StoreProbeResultAlways(o) ==
    /\ r[o].pc \in {"storeYes", "storeNo"}
    /\ displayProbeCache' = With(displayProbeCache, Head(r[o].left), TRUE)
    /\ r' = [r EXCEPT ![o] = Resolved(o, r[o].pc = "storeYes")]
    /\ UNCHANGED <<world, type, spec, status, mq, shows, probeObject, changes, disturbed,
                   upgraded>>

\* The result is stored under the mutex, over whatever is there by now.
StoreProbeResult(o) ==
    /\ r[o].pc \in {"storeYes", "storeNo"}
    /\ displayProbeCache' = With(displayProbeCache, Head(r[o].left), r[o].pc = "storeYes")
    /\ r' = [r EXCEPT ![o] = Resolved(o, r[o].pc = "storeYes")]
    /\ UNCHANGED <<world, type, spec, status, mq, shows, probeObject, changes, disturbed,
                   upgraded>>

\* The texts of a DISPLAY's answer, which has long or short names.
Answer(o, long) == firstObjectAttributes(Displayed(type[o], mq[o].stored, driftKeys(o), long))

\* A DISPLAY, with the normalised answers it may get.  It fails as a whole when
\* one of its attributes cannot be displayed.
Display(o, answers) ==
    /\ r[o].pc = "resolve" /\ r[o].left = <<>> /\ r[o].call = "get"
    /\ \/ /\ r[o].extra \subseteq shows
          /\ \E long \in BOOLEAN :
                LET got == IF mq[o].exists THEN Object(answers[long]) ELSE NoObject
                IN  r' = [r EXCEPT ![o] = [Resolving(o, "drift") EXCEPT
                            !.seen = got, !.asked = driftKeys(o), !.was = mq[o]]]
          /\ UNCHANGED status
       \/ ~(r[o].extra \subseteq shows) /\ Return(o, "Error")
    /\ UNCHANGED <<world, type, spec, mq, shows, probeObject, displayProbeCache,
                   changes, disturbed, upgraded>>

GetQueue(o) ==
    /\ type[o] \in QueueTypes
    /\ Display(o, [long \in BOOLEAN |-> normalizeQueueAttributes(Answer(o, long), type[o])])

GetTopic(o) ==
    /\ type[o] = "topic"
    /\ Display(o, [long \in BOOLEAN |-> normalizeTopicAttributes(Answer(o, long))])

GetChannel(o) ==
    type[o] \in ChannelTypes /\ Display(o, [long \in BOOLEAN |-> Answer(o, long)])

\* Mutant: an object that exists is always left alone.
reconcileMQObjectStateIfMissing(o) ==
    /\ r[o].pc = "resolve" /\ r[o].left = <<>> /\ r[o].call = "drift"
    /\ \/ ~r[o].seen.exists /\ r' = [r EXCEPT ![o].pc = "define"] /\ UNCHANGED status
       \/ r[o].seen.exists /\ Return(o, "Synced")
    /\ UNCHANGED <<world, type, spec, mq, shows, probeObject, displayProbeCache,
                   changes, disturbed, upgraded>>

\* The policy is Adopt and the resource is not observe-only.
reconcileMQObjectState(o) ==
    /\ r[o].pc = "resolve" /\ r[o].left = <<>> /\ r[o].call = "drift"
    /\ LET needsUpdate ==
               r[o].seen.exists =>
                   AttributesNeedUpdate(r[o].desired, r[o].seen.stored, driftKeys(o))
       IN  \/ needsUpdate /\ r' = [r EXCEPT ![o].pc = "define"] /\ UNCHANGED status
           \/ ~needsUpdate /\ Return(o, "Synced")
    /\ UNCHANGED <<world, type, spec, mq, shows, probeObject, displayProbeCache,
                   changes, disturbed, upgraded>>

\* A DEFINE ... REPLACE: the queue manager takes or refuses it.
Define(o, params) ==
    /\ r[o].pc = "define"
    /\ \/ /\ Accepted(params)
          /\ \E stored \in StoredValues(params) : mq' = [mq EXCEPT ![o] = Object(stored)]
          /\ Return(o, "Synced")
       \/ ~Accepted(params) /\ Return(o, "Error") /\ UNCHANGED mq
    /\ UNCHANGED <<world, type, spec, shows, probeObject, displayProbeCache,
                   changes, disturbed, upgraded>>

DefineQueue(o) == type[o] \in QueueTypes /\ Define(o, defineQueueParameters(r[o].desired))

DefineTopic(o) == type[o] = "topic" /\ Define(o, defineTopicParameters(r[o].desired))

DefineChannel(o) == type[o] \in ChannelTypes /\ Define(o, defineChannelParameters(r[o].desired))

Worker(o) ==
    \/ Begin(o) \/ probeQueueLocalDisplayableCached(o)
    \/ ProbeQueueLocalAttributeDisplayable(o) \/ StoreProbeResult(o)
    \/ GetQueue(o) \/ GetTopic(o) \/ GetChannel(o)
    \/ reconcileMQObjectState(o)
    \/ DefineQueue(o) \/ DefineTopic(o) \/ DefineChannel(o)

-----------------------------------------------------------------------------
(***************************************************************************)
(* The world around it                                                     *)
(***************************************************************************)

Interfere == world = "shared" /\ changes < MaxChanges /\ changes' = changes + 1

\* A command does not get through, or its answer does not; a DEFINE may have
\* been carried out all the same.
CommandFails(o) ==
    /\ Interfere
    /\ \/ r[o].pc = "probe" /\ UNCHANGED mq
       \/ r[o].pc = "resolve" /\ r[o].left = <<>> /\ r[o].call = "get" /\ UNCHANGED mq
       \/ /\ r[o].pc = "define"
          /\ LET params == DefineParameters(type[o], r[o].desired)
             IN  \/ /\ Accepted(params)
                    /\ \E stored \in StoredValues(params) :
                          mq' = [mq EXCEPT ![o] = Object(stored)]
                 \/ UNCHANGED mq
    /\ Return(o, "Error")
    /\ UNCHANGED <<world, type, spec, shows, probeObject, displayProbeCache, disturbed,
                   upgraded>>

EditSpec(o) ==
    /\ Interfere
    /\ \E s \in SharedSpecs \ {spec[o]} : spec' = [spec EXCEPT ![o] = s]
    /\ disturbed' = [disturbed EXCEPT ![o] = TRUE]
    /\ UNCHANGED <<world, type, status, mq, r, shows, probeObject, displayProbeCache,
                   upgraded>>

\* An administrator deletes the object, or defines it with nothing but defaults.
OutOfBand(o) ==
    /\ Interfere
    /\ \E m \in {NoObject, Object(<<>>)} \ {mq[o]} : mq' = [mq EXCEPT ![o] = m]
    /\ disturbed' = [disturbed EXCEPT ![o] = TRUE]
    /\ UNCHANGED <<world, type, spec, status, r, shows, probeObject, displayProbeCache,
                   upgraded>>

\* mqweb is brought to another level, which displays other candidates.
Upgrade ==
    /\ Interfere
    /\ shows' \in SUBSET CandidateSet \ {shows}
    /\ upgraded' = TRUE
    /\ UNCHANGED <<world, type, spec, status, mq, r, probeObject, displayProbeCache,
                   disturbed>>

\* The queue that probes look at is deleted or defined again.
ProbeObjectChange ==
    /\ Interfere
    /\ probeObject' = ~probeObject
    /\ UNCHANGED <<world, type, spec, status, mq, r, shows, displayProbeCache,
                   disturbed, upgraded>>

InitAlone ==
    /\ world = "alone"
    /\ \E t \in ObjectTypes : \E s \in AloneSpecs(t) :
          type = [o \in Objects |-> t] /\ spec = [o \in Objects |-> s]
    /\ LET first == CHOOSE o \in Objects : TRUE
       IN  r = [o \in Objects |-> IF o = first THEN Idle ELSE Absent]
    /\ shows = CandidateSet

InitShared ==
    /\ world = "shared"
    /\ type = [o \in Objects |-> "local"]
    /\ \E s \in SharedSpecs : spec = [o \in Objects |-> s]
    /\ r = [o \in Objects |-> Idle]
    /\ shows \in SUBSET CandidateSet

Init ==
    /\ InitAlone \/ InitShared
    /\ mq = [o \in Objects |-> NoObject]
    /\ status = [o \in Objects |-> "none"]
    /\ probeObject = TRUE
    /\ displayProbeCache = <<>>
    /\ changes = 0
    /\ disturbed = [o \in Objects |-> FALSE]
    /\ upgraded = FALSE

Next ==
    \/ \E o \in Objects : Worker(o) \/ CommandFails(o) \/ EditSpec(o) \/ OutOfBand(o)
    \/ Upgrade \/ ProbeObjectChange

Spec == Init /\ [][Next]_vars

\* A resource is reconciled again and again (resync and requeues), and a
\* reconcile that has begun goes on.
FairSpec == Spec /\ \A o \in Objects : WF_vars(Worker(o))

-----------------------------------------------------------------------------
(***************************************************************************)
(* Properties                                                              *)
(***************************************************************************)

TypeOK ==
    /\ world \in {"alone", "shared"}
    /\ \A o \in Objects :
          /\ type[o] \in ObjectTypes
          /\ DOMAIN spec[o].typed = Fields(type[o])
          /\ status[o] \in {"none", "Synced", "Error"}
          /\ r[o].pc \in {"absent", "idle", "resolve", "probe", "storeYes", "storeNo", "define"}
          /\ r[o].call \in {"get", "drift"}
          /\ \A a \in DOMAIN r[o].desired : IsText(r[o].desired[a])
          /\ Len(r[o].left) <= Len(Candidates)
          /\ r[o].extra \subseteq CandidateSet
          /\ r[o].asked \subseteq DriftCheckKeys(type[o]) \cup CandidateSet
          /\ mq[o].exists => \A a \in DOMAIN mq[o].stored : IsText(mq[o].stored[a])
    /\ shows \subseteq CandidateSet
    /\ DOMAIN displayProbeCache \subseteq CandidateSet
    /\ probeObject \in BOOLEAN /\ upgraded \in BOOLEAN

\* The texts of a spec that DISPLAY gives back in a form the comparison
\* recognises: numbers below a million that are written without an exponent,
\* and in capital letters the keywords that are compared with case.
Recognisable(attrs) ==
    \A a \in DOMAIN attrs :
        /\ a \in NumberAttributes => /\ attrs[a].style \cap {"wide", "exp"} = {}
                                     /\ attrs[a].n < FirstWithExponent
        /\ a \in KeywordAttributes \ caseInsensitiveAttrKeys => "caps" \in attrs[a].style

\* What the queue manager has for attribute a is what the reconcile wants.
Agrees(o, a) == ValueOf(r[o].was.stored, MQSCKeyword(a)) = Meaning(MQSCKeyword(a), r[o].desired[a])

\* A drift-checked key differs, or the object was missing.
RealDrift(o) ==
    \/ ~r[o].was.exists
    \/ \E a \in DOMAIN r[o].desired :
          MQSCKeyword(a) \in {MQSCKeyword(k) : k \in driftKeys(o)} /\ ~Agrees(o, a)

\* ADR-0010, "DEFINE ... REPLACE only when the object is missing or a
\* drift-checked key differs": a reconcile that is about to DEFINE read an
\* object that is missing or really differs.
DefineOnlyOnDrift == \A o \in Objects : r[o].pc = "define" => RealDrift(o)

\* The same with its exceptions: unless a value is one that DISPLAY gives back
\* in a form the comparison does not recognise, mqweb changed what it displays,
\* or the probe found its queue missing, a DEFINE answers a real difference,
\* whatever spelling the spec and the answer use and however the reconciles
\* that fill the probe cache interleave.
DefineAnswersRealDrift ==
    \A o \in Objects :
        (/\ r[o].pc = "define" /\ ~upgraded /\ ~r[o].missed
         /\ Recognisable(r[o].desired)) => RealDrift(o)

\* GetQueue and DriftCheckKeys resolve the displayable attributes one after the
\* other: as long as mqweb stays as it is, the comparison never looks at an
\* attribute the DISPLAY was not asked for, though other reconciles write the
\* probe cache in between.
ComparedWereDisplayed ==
    \A o \in Objects :
        (r[o].call = "drift" /\ ~upgraded /\ ~r[o].missed) => driftKeys(o) \subseteq r[o].asked

\* Synced=True: the MQ object has, for every attribute in the base list of
\* drift-checked keys, the value a reconcile of the spec gives it, until the
\* spec or the object is changed.
SyncedMeansStored ==
    \A o \in Objects : (status[o] = "Synced" /\ r[o].pc = "idle" /\ ~disturbed[o]) =>
        /\ mq[o].exists
        /\ \E attrs \in toMQSpec(type[o], spec[o]) :
              \A a \in DOMAIN attrs \cap driftCheckKeySet(DriftCheckKeys(type[o])) :
                  \E stored \in StoredValues(DefineParameters(type[o], attrs)) :
                      ValueOf(mq[o].stored, MQSCKeyword(a)) = stored[MQSCKeyword(a)]

\* A spec whose DEFINE the queue manager takes and whose values it gives back
\* in a form the comparison recognises.
Settleable(t, s) ==
    /\ Unambiguous(t, s)
    /\ \A attrs \in toMQSpec(t, s) :
          Recognisable(attrs) /\ Accepted(DefineParameters(t, attrs))

\* What the probe cache says mqweb displays, it does display.
CacheHolds == \A a \in DOMAIN displayProbeCache : displayProbeCache[a] => a \in shows

\* "DEFINE ... REPLACE only when the object is missing or a drift-checked key
\* differs", over time: when users, administrators and mqweb leave a resource
\* alone and the queue that probes look at is there, it becomes Synced, stays
\* so, and is never defined again, though the probe cache may hold that an older
\* mqweb did not display what this one does.  The proviso is the opposite case:
\* with an attribute in the cache that mqweb no longer displays, every DISPLAY
\* fails, for nothing ever removes it.
Settles ==
    \A o \in Objects :
        (/\ r[o].pc # "absent"
         /\ <>[](Settleable(type[o], spec[o]) /\ probeObject /\ CacheHolds))
            => <>[](status[o] = "Synced" /\ r[o].pc # "define")

\* The admission warning "it may still be applied by MQ but is ignored for
\* drift detection": a key it is given for is never what a reconcile compares.
WarnedIsIgnored ==
    \A o \in Objects : (r[o].pc = "resolve" /\ r[o].left = <<>> /\ r[o].call = "drift") =>
        \A w \in unknownAttributeWarnings(type[o], spec[o].attributes) :
            NormalizeAttrKey(w) \notin driftCheckKeySet(driftKeys(o))
=============================================================================
