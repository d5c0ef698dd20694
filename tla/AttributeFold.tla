--------------------------- MODULE AttributeFold ---------------------------
(***************************************************************************)
(* Folding promoted map keys of a spec into its typed fields, and the      *)
(* warnings admission gives about such keys.  It is a pure function of a   *)
(* spec, but for the order in which Go visits a map.                       *)
(***************************************************************************)
EXTENDS ObjectSpecs, Functions

\* Mutant: the long names are not folded.
queueFoldsShortNames == [f \in QueueFields |-> {f}]

queueFolds ==
    [f \in QueueFields |->
        CASE f = "targq"   -> {"targq", "target"}
          [] f = "xmitq"   -> {"xmitq", "transmissionqueue"}
          [] f = "rqmname" -> {"rqmname", "remotemanager"}
          [] OTHER         -> {f}]

topicFolds == [f \in TopicFields |-> IF f = "topstr" THEN {"topstr", "topicstr"} ELSE {f}]

channelFolds == [f \in ChannelFields |-> {f}]

normalizeTopicAttrKey(key) == IF key.name = "topicstr" THEN "topstr" ELSE key.name

\* apply of the fold for field f: whether it takes the value, which it does
\* when the field is unset and, for an integer, the text parses.
Applies(typed, f, t) == typed[f] = Empty /\ (f \in IntFields => ParseInt32(t))

typedFieldSet(typed, f) == typed[f] # Empty

\* The body of the loop over the map: the key goes when its value was taken or
\* the field was set before.
FoldKey(folds, norm, s, key) ==
    LET value == s.attributes[key]
        hits  == {f \in DOMAIN folds : norm[key] \in folds[f]}
        typed == [f \in DOMAIN folds |->
                     IF f \in hits /\ Applies(s.typed, f, value)
                     THEN IF f \in IntFields THEN Itoa(value) ELSE value
                     ELSE s.typed[f]]
        gone  == \E f \in hits : Applies(s.typed, f, value) \/ typedFieldSet(typed, f)
    IN  [typed |-> typed,
         attributes |-> IF gone THEN Without(s.attributes, key) ELSE s.attributes]

\* The spec after the loop has visited the first n keys of order.
FoldFirst(folds, norm, s, order, n) ==
    LET after[i \in 0 .. n] ==
            IF i = 0 THEN s ELSE FoldKey(folds, norm, after[i - 1], order[i])
    IN  after[n]

\* Go visits the entries of a map in any order.
FoldInAnyOrder(folds, norm, s) ==
    LET keys == DOMAIN s.attributes
        size == Cardinality(keys)
    IN  {FoldFirst(folds, norm, s, order, size) : order \in Bijection(1 .. size, keys)}

FoldQueueAttributesToTyped(s) ==
    FoldInAnyOrder(queueFolds, [k \in DOMAIN s.attributes |-> k.name], s)

FoldTopicAttributesToTyped(s) ==
    FoldInAnyOrder(topicFolds, [k \in DOMAIN s.attributes |-> normalizeTopicAttrKey(k)], s)

FoldChannelAttributesToTyped(s) ==
    FoldInAnyOrder(channelFolds, [k \in DOMAIN s.attributes |-> k.name], s)

Folded(t, s) ==
    IF t \in QueueTypes THEN FoldQueueAttributesToTyped(s)
    ELSE IF t = "topic" THEN FoldTopicAttributesToTyped(s)
    ELSE FoldChannelAttributesToTyped(s)

-----------------------------------------------------------------------------
(***************************************************************************)
(* What admission says about promoted keys                                 *)
(***************************************************************************)

deprecatedQueueAttributeFields ==
    [k \in QueueFields \cup {"target", "transmissionqueue", "remotemanager"} |->
        CASE k = "target"            -> "targq"
          [] k = "transmissionqueue" -> "xmitq"
          [] k = "remotemanager"     -> "rqmname"
          [] OTHER                   -> k]

deprecatedTopicAttributeFields ==
    [k \in TopicFields \cup {"topicstr"} |-> IF k = "topicstr" THEN "topstr" ELSE k]

deprecatedChannelAttributeFields == [k \in ChannelFields |-> k]

\* The keys the "deprecated; use spec.<field>" warning is about, with the field.
deprecatedAttributeWarnings(t, attrs) ==
    LET fields == IF t \in QueueTypes THEN deprecatedQueueAttributeFields
                  ELSE IF t = "topic" THEN deprecatedTopicAttributeFields
                  ELSE deprecatedChannelAttributeFields
        old    == {k \in DOMAIN attrs : NormalizeAttrKey(k) \in DOMAIN fields}
    IN  {[key |-> k, field |-> fields[NormalizeAttrKey(k)]] : k \in old}

-----------------------------------------------------------------------------
(***************************************************************************)
(* The property                                                            *)
(***************************************************************************)

\* What the object would be defined with.
MeaningOf(t, s) == UNION {StoredValues(DefineParameters(t, attrs)) : attrs \in toMQSpec(t, s)}

\* Folding s changes nothing of what the object is defined with, in whatever
\* order the map is visited, and every key that admission calls deprecated ends
\* in the field the warning names, unless it is no number the field can hold.
Kept(t, s) ==
    \A folded \in Folded(t, s) :
        /\ MeaningOf(t, folded) = MeaningOf(t, s)
        /\ \A w \in deprecatedAttributeWarnings(t, s.attributes) :
              \/ folded.typed[w.field] # Empty /\ w.key \notin DOMAIN folded.attributes
              \/ w.field \in IntFields /\ ~ParseInt32(s.attributes[w.key])

\* Fold*AttributesToTyped, "typed fields already on spec win": a spec whose keys
\* are unambiguous and not blank means the same after the fold.
FoldKeepsMeaning ==
    \A o \in Objects :
        (/\ Unambiguous(type[o], spec[o])
         /\ \A k \in DOMAIN spec[o].attributes : spec[o].attributes[k] # Empty)
            => Kept(type[o], spec[o])
=============================================================================
