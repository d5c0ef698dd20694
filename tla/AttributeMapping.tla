-------------------------- MODULE AttributeMapping --------------------------
(***************************************************************************)
(* What happens to an attribute of a Queue, Topic or Channel between the   *)
(* spec a user writes and the comparison with the queue manager's answer:  *)
(* the typed fields and the attributes map are merged, DEFINE parameters   *)
(* are built, DISPLAY answers are turned back into texts, and the two are  *)
(* compared.  Also the warnings admission gives about map keys.  All of it *)
(* is stateless.                                                           *)
(*                                                                         *)
(* A text of a spec or an answer is a word or a number with a style:       *)
(* capital letters, surrounding spaces, leading zeros, an exponent (1e+06) *)
(* or more digits than 32 bits hold.  A map key has a name and a spelling. *)
(***************************************************************************)
EXTENDS Integers, Sequences, FiniteSets

Styles == {"caps", "spaces", "zeros", "exp", "wide"}

IsText(t) ==
    /\ t = [word |-> t.word, n |-> t.n, style |-> t.style]
    /\ t.n \in Nat
    /\ t.style \subseteq Styles

Word(w, style) == [word |-> w, n |-> 0, style |-> style]

Number(n, style) == [word |-> "#", n |-> n, style |-> style]

\* The empty string, and a typed field that is left out.
Empty == Word("", {})

IsNumber(t) == t.word = "#"

TrimSpace(t) == [t EXCEPT !.style = @ \ {"spaces"}]

ToUpper(t) == IF IsNumber(t) \/ t = Empty THEN t ELSE [t EXCEPT !.style = @ \cup {"caps"}]

EqualFold(s, t) == ToUpper(s) = ToUpper(t)

\* strconv.Atoi and strconv.ParseInt(..., 32): whether they succeed.
Atoi(t) == IsNumber(t) /\ t.style \cap {"spaces", "exp"} = {}

ParseInt32(t) == Atoi(t) /\ "wide" \notin t.style

\* What strconv.Itoa prints for the number of t.
Itoa(t) == [t EXCEPT !.style = @ \cap {"wide"}]

Key(name, caps) == [name |-> name, caps |-> caps]

\* attrs[k] of a Go map of strings.
At(attrs, k) == IF k \in DOMAIN attrs THEN attrs[k] ELSE Empty

\* The map attrs with the entry k overwritten.
With(attrs, k, t) == [a \in DOMAIN attrs \cup {k} |-> IF a = k THEN t ELSE attrs[a]]

Without(attrs, k) == [a \in DOMAIN attrs \ {k} |-> attrs[a]]

-----------------------------------------------------------------------------
(***************************************************************************)
(* The objects and their attributes                                        *)
(***************************************************************************)

QueueTypes == {"local", "alias", "remote"}

ChannelTypes == {"svrconn", "sdr", "rcvr"}

ObjectTypes == QueueTypes \cup ChannelTypes \cup {"topic"}

QueueLocalDefineOnlyCandidates ==
    {"share", "defopts", "bothresh", "boqname", "usage", "maxmsglen"}

queueDisplayParameters(t) ==
    CASE t = "alias"  -> {"targq", "targtype", "descr"}
      [] t = "remote" -> {"rname", "rqmname", "xmitq", "descr"}
      [] OTHER        -> {"maxdepth", "descr", "defpsist", "get", "put"}

\* In lower case; topicstr is the topicStr of mqweb.
topicDisplayParameters ==
    {"topicstr", "descr", "pub", "sub", "defpsist", "pubscope", "subscope"}

channelDisplayParametersForType(t) ==
    {"descr", "trptype", "maxmsgl", "mcauser", "sslciph"}
        \cup CASE t = "sdr"  -> {"conname", "xmitq"}
               [] t = "rcvr" -> {}
               [] OTHER      -> {"sharecnv", "maxinst", "maxinstc", "sslcauth"}

\* The attributes DISPLAY is asked for, and drift detection compares, when no
\* candidate is known to be displayable.
DriftCheckKeys(t) ==
    IF t \in QueueTypes THEN queueDisplayParameters(t)
    ELSE IF t = "topic" THEN topicDisplayParameters
    ELSE channelDisplayParametersForType(t)

\* Typed fields are named after the attribute they stand for.
QueueFields == {"maxdepth", "descr", "defpsist", "get", "put", "targq", "xmitq", "rqmname"}

TopicFields == {"topstr", "descr", "pub", "sub", "defpsist", "pubscope", "subscope"}

ChannelFields ==
    {"descr", "maxmsgl", "trptype", "sharecnv", "mcauser", "maxinst", "maxinstc",
     "sslciph", "sslcauth", "conname", "xmitq"}

Fields(t) ==
    IF t \in QueueTypes THEN QueueFields
    ELSE IF t = "topic" THEN TopicFields ELSE ChannelFields

\* The specs of an object: its typed fields and its attributes map.
IsSpec(t, s) ==
    /\ DOMAIN s.typed = Fields(t)
    /\ \A f \in Fields(t) : IsText(s.typed[f])
    /\ IsFiniteSet(DOMAIN s.attributes)
    /\ \A k \in DOMAIN s.attributes : IsText(s.attributes[k])

IntFields == {"maxdepth", "maxmsgl", "sharecnv", "maxinst", "maxinstc"}

numericAttrKeys == IntFields \cup {"maxmsglen", "bothresh"}

caseInsensitiveAttrKeys ==
    {"pub", "sub", "get", "put", "defpsist", "trptype", "share", "defopts",
     "usage", "sslcauth"}

queueNumericParameters == {"maxdepth", "maxmsglen"}

channelNumericParameters == {"sharecnv", "maxmsgl", "maxinst", "maxinstc"}

-----------------------------------------------------------------------------
(***************************************************************************)
(* From the spec to the attributes of the object                           *)
(***************************************************************************)

NormalizeAttrKey(key) == IF key.name = "topicstr" THEN "topstr" ELSE key.name

\* The map's entries are copied in no particular order, so the last of several
\* keys with one normal form is any of them; then the typed fields that are set
\* overwrite what is there.
SpecAttributes(s, fields) ==
    LET raw   == s.attributes
        names == {NormalizeAttrKey(k) : k \in DOMAIN raw}
        set   == {f \in fields : s.typed[f] # Empty}
        last  == {c \in [names -> DOMAIN raw] :
                     \A a \in names : NormalizeAttrKey(c[a]) = a}
    IN  {[a \in names \cup set |-> IF a \in set THEN s.typed[a] ELSE raw[c[a]]] :
            c \in last}

toMQQueueSpec(s) == SpecAttributes(s, QueueFields)

toMQTopicSpec(s) == SpecAttributes(s, TopicFields)

toMQChannelSpec(s) == SpecAttributes(s, ChannelFields)

\* The attribute maps a reconcile of spec may end up with.
toMQSpec(t, s) ==
    IF t \in QueueTypes THEN toMQQueueSpec(s)
    ELSE IF t = "topic" THEN toMQTopicSpec(s) ELSE toMQChannelSpec(s)

-----------------------------------------------------------------------------
(***************************************************************************)
(* DEFINE: a parameter is a JSON number or a JSON string                   *)
(***************************************************************************)

defineObjectParameters(attrs, numeric) ==
    [a \in DOMAIN attrs |->
        IF a \in numeric /\ Atoi(attrs[a])
        THEN [json |-> "number", text |-> Itoa(attrs[a])]
        ELSE [json |-> "string", text |-> attrs[a]]]

mapTopicRESTParameters(params) ==
    LET upper == [a \in DOMAIN params |->
                     IF a \in {"pub", "sub"}
                     THEN [json |-> "string", text |-> ToUpper(params[a].text)]
                     ELSE params[a]]
    IN  IF "topstr" \in DOMAIN params
        THEN Without(With(upper, "topicstr", upper["topstr"]), "topstr")
        ELSE upper

defineTopicParameters(attrs) == mapTopicRESTParameters(defineObjectParameters(attrs, {}))

defineChannelParameters(attrs) == defineObjectParameters(attrs, channelNumericParameters)

defineQueueParameters(attrs) == defineObjectParameters(attrs, queueNumericParameters)

DefineParameters(t, attrs) ==
    IF t \in QueueTypes THEN defineQueueParameters(attrs)
    ELSE IF t = "topic" THEN defineTopicParameters(attrs)
    ELSE defineChannelParameters(attrs)

-----------------------------------------------------------------------------
(***************************************************************************)
(* The queue manager: every attribute has one MQSC keyword, known to mqweb *)
(* under one or two names, and a value that is a number, a keyword or a    *)
(* string.                                                                 *)
(***************************************************************************)

MQSCKeyword(name) ==
    CASE name = "target"            -> "targq"
      [] name = "remotequeue"       -> "rname"
      [] name = "remotemanager"     -> "rqmname"
      [] name = "transmissionqueue" -> "xmitq"
      [] name = "topicstr"          -> "topstr"
      [] OTHER                      -> name

\* Every MQSC keyword is set by one key at most, be it a map key in some
\* spelling or a typed field.
Unambiguous(t, s) ==
    LET raw == DOMAIN s.attributes
    IN  /\ \A k, l \in raw : MQSCKeyword(k.name) = MQSCKeyword(l.name) => k = l
        /\ \A f \in Fields(t), k \in raw : s.typed[f] # Empty => MQSCKeyword(k.name) # f

\* The name DISPLAY answers with; it may use the long names for queues.
AnsweredName(t, a, long) ==
    LET names == IF long /\ t \in QueueTypes
                 THEN [targq |-> "target", rname |-> "remotequeue",
                       rqmname |-> "remotemanager", xmitq |-> "transmissionqueue",
                       topstr |-> "topicstr"]
                 ELSE [topstr |-> "topicstr"]
    IN  IF a \in DOMAIN names THEN names[a] ELSE a

NumberAttributes == numericAttrKeys

KeywordAttributes ==
    {"defpsist", "get", "put", "share", "defopts", "usage", "targtype", "pub",
     "sub", "pubscope", "subscope", "trptype", "sslcauth"}

\* What the queue manager makes of a value: a number, a keyword in capital
\* letters, or a string without the spaces around it.
Meaning(a, t) ==
    IF a \in NumberAttributes THEN Itoa(t)
    ELSE IF a \in KeywordAttributes THEN ToUpper(TrimSpace(t)) ELSE TrimSpace(t)

\* A DEFINE is refused when a number or a keyword attribute gets something else;
\* no number attribute takes an exponent or more than 32 bits.
Accepted(params) ==
    \A a \in DOMAIN params :
        IF MQSCKeyword(a) \in NumberAttributes
        THEN IsNumber(params[a].text) /\ params[a].text.style \cap {"exp", "wide"} = {}
        ELSE MQSCKeyword(a) \in KeywordAttributes => params[a].text.word # ""

\* The attributes of the object after the DEFINE; of two parameters for one
\* keyword either may count.
StoredValues(params) ==
    LET keywords == {MQSCKeyword(a) : a \in DOMAIN params}
    IN  {[k \in keywords |-> Meaning(k, params[c[k]].text)] :
            c \in {d \in [keywords -> DOMAIN params] :
                      \A k \in keywords : MQSCKeyword(d[k]) = k}}

\* What an attribute that was not given has after a DEFINE ... REPLACE.
DefaultValue(a) ==
    IF a \in NumberAttributes THEN Number(1, {})
    ELSE IF a \in KeywordAttributes THEN Word("default", {"caps"}) ELSE Empty

\* The value of attribute a of an object that was defined with these values.
ValueOf(stored, a) == IF a \in DOMAIN stored THEN stored[a] ELSE DefaultValue(a)

\* The answer to a DISPLAY of the requested attributes: numbers are JSON
\* numbers, and keywords come in capital letters.
Displayed(t, stored, requested, long) ==
    [a \in {AnsweredName(t, MQSCKeyword(q), long) : q \in requested} |->
        [json |-> IF MQSCKeyword(a) \in NumberAttributes THEN "number" ELSE "string",
         text |-> ValueOf(stored, MQSCKeyword(a))]]

-----------------------------------------------------------------------------
(***************************************************************************)
(* From the answer to the comparison                                       *)
(***************************************************************************)

\* fmt.Sprint of a JSON number, which Go holds as a float64: from a million on
\* it prints an exponent.
FirstWithExponent == 1000000

SprintNumber(t) ==
    IF t.n >= FirstWithExponent \/ "wide" \in t.style
    THEN [t EXCEPT !.style = {"exp"}] ELSE Itoa(t)

firstObjectAttributes(answer) ==
    [a \in DOMAIN answer |->
        IF answer[a].json = "number" THEN SprintNumber(answer[a].text) ELSE answer[a].text]

normalizeTopicAttributes(attrs) ==
    IF "topicstr" \in DOMAIN attrs THEN With(attrs, "topstr", attrs["topicstr"]) ELSE attrs

\* The long name's value, unless the short name has one.
ShortName(attrs, short, long) ==
    IF long \in DOMAIN attrs /\ At(attrs, short) = Empty
    THEN With(attrs, short, attrs[long]) ELSE attrs

\* Mutant: the long name of the transmission queue is forgotten.
normalizeQueueAttributesNoXmitq(attrs, t) ==
    CASE t = "alias"  -> ShortName(attrs, "targq", "target")
      [] t = "remote" ->
             ShortName(ShortName(attrs, "rname", "remotequeue"), "rqmname", "remotemanager")
      [] OTHER        -> attrs

normalizeQueueAttributes(attrs, t) ==
    CASE t = "alias"  -> ShortName(attrs, "targq", "target")
      [] t = "remote" ->
             ShortName(ShortName(ShortName(attrs, "rname", "remotequeue"),
                                 "rqmname", "remotemanager"),
                       "xmitq", "transmissionqueue")
      [] OTHER        -> attrs

normalizeNumericString(t) == IF Atoi(TrimSpace(t)) THEN Itoa(TrimSpace(t)) ELSE TrimSpace(t)

AttributeValueMatches(a, desired, observed) ==
    IF a \in caseInsensitiveAttrKeys THEN EqualFold(TrimSpace(desired), TrimSpace(observed))
    ELSE IF a \in numericAttrKeys
    THEN normalizeNumericString(desired) = normalizeNumericString(observed)
    ELSE TrimSpace(desired) = TrimSpace(observed)

driftCheckKeySet(checkKeys) == {NormalizeAttrKey(Key(k, FALSE)) : k \in checkKeys}

AttributeDriftsForKeys(desired, observed, checkKeys) ==
    {a \in DOMAIN desired \cap driftCheckKeySet(checkKeys) :
        ~AttributeValueMatches(a, desired[a], At(observed, a))}

AttributesNeedUpdate(desired, observed, checkKeys) ==
    AttributeDriftsForKeys(desired, observed, checkKeys) # {}

-----------------------------------------------------------------------------
(***************************************************************************)
(* What admission says about map keys                                      *)
(***************************************************************************)

knownAttrs(t) ==
    CASE t = "local"  -> {"maxdepth", "descr", "defpsist", "get", "put", "maxmsglen",
                          "share", "defopts", "bothresh", "boqname", "usage", "trigtype",
                          "trigdata", "trigmpri", "trigint", "trigdpth", "cluster", "clusnl"}
      [] t = "alias"  -> {"targq", "targtype", "descr", "target"}
      [] t = "remote" -> {"rname", "rqmname", "xmitq", "descr", "remotequeue",
                          "remotemanager", "transmissionqueue"}
      [] t = "topic"  -> {"topstr", "topicstr", "descr", "pub", "sub", "defpsist",
                          "pubscope", "subscope", "toptype", "cluster"}
      [] OTHER        -> {"descr", "trptype", "sharecnv", "maxmsgl", "mcauser", "maxinst",
                          "maxinstc", "sslciph", "sslcauth", "conname", "xmitq"}

\* Mutant: only the key as it is written is looked up.
unknownAttributeWarningsRaw(t, attrs) ==
    {k \in DOMAIN attrs : k.caps \/ k.name \notin knownAttrs(t)}

\* The keys the "ignored for drift detection" warning is about.
unknownAttributeWarnings(t, attrs) ==
    {k \in DOMAIN attrs :
        /\ NormalizeAttrKey(k) \notin knownAttrs(t)
        /\ k.caps \/ k.name \notin knownAttrs(t)}
=============================================================================
