----------------------------- MODULE MCObjects -----------------------------
(***************************************************************************)
(* Instances of ObjectSync and AttributeFold.  Attributes do not influence *)
(* each other, so in the world alone it is enough to vary the keys of one  *)
(* MQSC keyword: at most two in the map, in either spelling, and one typed *)
(* field.                                                                  *)
(***************************************************************************)
EXTENDS ObjectSync, AttributeFold

CONSTANTS o1, o2

MCCandidates == <<"share">>

SampleTexts(k) ==
    IF k \in NumberAttributes
    THEN {Number(5, {}), Number(5, {"zeros"}), Number(6, {"spaces"}),
          Number(FirstWithExponent, {}), Word("x", {})}
    ELSE {Empty, Word("x", {}), Word("x", {"caps"}), Word("y", {"spaces"})}

\* The texts a typed field may hold.
TypedTexts(f) ==
    IF f \in IntFields THEN {Number(5, {}), Number(FirstWithExponent, {})}
    ELSE {Word("x", {}), Word("y", {"caps"})}

MapNames(t) == knownAttrs(t) \cup {"custom"}

KeysFor(t, k) ==
    {Key(a, caps) : a \in {m \in MapNames(t) : MQSCKeyword(m) = k}, caps \in BOOLEAN}

MapsFor(t, k) ==
    UNION {[ks -> SampleTexts(k)] : ks \in {s \in SUBSET KeysFor(t, k) : Cardinality(s) <= 2}}

Untyped(t) == [f \in Fields(t) |-> Empty]

MCAloneSpecs(t) ==
    LET inMap(k)   == [typed : {Untyped(t)}, attributes : MapsFor(t, k)]
        asField(f) == [typed : {[Untyped(t) EXCEPT ![f] = x] : x \in TypedTexts(f)},
                       attributes : {<<>>}]
    IN  UNION {inMap(MQSCKeyword(m)) : m \in MapNames(t)} \cup UNION {asField(f) : f \in Fields(t)}

\* A server-connection channel with a small and with a large maximal message.
MCNumberSpecs(t) ==
    IF t = "svrconn"
    THEN [typed : {[Untyped(t) EXCEPT !["maxmsgl"] = x] : x \in TypedTexts("maxmsgl")},
          attributes : {<<>>}]
    ELSE {}

MCSharedSpecs ==
    {[typed |-> [Untyped("local") EXCEPT !["maxdepth"] = Number(n, {})],
      attributes |-> [k \in {Key("share", FALSE)} |-> Word("x", {})]] : n \in {5, 6}}
=============================================================================
