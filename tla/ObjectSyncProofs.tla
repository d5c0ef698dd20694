--------------------------- MODULE ObjectSyncProofs ---------------------------
(***************************************************************************)
(* Proofs about ObjectSync, for every set of resources, every sequence of  *)
(* candidates, all well-formed specs and any number of interferences.      *)
(***************************************************************************)
EXTENDS ObjectSync, TLAPS

(***************************************************************************)
(* Texts                                                                   *)
(***************************************************************************)

LEMMA EmptyText ==
    /\ Empty.word = "" /\ Empty.style = {} /\ Empty.n = 0
    /\ IsText(Empty)
<1>1. Empty = [word |-> "", n |-> 0, style |-> {}]
  BY DEF Empty, Word
<1>2. QED
  BY <1>1 DEF IsText

LEMMA TextOperators ==
    ASSUME NEW t, IsText(t)
    PROVE  /\ IsText(TrimSpace(t)) /\ IsText(ToUpper(t)) /\ IsText(Itoa(t))
<1>1. IsText(TrimSpace(t))
  BY DEF IsText, TrimSpace
<1>2. IsText(Itoa(t))
  BY DEF IsText, Itoa
<1>3. IsText(ToUpper(t))
  <2>1. IsText([t EXCEPT !.style = @ \cup {"caps"}])
    BY DEF IsText, Styles
  <2>2. QED
    BY <2>1 DEF ToUpper
<1>4. QED
  BY <1>1, <1>2, <1>3

\* The text of a stored value: a number is a plain one, a keyword has capital
\* letters, and nothing has spaces around it.
Canonical(a, t) ==
    /\ IsText(t)
    /\ a \in NumberAttributes => IsNumber(t) /\ t.style = {}
    /\ a \in KeywordAttributes => t.word # "" /\ ToUpper(t) = t
    /\ a \notin NumberAttributes => "spaces" \notin t.style

LEMMA TrimTrimmed ==
    ASSUME NEW t, IsText(t)
    PROVE  /\ "spaces" \notin t.style => TrimSpace(t) = t
           /\ TrimSpace(TrimSpace(t)) = TrimSpace(t)
           /\ "spaces" \notin TrimSpace(t).style
           /\ TrimSpace(t).word = t.word
  BY Zenon DEF IsText, TrimSpace

LEMMA UpperUpper ==
    ASSUME NEW t, IsText(t)
    PROVE  /\ ToUpper(ToUpper(t)) = ToUpper(t)
           /\ "spaces" \in ToUpper(t).style <=> "spaces" \in t.style
           /\ ToUpper(t).word = t.word
           /\ "caps" \in t.style => ToUpper(t) = t
           /\ t.word # "" => TrimSpace(ToUpper(t)) = ToUpper(TrimSpace(t))
<1> DEFINE u == [t EXCEPT !.style = @ \cup {"caps"}]
<1>1. u.word = t.word /\ u.n = t.n /\ u.style = t.style \cup {"caps"} /\ IsText(u)
  BY DEF IsText, Styles
<1>2. [u EXCEPT !.style = @ \cup {"caps"}] = u
  BY <1>1, Zenon DEF IsText
<1>3. "caps" \in t.style => u = t
  BY DEF IsText
<1>4. t.word # "" => t # Empty /\ TrimSpace(t) # Empty
  BY EmptyText, TrimTrimmed
<1>5. TrimSpace(u) = [TrimSpace(t) EXCEPT !.style = @ \cup {"caps"}]
  BY Zenon DEF IsText, TrimSpace
<1>6. TrimSpace(t).word = t.word
  BY TrimTrimmed
<1>7. ToUpper(t) = IF t.word = "#" \/ t = Empty THEN t ELSE u
  BY DEF ToUpper, IsNumber
<1>8. ToUpper(u) = IF t.word = "#" \/ u = Empty THEN u ELSE u
  BY <1>1, <1>2 DEF ToUpper, IsNumber
<1>9. t.word # "" => TrimSpace(ToUpper(t)) = ToUpper(TrimSpace(t))
  BY <1>4, <1>5, <1>6, <1>7 DEF ToUpper, IsNumber
<1> HIDE DEF u
<1>10. ToUpper(t) \in {t, u}
  BY <1>7
<1>11. ToUpper(ToUpper(t)) = ToUpper(t)
  <2>1. CASE t.word = "#" \/ t = Empty
    BY <1>7, <2>1
  <2>2. CASE ~(t.word = "#" \/ t = Empty)
    BY <1>7, <1>8, <2>2
  <2>3. QED
    BY <2>1, <2>2
<1>12. ToUpper(t).word = t.word /\ ("spaces" \in ToUpper(t).style <=> "spaces" \in t.style)
  <2>1. "spaces" \in u.style <=> "spaces" \in t.style
    BY <1>1
  <2>2. QED
    BY <1>1, <1>10, <2>1
<1>13. "caps" \in t.style => ToUpper(t) = t
  BY <1>3, <1>10
<1>14. QED
  BY <1>9, <1>11, <1>12, <1>13

LEMMA ItoaPlain ==
    ASSUME NEW t, IsText(t)
    PROVE  /\ Itoa(TrimSpace(t)) = Itoa(t)
           /\ t.style = {} => Itoa(t) = t
           /\ t.style \cap {"exp", "wide"} = {} => Itoa(t).style = {}
           /\ Itoa(t).word = t.word /\ Itoa(t).n = t.n
           /\ Itoa(Itoa(t)) = Itoa(t)
<1>1. Itoa(TrimSpace(t)) = Itoa(t)
  BY Zenon DEF IsText, Itoa, TrimSpace
<1>2. /\ Itoa(t).word = t.word /\ Itoa(t).n = t.n /\ Itoa(t).style = t.style \cap {"wide"}
      /\ IsText(Itoa(t))
  BY DEF IsText, Itoa
<1>3. Itoa(Itoa(t)) = Itoa(t)
  <2> DEFINE i == Itoa(t)
  <2>1. i.style \cap {"wide"} = i.style
    BY <1>2
  <2> HIDE DEF i
  <2>2. [i EXCEPT !.style = @ \cap {"wide"}] = i
    BY <1>2, <2>1 DEF i, IsText
  <2>3. QED
    BY <2>2 DEF i, Itoa
<1>4. t.style = {} => Itoa(t) = t
  BY DEF IsText, Itoa
<1>5. QED
  BY <1>1, <1>2, <1>3, <1>4

LEMMA Disjoint ==
    /\ NumberAttributes \cap KeywordAttributes = {}
    /\ caseInsensitiveAttrKeys \subseteq KeywordAttributes
    /\ numericAttrKeys = NumberAttributes
  BY DEF NumberAttributes, numericAttrKeys, IntFields, KeywordAttributes, caseInsensitiveAttrKeys

\* What the queue manager stores is canonical when it accepts the text.
LEMMA MeaningCanonical ==
    ASSUME NEW a, NEW t, IsText(t),
           a \in NumberAttributes => IsNumber(t) /\ t.style \cap {"exp", "wide"} = {},
           a \in KeywordAttributes => t.word # ""
    PROVE  Canonical(a, Meaning(a, t))
<1>1. CASE a \in NumberAttributes
  BY <1>1, Disjoint, ItoaPlain, TextOperators DEF Meaning, Canonical, IsNumber
<1>2. CASE a \in KeywordAttributes
  <2>1. Meaning(a, t) = ToUpper(TrimSpace(t)) /\ a \notin NumberAttributes
    BY <1>2, Disjoint DEF Meaning
  <2>2. IsText(TrimSpace(t)) /\ "spaces" \notin TrimSpace(t).style /\ TrimSpace(t).word = t.word
    BY TextOperators, TrimTrimmed
  <2> DEFINE u == TrimSpace(t)
  <2> HIDE DEF u
  <2>3. /\ IsText(ToUpper(u)) /\ ToUpper(ToUpper(u)) = ToUpper(u) /\ ToUpper(u).word # ""
        /\ "spaces" \notin ToUpper(u).style
    BY <1>2, <2>2, UpperUpper, TextOperators DEF u
  <2>4. QED
    BY <1>2, <2>1, <2>3 DEF Canonical, u
<1>3. CASE a \notin NumberAttributes \cup KeywordAttributes
  BY <1>3, TextOperators, TrimTrimmed DEF Meaning, Canonical
<1>4. QED
  BY <1>1, <1>2, <1>3

LEMMA DefaultCanonical ==
    ASSUME NEW a
    PROVE  Canonical(a, DefaultValue(a))
<1>1. CASE a \in NumberAttributes
  <2>1. DefaultValue(a) = [word |-> "#", n |-> 1, style |-> {}]
    BY <1>1 DEF DefaultValue, Number
  <2>2. QED
    BY <1>1, <2>1, Disjoint DEF Canonical, IsText, IsNumber
<1>2. CASE a \in KeywordAttributes
  <2>1. DefaultValue(a) = [word |-> "default", n |-> 0, style |-> {"caps"}] /\ a \notin NumberAttributes
    BY <1>2, Disjoint DEF DefaultValue, Word
  <2>2. IsText(DefaultValue(a))
    BY <2>1 DEF IsText, Styles
  <2>3. DefaultValue(a).word # "" /\ DefaultValue(a).style = {"caps"}
    BY <2>1
  <2>4. QED
    BY <1>2, <2>1, <2>2, <2>3, UpperUpper DEF Canonical
<1>3. CASE a \notin NumberAttributes \cup KeywordAttributes
  BY <1>3, EmptyText DEF DefaultValue, Canonical
<1>4. QED
  BY <1>1, <1>2, <1>3

\* The text in which DISPLAY shows the value t of attribute a.
ShownText(a, t) == IF a \in NumberAttributes THEN SprintNumber(t) ELSE t

\* A plain number below a million is shown as it is; any other is shown with an
\* exponent, which the comparison takes for a text and not for a number.
LEMMA SprintCases ==
    ASSUME NEW t, IsText(t), IsNumber(t), t.style = {}
    PROVE  \/ /\ SprintNumber(t) = t /\ normalizeNumericString(SprintNumber(t)) = t
              /\ t.n < FirstWithExponent
           \/ /\ normalizeNumericString(SprintNumber(t)) = [t EXCEPT !.style = {"exp"}]
              /\ t.n >= FirstWithExponent
<1>1. CASE t.n < FirstWithExponent
  <2>1. SprintNumber(t) = t
    <3>1. ~(t.n >= FirstWithExponent \/ "wide" \in t.style)
      BY <1>1 DEF IsText, FirstWithExponent
    <3>2. QED
      BY <3>1, ItoaPlain DEF SprintNumber
  <2>2. TrimSpace(t) = t /\ Atoi(t) /\ Itoa(t) = t
    BY TrimTrimmed, ItoaPlain DEF Atoi
  <2>3. QED
    BY <1>1, <2>1, <2>2 DEF normalizeNumericString
<1>2. CASE t.n >= FirstWithExponent
  <2> DEFINE e == [t EXCEPT !.style = {"exp"}]
  <2>1. SprintNumber(t) = e
    BY <1>2 DEF SprintNumber
  <2>2. IsText(e) /\ e.style = {"exp"}
    BY DEF IsText, Styles
  <2>3. TrimSpace(e) = e /\ ~Atoi(e)
    BY <2>2, TrimTrimmed, Zenon DEF Atoi
  <2>4. QED
    BY <1>2, <2>1, <2>3 DEF normalizeNumericString
<1>3. QED
  BY <1>1, <1>2 DEF IsText, FirstWithExponent

\* A value that the comparison takes for the desired one is what the queue
\* manager makes of the desired text, in every form the text is sent in.
LEMMA MatchMeans ==
    ASSUME NEW a, NEW v, Canonical(a, v), NEW d, IsText(d),
           AttributeValueMatches(a, d, ShownText(a, v))
    PROVE  /\ v = Meaning(a, d)
           /\ a \in NumberAttributes => v = Meaning(a, Itoa(d))
           /\ a \in KeywordAttributes => v = Meaning(a, ToUpper(d))
<1>1. IsText(v) /\ IsText(TrimSpace(d))
  BY TextOperators DEF Canonical
<1>2. CASE a \in NumberAttributes
  <2>1. a \notin caseInsensitiveAttrKeys /\ a \notin KeywordAttributes
        /\ a \in numericAttrKeys /\ IsNumber(v) /\ v.style = {}
    BY <1>2, Disjoint DEF Canonical
  <2>2. normalizeNumericString(d) = normalizeNumericString(SprintNumber(v))
    BY <1>2, <2>1 DEF AttributeValueMatches, ShownText
  <2> DEFINE td == TrimSpace(d)
  <2>3. Itoa(td) = Itoa(d) /\ Itoa(Itoa(d)) = Itoa(d)
    BY ItoaPlain
  <2>4. v = Itoa(d)
    <3>1. CASE Atoi(td)
      <4>1. normalizeNumericString(d) = Itoa(d)
        BY <2>3, <3>1 DEF normalizeNumericString
      <4>2. "exp" \notin Itoa(d).style
        BY DEF Itoa, IsText
      <4>3. [v EXCEPT !.style = {"exp"}].style = {"exp"}
        BY <1>1 DEF IsText
      <4>4. QED
        BY <1>1, <2>1, <2>2, <4>1, <4>2, <4>3, SprintCases, Zenon
    <3>2. CASE ~Atoi(td)
      <4>1. normalizeNumericString(d) = td
        BY <3>2 DEF normalizeNumericString
      <4>2. td # v
        BY <2>1, <3>2 DEF Atoi
      <4>3. td = [v EXCEPT !.style = {"exp"}]
        BY <1>1, <2>1, <2>2, <4>1, <4>2, SprintCases, Zenon
      <4>4. Itoa(td) = v
        BY <1>1, <2>1, <4>3, Zenon DEF Itoa, IsText
      <4>5. QED
        BY <2>3, <4>4
    <3>3. QED
      BY <3>1, <3>2
  <2>5. QED
    BY <1>2, <2>1, <2>3, <2>4 DEF Meaning
<1>3. CASE a \in KeywordAttributes
  <2>1. a \notin NumberAttributes /\ a \notin numericAttrKeys /\ ShownText(a, v) = v
    BY <1>3, Disjoint DEF ShownText
  <2>2. v.word # "" /\ ToUpper(v) = v /\ TrimSpace(v) = v
    BY <1>1, <1>3, <2>1, TrimTrimmed DEF Canonical
  <2>3. v = ToUpper(TrimSpace(d))
    <3>1. CASE a \in caseInsensitiveAttrKeys
      BY <2>1, <2>2, <3>1 DEF AttributeValueMatches, EqualFold
    <3>2. CASE a \notin caseInsensitiveAttrKeys
      BY <2>1, <2>2, <3>2 DEF AttributeValueMatches
    <3>3. QED
      BY <3>1, <3>2
  <2>4. d.word # ""
    BY <1>1, <2>2, <2>3, UpperUpper, TrimTrimmed
  <2>5. TrimSpace(ToUpper(d)) = ToUpper(TrimSpace(d))
    BY <2>4, UpperUpper
  <2>6. ToUpper(TrimSpace(ToUpper(d))) = v
    BY <2>2, <2>3, <2>5
  <2>7. QED
    BY <1>3, <2>1, <2>3, <2>6 DEF Meaning
<1>4. CASE a \notin NumberAttributes \cup KeywordAttributes
  <2>1. a \notin caseInsensitiveAttrKeys /\ a \notin numericAttrKeys /\ ShownText(a, v) = v
    BY <1>4, Disjoint DEF ShownText
  <2>2. TrimSpace(v) = v
    BY <1>1, <1>4, TrimTrimmed DEF Canonical
  <2>3. QED
    BY <1>4, <2>1, <2>2 DEF AttributeValueMatches, Meaning
<1>5. QED
  BY <1>2, <1>3, <1>4

\* The other direction, for the texts that DISPLAY gives back recognisably.
LEMMA AgreeMatches ==
    ASSUME NEW a, NEW v, Canonical(a, v), NEW d, IsText(d), v = Meaning(a, d),
           a \in NumberAttributes => /\ d.style \cap {"wide", "exp"} = {}
                                     /\ d.n < FirstWithExponent,
           a \in KeywordAttributes \ caseInsensitiveAttrKeys => "caps" \in d.style
    PROVE  AttributeValueMatches(a, d, ShownText(a, v))
<1>1. IsText(v) /\ IsText(TrimSpace(d))
  BY TextOperators DEF Canonical
<1>2. CASE a \in NumberAttributes
  <2>1. a \notin caseInsensitiveAttrKeys /\ a \in numericAttrKeys /\ IsNumber(v) /\ v.style = {}
    BY <1>2, Disjoint DEF Canonical
  <2>2. v = Itoa(d) /\ v.n = d.n /\ v.word = d.word
    BY <1>2, ItoaPlain DEF Meaning
  <2>3. normalizeNumericString(SprintNumber(v)) = v
    <3>1. ~(v.n >= FirstWithExponent)
      BY <1>2, <2>2 DEF IsText, FirstWithExponent
    <3>2. QED
      BY <1>1, <2>1, <3>1, SprintCases
  <2>4. Atoi(TrimSpace(d))
    <3>1. TrimSpace(d).word = d.word /\ TrimSpace(d).style = d.style \ {"spaces"}
      BY DEF TrimSpace, IsText
    <3>2. QED
      BY <1>2, <2>1, <2>2, <3>1 DEF Atoi, IsNumber
  <2>5. normalizeNumericString(d) = v
    BY <2>2, <2>4, ItoaPlain DEF normalizeNumericString
  <2>6. QED
    BY <1>2, <2>1, <2>3, <2>5 DEF AttributeValueMatches, ShownText
<1>3. CASE a \in KeywordAttributes
  <2>1. a \notin NumberAttributes /\ a \notin numericAttrKeys /\ ShownText(a, v) = v
    BY <1>3, Disjoint DEF ShownText
  <2>2. v = ToUpper(TrimSpace(d)) /\ ToUpper(v) = v /\ TrimSpace(v) = v
    BY <1>1, <1>3, <2>1, TrimTrimmed DEF Canonical, Meaning
  <2>3. CASE a \in caseInsensitiveAttrKeys
    BY <2>1, <2>2, <2>3 DEF AttributeValueMatches, EqualFold
  <2>4. CASE a \notin caseInsensitiveAttrKeys
    <3>1. "caps" \in TrimSpace(d).style
      BY <1>3, <2>4 DEF TrimSpace, IsText
    <3>2. ToUpper(TrimSpace(d)) = TrimSpace(d)
      BY <1>1, <3>1, UpperUpper
    <3>3. QED
      BY <2>1, <2>2, <2>4, <3>2 DEF AttributeValueMatches
  <2>5. QED
    BY <2>3, <2>4
<1>4. CASE a \notin NumberAttributes \cup KeywordAttributes
  <2>1. a \notin caseInsensitiveAttrKeys /\ a \notin numericAttrKeys /\ ShownText(a, v) = v
    BY <1>4, Disjoint DEF ShownText
  <2>2. v = TrimSpace(d) /\ TrimSpace(v) = v
    BY <1>4, TrimTrimmed DEF Meaning
  <2>3. QED
    BY <2>1, <2>2 DEF AttributeValueMatches
<1>5. QED
  BY <1>2, <1>3, <1>4

-----------------------------------------------------------------------------
(***************************************************************************)
(* Maps from attributes to texts                                           *)
(***************************************************************************)

LEMMA AtWith ==
    ASSUME NEW m, NEW k, NEW t, NEW a
    PROVE  /\ At(With(m, k, t), a) = IF a = k THEN t ELSE At(m, a)
           /\ a \in DOMAIN With(m, k, t) <=> a = k \/ a \in DOMAIN m
  BY DEF At, With

LEMMA AtShortName ==
    ASSUME NEW m, NEW short, NEW long, NEW a
    PROVE  /\ At(ShortName(m, short, long), a) =
                  IF a = short /\ long \in DOMAIN m /\ At(m, short) = Empty
                  THEN m[long] ELSE At(m, a)
           /\ a \in DOMAIN ShortName(m, short, long)
                  <=> a \in DOMAIN m \/ (a = short /\ long \in DOMAIN m)
<1>1. CASE long \in DOMAIN m /\ At(m, short) = Empty
  BY <1>1, AtWith DEF ShortName
<1>2. CASE ~(long \in DOMAIN m /\ At(m, short) = Empty)
  BY <1>2 DEF ShortName, At
<1>3. QED
  BY <1>1, <1>2

\* The attribute maps that the specs of an object give have texts for values.
LEMMA SpecTexts ==
    ASSUME NEW t, NEW s, IsSpec(t, s), NEW attrs \in toMQSpec(t, s)
    PROVE  \A a \in DOMAIN attrs : IsText(attrs[a])
<1>1. attrs \in SpecAttributes(s, Fields(t))
  BY DEF toMQSpec, toMQQueueSpec, toMQTopicSpec, toMQChannelSpec, Fields
<1> DEFINE names == {NormalizeAttrKey(k) : k \in DOMAIN s.attributes}
           set   == {f \in Fields(t) : s.typed[f] # Empty}
<1>2. PICK c \in [names -> DOMAIN s.attributes] :
        attrs = [a \in names \cup set |-> IF a \in set THEN s.typed[a] ELSE s.attributes[c[a]]]
  BY <1>1, Zenon DEF SpecAttributes
<1>3. \A a \in set : IsText(s.typed[a])
  BY DEF IsSpec
<1>4. \A a \in names : IsText(s.attributes[c[a]])
  BY DEF IsSpec
<1> HIDE DEF names, set
<1>5. QED
  BY <1>2, <1>3, <1>4

\* The parameter that a DEFINE sends for attribute a.
ParameterFor(t, a) == IF t = "topic" /\ a = "topstr" THEN "topicstr" ELSE a

\* Every attribute is sent, as the text it has, with the number it stands for, or
\* in capital letters.
Sent(a, t, text) ==
    \/ text = t
    \/ a \in NumberAttributes /\ text = Itoa(t)
    \/ a \in KeywordAttributes /\ text = ToUpper(t)

LEMMA PlainParameters ==
    ASSUME NEW attrs, NEW numeric, numeric \subseteq NumberAttributes,
           \A a \in DOMAIN attrs : IsText(attrs[a]),
           NEW p, p = defineObjectParameters(attrs, numeric)
    PROVE  /\ DOMAIN p = DOMAIN attrs
           /\ \A a \in DOMAIN attrs : Sent(a, attrs[a], p[a].text) /\ IsText(p[a].text)
<1>1. DOMAIN p = DOMAIN attrs
  BY DEF defineObjectParameters
<1>2. ASSUME NEW a \in DOMAIN attrs
      PROVE  p[a].text = attrs[a] \/ (a \in NumberAttributes /\ p[a].text = Itoa(attrs[a]))
  BY DEF defineObjectParameters
<1>3. ASSUME NEW a \in DOMAIN attrs
      PROVE  Sent(a, attrs[a], p[a].text) /\ IsText(p[a].text)
  BY <1>2, TextOperators DEF Sent
<1>4. QED
  BY <1>1, <1>3

LEMMA NumericParameters ==
    /\ queueNumericParameters \subseteq NumberAttributes
    /\ channelNumericParameters \subseteq NumberAttributes
  BY DEF queueNumericParameters, channelNumericParameters, NumberAttributes, numericAttrKeys,
     IntFields

LEMMA TopicParameters ==
    ASSUME NEW attrs, \A a \in DOMAIN attrs : IsText(attrs[a])
    PROVE  LET p == defineTopicParameters(attrs)
           IN  /\ \A b \in DOMAIN p : IsText(p[b].text)
               /\ \A a \in DOMAIN attrs \ {"topicstr"} :
                     /\ ParameterFor("topic", a) \in DOMAIN p
                     /\ Sent(a, attrs[a], p[ParameterFor("topic", a)].text)
<1> DEFINE q == defineObjectParameters(attrs, {})
           upper == [a \in DOMAIN q |->
                        IF a \in {"pub", "sub"}
                        THEN [json |-> "string", text |-> ToUpper(q[a].text)] ELSE q[a]]
           p == defineTopicParameters(attrs)
<1>1. DOMAIN q = DOMAIN attrs /\ \A a \in DOMAIN attrs : q[a].text = attrs[a]
  BY DEF defineObjectParameters
<1>2. p = IF "topstr" \in DOMAIN q
          THEN Without(With(upper, "topicstr", upper["topstr"]), "topstr") ELSE upper
  BY DEF defineTopicParameters, mapTopicRESTParameters
<1> HIDE DEF q
<1>3. DOMAIN upper = DOMAIN attrs
  BY <1>1
<1>4. \A a \in DOMAIN attrs : /\ upper[a].text \in {attrs[a], ToUpper(attrs[a])}
                              /\ a \in {"pub", "sub"} \/ upper[a].text = attrs[a]
  BY <1>1
<1>5. \A a \in DOMAIN attrs : IsText(upper[a].text)
  BY <1>4, TextOperators
<1>6. {"pub", "sub"} \subseteq KeywordAttributes
  BY DEF KeywordAttributes
<1>7. \A a \in DOMAIN attrs : Sent(a, attrs[a], upper[a].text)
  BY <1>4, <1>6 DEF Sent
<1> HIDE DEF upper, p
<1>8. CASE "topstr" \notin DOMAIN attrs
  BY <1>1, <1>2, <1>3, <1>5, <1>7, <1>8 DEF p, ParameterFor
<1>9. CASE "topstr" \in DOMAIN attrs
  <2>1. p = Without(With(upper, "topicstr", upper["topstr"]), "topstr")
    BY <1>1, <1>2, <1>9
  <2>2. DOMAIN p = (DOMAIN attrs \cup {"topicstr"}) \ {"topstr"}
    BY <1>3, <2>1 DEF With, Without
  <2>3. \A b \in DOMAIN p : p[b] = IF b = "topicstr" THEN upper["topstr"] ELSE upper[b]
    BY <2>1 DEF With, Without
  <2>4. \A b \in DOMAIN p : IsText(p[b].text)
    BY <1>5, <1>9, <2>2, <2>3
  <2>5. ASSUME NEW a \in DOMAIN attrs \ {"topicstr"}
        PROVE  /\ ParameterFor("topic", a) \in DOMAIN p
               /\ Sent(a, attrs[a], p[ParameterFor("topic", a)].text)
    <3>1. CASE a = "topstr"
      BY <1>7, <2>2, <2>3, <3>1 DEF ParameterFor
    <3>2. CASE a # "topstr"
      BY <1>7, <2>2, <2>3, <3>2 DEF ParameterFor
    <3>3. QED
      BY <3>1, <3>2
  <2>6. QED
    BY <2>4, <2>5 DEF p
<1>10. QED
  BY <1>8, <1>9

LEMMA Parameters ==
    ASSUME NEW t, NEW attrs, \A a \in DOMAIN attrs : IsText(attrs[a])
    PROVE  LET p == DefineParameters(t, attrs)
           IN  /\ \A b \in DOMAIN p : IsText(p[b].text)
               /\ \A a \in DOMAIN attrs \ {"topicstr"} :
                     /\ ParameterFor(t, a) \in DOMAIN p
                     /\ Sent(a, attrs[a], p[ParameterFor(t, a)].text)
<1>1. CASE t \in QueueTypes
  <2>1. t # "topic"
    BY <1>1 DEF QueueTypes
  <2>2. DefineParameters(t, attrs) = defineObjectParameters(attrs, queueNumericParameters)
    BY <1>1 DEF DefineParameters, defineQueueParameters
  <2> DEFINE p == DefineParameters(t, attrs)
  <2> HIDE DEF p
  <2>3. /\ DOMAIN p = DOMAIN attrs
        /\ \A a \in DOMAIN attrs : Sent(a, attrs[a], p[a].text) /\ IsText(p[a].text)
    BY <2>2, PlainParameters, NumericParameters DEF p
  <2>4. \A a : ParameterFor(t, a) = a
    BY <2>1 DEF ParameterFor
  <2>5. QED
    BY <2>3, <2>4 DEF p
<1>2. CASE t \notin QueueTypes /\ t = "topic"
  BY <1>2, TopicParameters DEF DefineParameters
<1>3. CASE t \notin QueueTypes /\ t # "topic"
  <2>1. DefineParameters(t, attrs) = defineObjectParameters(attrs, channelNumericParameters)
    BY <1>3 DEF DefineParameters, defineChannelParameters
  <2> DEFINE p == DefineParameters(t, attrs)
  <2> HIDE DEF p
  <2>2. /\ DOMAIN p = DOMAIN attrs
        /\ \A a \in DOMAIN attrs : Sent(a, attrs[a], p[a].text) /\ IsText(p[a].text)
    BY <2>1, PlainParameters, NumericParameters DEF p
  <2>3. \A a : ParameterFor(t, a) = a
    BY <1>3 DEF ParameterFor
  <2>4. QED
    BY <2>2, <2>3 DEF p
<1>4. QED
  BY <1>1, <1>2, <1>3

\* The values of an object are canonical.
AllCanonical(stored) == \A a \in DOMAIN stored : Canonical(a, stored[a])

LEMMA ValueCanonical ==
    ASSUME NEW stored, AllCanonical(stored), NEW a
    PROVE  Canonical(a, ValueOf(stored, a))
  BY DefaultCanonical DEF AllCanonical, ValueOf

LEMMA StoredCanonical ==
    ASSUME NEW p, \A b \in DOMAIN p : IsText(p[b].text), Accepted(p),
           NEW stored \in StoredValues(p)
    PROVE  AllCanonical(stored)
<1> DEFINE keywords == {MQSCKeyword(a) : a \in DOMAIN p}
<1>1. PICK c \in [keywords -> DOMAIN p] :
        /\ \A k \in keywords : MQSCKeyword(c[k]) = k
        /\ stored = [k \in keywords |-> Meaning(k, p[c[k]].text)]
  BY Zenon DEF StoredValues
<1> HIDE DEF keywords
<1>2. ASSUME NEW k \in DOMAIN stored PROVE Canonical(k, stored[k])
  <2>1. k \in keywords /\ c[k] \in DOMAIN p /\ MQSCKeyword(c[k]) = k
        /\ stored[k] = Meaning(k, p[c[k]].text)
    BY <1>1, <1>2
  <2> DEFINE text == p[c[k]].text
  <2>2. /\ IsText(text)
        /\ k \in NumberAttributes => IsNumber(text) /\ text.style \cap {"exp", "wide"} = {}
        /\ k \in KeywordAttributes => text.word # ""
    BY <2>1, Disjoint DEF Accepted
  <2> HIDE DEF text
  <2>3. Canonical(k, Meaning(k, text))
    BY <2>2, MeaningCanonical
  <2>4. QED
    BY <2>1, <2>3 DEF text
<1>3. QED
  BY <1>2 DEF AllCanonical

\* Whatever parameter is sent for a keyword, an object may get its value from it.
LEMMA SomeStored ==
    ASSUME NEW p, NEW b \in DOMAIN p
    PROVE  \E stored \in StoredValues(p) :
               stored[MQSCKeyword(b)] = Meaning(MQSCKeyword(b), p[b].text)
<1> DEFINE keywords == {MQSCKeyword(a) : a \in DOMAIN p}
           for(k) == IF k = MQSCKeyword(b) THEN b ELSE CHOOSE a \in DOMAIN p : MQSCKeyword(a) = k
           c == [k \in keywords |-> for(k)]
           stored == [k \in keywords |-> Meaning(k, p[c[k]].text)]
<1>1. ASSUME NEW k \in keywords PROVE for(k) \in DOMAIN p /\ MQSCKeyword(for(k)) = k
  <2>1. \E a \in DOMAIN p : MQSCKeyword(a) = k
    BY <1>1
  <2>2. QED
    BY <2>1
<1>2. MQSCKeyword(b) \in keywords /\ for(MQSCKeyword(b)) = b
  OBVIOUS
<1> HIDE DEF for
<1>3. c \in [keywords -> DOMAIN p] /\ \A k \in keywords : MQSCKeyword(c[k]) = k
  BY <1>1
<1>4. c[MQSCKeyword(b)] = b
  BY <1>2
<1> HIDE DEF c
<1>5. stored \in StoredValues(p)
  BY <1>3 DEF StoredValues
<1>6. stored[MQSCKeyword(b)] = Meaning(MQSCKeyword(b), p[b].text)
  BY <1>2, <1>4
<1> HIDE DEF stored
<1>7. QED
  BY <1>5, <1>6

LEMMA StoredDomain ==
    ASSUME NEW p, NEW stored \in StoredValues(p), NEW b \in DOMAIN p
    PROVE  MQSCKeyword(b) \in DOMAIN stored
  BY Zenon DEF StoredValues

-----------------------------------------------------------------------------
(***************************************************************************)
(* The answer to a DISPLAY                                                 *)
(***************************************************************************)

\* The keys a GET asks for and a comparison looks at.
CheckKeys(t, extra) == DriftCheckKeys(t) \cup extra

\* Candidates occur with local queues only.
ExtraOf(t, extra) ==
    /\ extra \subseteq QueueLocalDefineOnlyCandidates
    /\ t # "local" => extra = {}

\* The texts of the answer to a DISPLAY of the keys asked for.
RawTexts(t, stored, asked, long) == firstObjectAttributes(Displayed(t, stored, asked, long))

\* The same, normalised.
NormalAnswer(t, stored, asked, long) ==
    LET answer == RawTexts(t, stored, asked, long)
    IN  IF t \in QueueTypes THEN normalizeQueueAttributes(answer, t)
        ELSE IF t = "topic" THEN normalizeTopicAttributes(answer) ELSE answer

\* The keys by the names the comparison uses: each is its own MQSC keyword, and
\* admission knows it.
LEMMA CheckedNames ==
    ASSUME NEW t \in ObjectTypes, NEW extra, ExtraOf(t, extra),
           NEW a \in driftCheckKeySet(CheckKeys(t, extra))
    PROVE  /\ MQSCKeyword(a) = a
           /\ a # "topicstr"
           /\ a \in knownAttrs(t)
           /\ IF t = "topic" /\ a = "topstr" THEN "topicstr" \in CheckKeys(t, extra)
                                            ELSE a \in CheckKeys(t, extra)
<1>1. PICK k \in CheckKeys(t, extra) : a = IF k = "topicstr" THEN "topstr" ELSE k
  BY DEF driftCheckKeySet, NormalizeAttrKey, Key
<1>2. CASE t = "local"
  BY <1>1, <1>2 DEF ExtraOf, CheckKeys, DriftCheckKeys, QueueTypes, queueDisplayParameters,
     QueueLocalDefineOnlyCandidates, MQSCKeyword, knownAttrs
<1>3. CASE t \in {"alias", "remote"}
  BY <1>1, <1>3 DEF ExtraOf, CheckKeys, DriftCheckKeys, QueueTypes, queueDisplayParameters,
     MQSCKeyword, knownAttrs
<1>4. CASE t = "topic"
  BY <1>1, <1>4 DEF ExtraOf, CheckKeys, DriftCheckKeys, QueueTypes, topicDisplayParameters,
     MQSCKeyword, knownAttrs
<1>5. CASE t \in ChannelTypes
  BY <1>1, <1>5 DEF ExtraOf, CheckKeys, DriftCheckKeys, QueueTypes, ChannelTypes,
     channelDisplayParametersForType, MQSCKeyword, knownAttrs
<1>6. QED
  BY <1>2, <1>3, <1>4, <1>5 DEF ObjectTypes, QueueTypes

\* The answer has a text for every key asked for, under the name mqweb answers
\* with, and no other.
LEMMA RawAnswer ==
    ASSUME NEW t, NEW stored, NEW asked, NEW long
    PROVE  LET raw == RawTexts(t, stored, asked, long)
           IN  /\ \A n : n \in DOMAIN raw <=>
                           \E k \in asked : n = AnsweredName(t, MQSCKeyword(k), long)
               /\ \A n \in DOMAIN raw :
                     raw[n] = ShownText(MQSCKeyword(n), ValueOf(stored, MQSCKeyword(n)))
<1> DEFINE answer == Displayed(t, stored, asked, long)
           raw == RawTexts(t, stored, asked, long)
<1>1. DOMAIN answer = {AnsweredName(t, MQSCKeyword(k), long) : k \in asked}
  BY DEF Displayed
<1>2. \A n \in DOMAIN answer :
        /\ answer[n].text = ValueOf(stored, MQSCKeyword(n))
        /\ answer[n].json = IF MQSCKeyword(n) \in NumberAttributes THEN "number" ELSE "string"
  BY DEF Displayed
<1> HIDE DEF answer
<1>3. raw = [n \in DOMAIN answer |->
               IF answer[n].json = "number" THEN SprintNumber(answer[n].text) ELSE answer[n].text]
  BY DEF RawTexts, firstObjectAttributes, answer
<1>4. QED
  BY <1>1, <1>2, <1>3 DEF ShownText

\* The names mqweb answers with: the short ones, or the long ones for queues.
LEMMA AnsweredSame ==
    ASSUME NEW t, NEW long, NEW a, a # "topstr",
           ~long \/ t \notin QueueTypes \/ a \notin {"targq", "rname", "rqmname", "xmitq"}
    PROVE  AnsweredName(t, a, long) = a
  BY DEF AnsweredName

LEMMA AnsweredTopic ==
    ASSUME NEW t, NEW long
    PROVE  AnsweredName(t, "topstr", long) = "topicstr"
  BY DEF AnsweredName

LEMMA AnsweredLong ==
    ASSUME NEW t \in QueueTypes, NEW long, long
    PROVE  /\ AnsweredName(t, "targq", long) = "target"
           /\ AnsweredName(t, "rname", long) = "remotequeue"
           /\ AnsweredName(t, "rqmname", long) = "remotemanager"
           /\ AnsweredName(t, "xmitq", long) = "transmissionqueue"
  BY DEF AnsweredName

\* After normalisation the comparison finds every key it looks at under the name
\* it uses, whichever names mqweb answers with.
LEMMA AnswerShows ==
    ASSUME NEW t \in ObjectTypes, NEW extra, ExtraOf(t, extra), NEW stored, NEW long,
           NEW a \in driftCheckKeySet(CheckKeys(t, extra))
    PROVE  At(NormalAnswer(t, stored, CheckKeys(t, extra), long), a) = ShownText(a, ValueOf(stored, a))
<1> DEFINE asked == CheckKeys(t, extra)
           raw == RawTexts(t, stored, asked, long)
           val(k) == ShownText(k, ValueOf(stored, k))
<1>1. /\ DOMAIN raw = {AnsweredName(t, MQSCKeyword(k), long) : k \in asked}
      /\ \A n \in DOMAIN raw : raw[n] = val(MQSCKeyword(n))
  <2>1. \A n : n \in DOMAIN raw <=> \E k \in asked : n = AnsweredName(t, MQSCKeyword(k), long)
    BY RawAnswer
  <2>2. \A n \in DOMAIN raw : raw[n] = val(MQSCKeyword(n))
    BY RawAnswer
  <2>3. QED
    BY <2>1, <2>2
<1>2. MQSCKeyword(a) = a /\ a # "topicstr"
      /\ IF t = "topic" /\ a = "topstr" THEN "topicstr" \in asked ELSE a \in asked
  BY CheckedNames
<1>3. NormalAnswer(t, stored, asked, long) =
        IF t \in QueueTypes THEN normalizeQueueAttributes(raw, t)
        ELSE IF t = "topic" THEN normalizeTopicAttributes(raw) ELSE raw
  BY DEF NormalAnswer
<1> HIDE DEF asked, raw, val
<1>4. ASSUME a \in asked, AnsweredName(t, a, long) = a
      PROVE  a \in DOMAIN raw /\ At(raw, a) = val(a)
  <2>1. a \in DOMAIN raw
    BY <1>1, <1>2, <1>4
  <2>2. QED
    BY <1>1, <1>2, <2>1 DEF At
<1>5. CASE t \in {"local"} \cup ChannelTypes
  <2>1. AnsweredName(t, a, long) = a /\ a \in asked
    <3>1. a \in asked
      BY <1>2, <1>5 DEF ChannelTypes
    <3>2. a # "topstr" /\ (t \notin QueueTypes \/ a \notin {"targq", "rname", "rqmname", "xmitq"})
      BY <1>5, <3>1 DEF QueueTypes, ChannelTypes, asked, CheckKeys, ExtraOf, DriftCheckKeys,
         queueDisplayParameters, channelDisplayParametersForType, QueueLocalDefineOnlyCandidates
    <3>3. QED
      BY <3>1, <3>2, AnsweredSame
  <2>2. NormalAnswer(t, stored, asked, long) = raw
    BY <1>3, <1>5 DEF QueueTypes, ChannelTypes, normalizeQueueAttributes
  <2>3. QED
    BY <1>4, <2>1, <2>2 DEF asked, val
<1>6. CASE t = "topic"
  <2>1. NormalAnswer(t, stored, asked, long) =
            IF "topicstr" \in DOMAIN raw THEN With(raw, "topstr", raw["topicstr"]) ELSE raw
    BY <1>3, <1>6 DEF QueueTypes, normalizeTopicAttributes
  <2>2. CASE a = "topstr"
    <3>1. "topicstr" \in DOMAIN raw
      <4>1. MQSCKeyword("topicstr") = "topstr" /\ "topicstr" \in asked
        BY <1>2, <1>6, <2>2 DEF MQSCKeyword
      <4>2. AnsweredName(t, "topstr", long) = "topicstr"
        BY AnsweredTopic
      <4>3. QED
        BY <1>1, <4>1, <4>2
    <3>2. raw["topicstr"] = val("topstr")
      BY <1>1, <3>1 DEF MQSCKeyword
    <3>3. QED
      BY <2>1, <2>2, <3>1, <3>2, AtWith DEF asked, val
  <2>3. CASE a # "topstr"
    <3>1. AnsweredName(t, a, long) = a /\ a \in asked
      BY <1>2, <1>6, <2>3, AnsweredSame DEF QueueTypes
    <3>2. At(NormalAnswer(t, stored, asked, long), a) = At(raw, a)
      BY <2>1, <2>3, AtWith
    <3>3. QED
      BY <1>4, <3>1, <3>2 DEF asked, val
  <2>4. QED
    BY <2>2, <2>3
<1>7. CASE t = "alias"
  <2>1. asked = {"targq", "targtype", "descr"}
    BY <1>7 DEF asked, CheckKeys, ExtraOf, DriftCheckKeys, QueueTypes, queueDisplayParameters
  <2>2. NormalAnswer(t, stored, asked, long) = ShortName(raw, "targq", "target")
    BY <1>3, <1>7 DEF QueueTypes, normalizeQueueAttributes
  <2>3. CASE a = "targq" /\ long
    <3>1. "target" \in DOMAIN raw /\ "targq" \notin DOMAIN raw
      BY <1>1, <1>7, <2>1, <2>3 DEF AnsweredName, QueueTypes, MQSCKeyword
    <3>2. raw["target"] = val("targq")
      BY <1>1, <3>1 DEF MQSCKeyword
    <3>3. QED
      BY <2>2, <2>3, <3>1, <3>2, AtShortName DEF At, asked, val
  <2>4. CASE ~(a = "targq" /\ long)
    <3>1. AnsweredName(t, a, long) = a /\ a \in asked
      BY <1>2, <1>7, <2>1, <2>4, AnsweredSame
    <3>2. ~long => "target" \notin DOMAIN raw
      <4>1. \A k \in asked : MQSCKeyword(k) = k /\ k \notin {"target", "topstr"}
        BY <2>1 DEF MQSCKeyword
      <4>2. ~long => \A k \in asked : AnsweredName(t, MQSCKeyword(k), long) # "target"
        BY <4>1, AnsweredSame
      <4>3. QED
        BY <1>1, <4>2
    <3>3. At(NormalAnswer(t, stored, asked, long), a) = At(raw, a)
      BY <2>2, <2>4, <3>2, AtShortName
    <3>4. QED
      BY <1>4, <3>1, <3>3 DEF asked, val
  <2>5. QED
    BY <2>3, <2>4
<1>8. CASE t = "remote"
  <2>1. asked = {"rname", "rqmname", "xmitq", "descr"}
    BY <1>8 DEF asked, CheckKeys, ExtraOf, DriftCheckKeys, QueueTypes, queueDisplayParameters
  <2> DEFINE one == ShortName(raw, "rname", "remotequeue")
             two == ShortName(one, "rqmname", "remotemanager")
             three == ShortName(two, "xmitq", "transmissionqueue")
  <2>2. NormalAnswer(t, stored, asked, long) = three
    BY <1>3, <1>8 DEF QueueTypes, normalizeQueueAttributes
  <2>3. DOMAIN raw = IF long THEN {"remotequeue", "remotemanager", "transmissionqueue", "descr"}
                             ELSE {"rname", "rqmname", "xmitq", "descr"}
    <3>1. \A k \in asked : MQSCKeyword(k) = k
      BY <2>1 DEF MQSCKeyword
    <3>2. DOMAIN raw = {AnsweredName(t, k, long) : k \in asked}
      BY <1>1, <3>1
    <3>3. DOMAIN raw = {AnsweredName(t, "rname", long), AnsweredName(t, "rqmname", long),
                        AnsweredName(t, "xmitq", long), AnsweredName(t, "descr", long)}
      BY <2>1, <3>2
    <3>4. AnsweredName(t, "descr", long) = "descr"
      BY AnsweredSame
    <3>5. CASE long
      <4>1. t \in QueueTypes
        BY <1>8 DEF QueueTypes
      <4>2. QED
        BY <3>3, <3>4, <3>5, <4>1, AnsweredLong, Zenon
    <3>6. CASE ~long
      BY <3>3, <3>4, <3>6, AnsweredSame
    <3>7. QED
      BY <3>5, <3>6
  <2>4. /\ \A n \in {"rname", "rqmname", "xmitq", "descr"} :
             n \in DOMAIN raw => At(raw, n) = val(n)
        /\ "remotequeue" \in DOMAIN raw => raw["remotequeue"] = val("rname")
        /\ "remotemanager" \in DOMAIN raw => raw["remotemanager"] = val("rqmname")
        /\ "transmissionqueue" \in DOMAIN raw => raw["transmissionqueue"] = val("xmitq")
    BY <1>1 DEF MQSCKeyword, At
  <2>5. a \in {"rname", "rqmname", "xmitq", "descr"}
    BY <1>2, <1>8, <2>1
  <2>6. At(three, a) = val(a)
    <3>1. CASE ~long
      <4>1. one = raw
        BY <2>3, <3>1 DEF ShortName
      <4>2. two = raw
        BY <2>3, <3>1, <4>1 DEF ShortName
      <4>3. three = raw
        BY <2>3, <3>1, <4>2 DEF ShortName
      <4>4. QED
        BY <2>3, <2>4, <2>5, <3>1, <4>3
    <3>2. CASE long
      <4>1. /\ \A n : At(one, n) = IF n = "rname" THEN val("rname") ELSE At(raw, n)
            /\ \A n : n \in DOMAIN one <=> n \in DOMAIN raw \/ n = "rname"
        BY <2>3, <2>4, <3>2, AtShortName DEF At
      <4>2. At(raw, "rqmname") = Empty /\ At(raw, "xmitq") = Empty
        BY <2>3, <3>2 DEF At
      <4>3. one["remotemanager"] = val("rqmname")
        BY <2>3, <2>4, <3>2, <4>1 DEF At
      <4> HIDE DEF one
      <4>4. /\ \A n : At(two, n) = IF n = "rqmname" THEN val("rqmname") ELSE At(one, n)
            /\ \A n : n \in DOMAIN two <=> n \in DOMAIN one \/ n = "rqmname"
        BY <2>3, <3>2, <4>1, <4>2, <4>3, AtShortName
      <4>5. two["transmissionqueue"] = val("xmitq") /\ At(two, "xmitq") = Empty
        BY <2>3, <2>4, <3>2, <4>1, <4>2, <4>4 DEF At
      <4> HIDE DEF two
      <4>6. \A n : At(three, n) = IF n = "xmitq" THEN val("xmitq") ELSE At(two, n)
        BY <2>3, <3>2, <4>1, <4>4, <4>5, AtShortName
      <4>7. QED
        BY <2>3, <2>4, <2>5, <3>2, <4>1, <4>4, <4>6
    <3>3. QED
      BY <3>1, <3>2
  <2>7. QED
    BY <2>2, <2>6 DEF asked, val
<1>9. QED
  BY <1>5, <1>6, <1>7, <1>8 DEF ObjectTypes, QueueTypes

-----------------------------------------------------------------------------
(***************************************************************************)
(* The inductive invariant                                                 *)
(***************************************************************************)

Elements(s) == {s[i] : i \in DOMAIN s}

IsReconcile(x) ==
    DOMAIN x = {"pc", "desired", "call", "left", "extra", "seen", "asked", "was", "missed"}

Active(x) == x.pc \notin {"idle", "absent"}

\* The reconcile has the answer of a DISPLAY.
HasAnswer(x) == x.call = "drift" /\ ~x.missed

\* Where a reconcile x of an object of type t is.
Progress(t, x) ==
    /\ IsReconcile(x)
    /\ x.pc \in {"absent", "idle", "resolve", "probe", "storeYes", "storeNo", "define"}
    /\ x.call \in {"get", "drift"}
    /\ \A a \in DOMAIN x.desired : IsText(x.desired[a])
    /\ x.left \in Seq(CandidateSet) /\ Len(x.left) <= Len(Candidates)
    /\ x.extra \subseteq CandidateSet
    /\ x.asked \subseteq DriftCheckKeys(t) \cup CandidateSet
    /\ t # "local" => x.left = <<>> /\ x.extra = {}
    /\ x.pc \in {"probe", "storeYes", "storeNo"} => x.left # <<>>
    /\ x.pc = "define" => x.left = <<>> /\ x.call = "drift"
    /\ ~Active(x) => x.call = "get"
    /\ x.call = "get" \/ x.missed => ~x.seen.exists
    /\ x.call = "get" => ~x.missed

\* As long as mqweb displays what it always did: a reconcile has found only what
\* mqweb displays, has not passed over any of it, and its DISPLAY asked for all
\* of it.
Resolution(t, x) ==
    /\ x.extra \subseteq shows
    /\ x.pc = "storeYes" => Head(x.left) \in shows
    /\ x.pc = "storeNo" => Head(x.left) \notin shows
    /\ Active(x) /\ t = "local" => shows \subseteq x.extra \cup Elements(x.left)
    /\ HasAnswer(x) /\ t = "local" => shows \subseteq x.asked

\* What an answer says about the object that was read.
Answered(t, x) ==
    /\ DriftCheckKeys(t) \subseteq x.asked
    /\ x.seen.exists <=> x.was.exists
    /\ x.was.exists =>
          /\ AllCanonical(x.was.stored)
          /\ \A a \in driftCheckKeySet(x.asked) :
                At(x.seen.stored, a) = ShownText(a, ValueOf(x.was.stored, a))

\* The MQ object m has what the spec s asks for.
HasWanted(t, s, m) ==
    /\ m.exists
    /\ \E attrs \in toMQSpec(t, s) :
          \A a \in DOMAIN attrs \cap driftCheckKeySet(DriftCheckKeys(t)) :
              \E stored \in StoredValues(DefineParameters(t, attrs)) :
                  ValueOf(m.stored, MQSCKeyword(a)) = stored[MQSCKeyword(a)]

\* The reconcile, the spec and the object of o belong together.
Together(o) ==
    /\ mq[o].exists => AllCanonical(mq[o].stored)
    /\ HasAnswer(r[o]) => Answered(type[o], r[o])
    /\ r[o].pc = "define" /\ r[o].seen.exists =>
          AttributesNeedUpdate(r[o].desired, r[o].seen.stored, CheckKeys(type[o], r[o].extra))
    /\ ~disturbed[o] =>
          /\ HasAnswer(r[o]) => r[o].was = mq[o]
          /\ Active(r[o]) => r[o].desired \in toMQSpec(type[o], spec[o])
          /\ status[o] = "Synced" /\ r[o].pc = "idle" => HasWanted(type[o], spec[o], mq[o])

Frame ==
    /\ DOMAIN type = Objects /\ DOMAIN spec = Objects /\ DOMAIN status = Objects
    /\ DOMAIN mq = Objects /\ DOMAIN r = Objects /\ DOMAIN disturbed = Objects
    /\ world \in {"alone", "shared"}
    /\ shows \subseteq CandidateSet
    /\ DOMAIN displayProbeCache \subseteq CandidateSet
    /\ probeObject \in BOOLEAN /\ upgraded \in BOOLEAN
    /\ \A o \in Objects :
          /\ type[o] \in ObjectTypes
          /\ world = "shared" => type[o] = "local"
          /\ IsSpec(type[o], spec[o])
          /\ status[o] \in {"none", "Synced", "Error"}

\* The cache says what mqweb displays, as long as that does not change.
CacheIsRight == ~upgraded => \A a \in DOMAIN displayProbeCache : displayProbeCache[a] <=> a \in shows

SyncInv ==
    /\ Frame
    /\ CacheIsRight
    /\ \A o \in Objects :
          /\ Progress(type[o], r[o])
          /\ ~upgraded => Resolution(type[o], r[o])
          /\ Together(o)

-----------------------------------------------------------------------------
(***************************************************************************)
(* The steps of a reconcile, field by field                                *)
(***************************************************************************)

LEMMA CandidatesFit ==
    /\ Candidates \in Seq(CandidateSet)
    /\ CandidateSet \subseteq QueueLocalDefineOnlyCandidates
    /\ Elements(Candidates) = CandidateSet
<1>1. Candidates \in [1 .. Len(Candidates) -> QueueLocalDefineOnlyCandidates] /\ Len(Candidates) \in Nat
  BY CandidatesAssumption
<1>2. Candidates \in [1 .. Len(Candidates) -> CandidateSet]
  BY <1>1 DEF CandidateSet
<1>3. Candidates \in Seq(CandidateSet)
  BY <1>1, <1>2
<1>4. CandidateSet \subseteq QueueLocalDefineOnlyCandidates
  BY <1>1 DEF CandidateSet
<1>5. QED
  BY <1>3, <1>4 DEF Elements, CandidateSet

LEMMA HeadAndTail ==
    ASSUME NEW S, NEW s \in Seq(S), s # <<>>
    PROVE  /\ Head(s) \in S
           /\ Tail(s) \in Seq(S) /\ Len(Tail(s)) <= Len(s)
           /\ Elements(s) \subseteq {Head(s)} \cup Elements(Tail(s))
<1>1. Len(s) \in Nat /\ Len(s) >= 1 /\ DOMAIN s = 1 .. Len(s)
  OBVIOUS
<1>2. Head(s) = s[1] /\ s[1] \in S
  BY <1>1
<1>3. Tail(s) \in Seq(S) /\ Len(Tail(s)) = Len(s) - 1
  BY <1>1
<1>4. ASSUME NEW i \in 2 .. Len(s) PROVE s[i] \in Elements(Tail(s))
  <2>1. i - 1 \in 1 .. Len(Tail(s)) /\ Tail(s)[i - 1] = s[i]
    BY <1>1, <1>3
  <2>2. i - 1 \in DOMAIN Tail(s)
    BY <1>3, <2>1
  <2>3. QED
    BY <2>1, <2>2, Zenon DEF Elements
<1>5. \A i \in DOMAIN s : i = 1 \/ i \in 2 .. Len(s)
  BY <1>1
<1>6. Elements(s) \subseteq {Head(s)} \cup Elements(Tail(s))
  BY <1>2, <1>4, <1>5 DEF Elements
<1>7. QED
  BY <1>1, <1>2, <1>3, <1>6

LEMMA NoElements == Elements(<<>>) = {}
  BY DEF Elements

\* From here on most leaves are first-order reasoning about sets and functions;
\* those that need arithmetic, sequences or more unfolding cite SMT.
USE Zenon

\* y has the answer that x has.
Carries(y, x) ==
    /\ y.desired = x.desired /\ y.call = x.call /\ y.seen = x.seen
    /\ y.asked = x.asked /\ y.was = x.was /\ y.missed = x.missed

LEMMA PcStep ==
    ASSUME NEW x, IsReconcile(x), NEW p
    PROVE  LET y == [x EXCEPT !.pc = p]
           IN  /\ IsReconcile(y) /\ Carries(y, x)
               /\ y.pc = p /\ y.left = x.left /\ y.extra = x.extra
  BY DEF IsReconcile, Carries

LEMMA ResolvedStep ==
    ASSUME NEW o, IsReconcile(r[o]), NEW displayable
    PROVE  LET y == Resolved(o, displayable)
           IN  /\ IsReconcile(y) /\ Carries(y, r[o])
               /\ y.pc = "resolve" /\ y.left = Tail(r[o].left)
               /\ y.extra = IF displayable THEN r[o].extra \cup {Head(r[o].left)}
                                           ELSE r[o].extra
  BY DEF IsReconcile, Carries, Resolved

\* The left of a new resolution.
LeftOf(o) == IF type[o] = "local" THEN Candidates ELSE <<>>

LEMMA ResolvingStep ==
    ASSUME NEW o, IsReconcile(r[o]), NEW c, NEW y, y = Resolving(o, c)
    PROVE  /\ IsReconcile(y)
           /\ y.pc = "resolve" /\ y.call = c /\ y.extra = {} /\ y.left = LeftOf(o)
           /\ y.desired = r[o].desired /\ y.seen = r[o].seen /\ y.asked = r[o].asked
           /\ y.was = r[o].was /\ y.missed = r[o].missed
  BY DEF IsReconcile, Resolving, LeftOf

LEMMA IdleFits ==
    ASSUME NEW t
    PROVE  /\ Progress(t, Idle) /\ Progress(t, Absent)
           /\ ~HasAnswer(Idle) /\ ~HasAnswer(Absent)
           /\ Idle.pc = "idle" /\ Absent.pc = "absent"
           /\ Idle.extra = {} /\ Absent.extra = {}
<1>1. IsReconcile(Idle) /\ Idle.pc = "idle" /\ Idle.desired = <<>> /\ Idle.call = "get"
      /\ Idle.left = <<>> /\ Idle.extra = {} /\ Idle.seen = NoObject /\ Idle.asked = {}
      /\ Idle.missed = FALSE
  BY DEF Idle, IsReconcile
<1>2. IsReconcile(Absent) /\ Carries(Absent, Idle) /\ Absent.pc = "absent"
      /\ Absent.left = <<>> /\ Absent.extra = {}
  BY <1>1, PcStep, ZenonT(30) DEF Absent
<1>3. <<>> \in Seq(CandidateSet) /\ Len(<<>>) = 0 /\ DOMAIN <<>> = {} /\ Len(Candidates) \in Nat
  BY CandidatesAssumption, SMTT(30)
<1>4. ~NoObject.exists
  BY DEF NoObject
<1>5. QED
  BY <1>1, <1>2, <1>3, <1>4, SMTT(30) DEF Progress, HasAnswer, Active, Carries

-----------------------------------------------------------------------------
(***************************************************************************)
(* Steps that change one object's state                                    *)
(***************************************************************************)

\* The part of the invariant that is about o.
InvOf(o) ==
    /\ Progress(type[o], r[o])
    /\ ~upgraded => Resolution(type[o], r[o])
    /\ Together(o)

\* Nothing of the other objects changes.
OnlyOf(o) ==
    /\ UNCHANGED <<type, shows, upgraded>>
    /\ \A p \in Objects \ {o} :
          /\ spec'[p] = spec[p] /\ status'[p] = status[p] /\ mq'[p] = mq[p]
          /\ r'[p] = r[p] /\ disturbed'[p] = disturbed[p]

LEMMA Elsewhere ==
    ASSUME SyncInv, NEW o \in Objects, OnlyOf(o), Frame', CacheIsRight', InvOf(o)'
    PROVE  SyncInv'
<1>1. ASSUME NEW p \in Objects PROVE InvOf(p)'
  <2>1. CASE p = o
    BY <2>1
  <2>2. CASE p # o
    <3>1. /\ spec'[p] = spec[p] /\ status'[p] = status[p] /\ mq'[p] = mq[p]
          /\ r'[p] = r[p] /\ disturbed'[p] = disturbed[p] /\ type' = type /\ shows' = shows
          /\ upgraded' = upgraded
      BY <2>2 DEF OnlyOf
    <3>2. Progress(type[p], r[p]) /\ (~upgraded => Resolution(type[p], r[p])) /\ Together(p)
      BY DEF SyncInv
    <3>3. Resolution(type[p], r[p]) => Resolution(type[p], r[p])'
      BY <3>1 DEF Resolution
    <3>4. Together(p)'
      BY <3>1, <3>2 DEF Together
    <3>5. QED
      BY <3>1, <3>2, <3>3, <3>4 DEF InvOf
  <2>3. QED
    BY <2>1, <2>2
<1>2. QED
  BY <1>1 DEF SyncInv, InvOf

\* The end of a reconcile.
LEMMA Returned ==
    ASSUME SyncInv, NEW o \in Objects, NEW s \in {"Synced", "Error"}, Return(o, s),
           UNCHANGED <<world, type, spec, shows, probeObject, displayProbeCache, disturbed,
                       upgraded>>,
           DOMAIN mq' = Objects, \A p \in Objects \ {o} : mq'[p] = mq[p],
           mq'[o].exists => AllCanonical(mq'[o].stored),
           s = "Synced" /\ ~disturbed[o] => HasWanted(type[o], spec[o], mq'[o])
    PROVE  SyncInv'
<1>1. Frame /\ CacheIsRight
  BY DEF SyncInv
<1>2. /\ r'[o] = Idle /\ status'[o] = s
      /\ DOMAIN r' = Objects /\ DOMAIN status' = Objects
      /\ \A p \in Objects \ {o} : r'[p] = r[p] /\ status'[p] = status[p]
  BY <1>1 DEF Frame, Return
<1>3. Frame'
  <2>1. \A p \in Objects : status'[p] \in {"none", "Synced", "Error"}
    BY <1>1, <1>2 DEF Frame
  <2>2. QED
    BY <1>1, <1>2, <2>1 DEF Frame
<1>4. CacheIsRight'
  BY <1>1 DEF CacheIsRight
<1>5. OnlyOf(o)
  BY <1>2 DEF OnlyOf
<1>6. Progress(type[o], r[o])' /\ ~HasAnswer(r'[o]) /\ ~Active(r'[o])
  BY <1>2, IdleFits DEF Active
<1>7. Resolution(type[o], r[o])'
  BY <1>2, <1>6, IdleFits DEF Resolution
<1>8. Together(o)'
  BY <1>2, <1>6, IdleFits DEF Together
<1>9. QED
  BY <1>3, <1>4, <1>5, <1>6, <1>7, <1>8, Elsewhere DEF InvOf

\* What the invariant asks of a reconcile x that has not ended.
Fits(o, x) ==
    /\ Active(x)
    /\ Progress(type[o], x)
    /\ ~upgraded => Resolution(type[o], x)
    /\ HasAnswer(x) => Answered(type[o], x)
    /\ x.pc = "define" /\ x.seen.exists =>
          AttributesNeedUpdate(x.desired, x.seen.stored, CheckKeys(type[o], x.extra))

\* A step of a reconcile that goes on.
LEMMA Stepped ==
    ASSUME SyncInv, NEW o \in Objects, NEW x, Fits(o, x), r' = [r EXCEPT ![o] = x],
           UNCHANGED <<world, type, spec, status, mq, shows, probeObject, upgraded>>,
           DOMAIN disturbed' = Objects, \A p \in Objects \ {o} : disturbed'[p] = disturbed[p],
           DOMAIN displayProbeCache' \subseteq CandidateSet, CacheIsRight',
           ~disturbed'[o] => /\ HasAnswer(x) => x.was = mq[o]
                             /\ x.desired \in toMQSpec(type[o], spec[o])
    PROVE  SyncInv'
<1>1. Frame
  BY DEF SyncInv
<1>2. r'[o] = x /\ DOMAIN r' = Objects /\ \A p \in Objects \ {o} : r'[p] = r[p]
  BY <1>1 DEF Frame
<1>3. Frame'
  BY <1>1, <1>2 DEF Frame
<1>4. OnlyOf(o)
  BY <1>2 DEF OnlyOf
<1>5. Progress(type[o], r[o])'
  BY <1>2 DEF Fits
<1>6. (~upgraded => Resolution(type[o], r[o]))'
  BY <1>2 DEF Fits, Resolution
<1>7. Together(o)'
  <2>1. mq[o].exists => AllCanonical(mq[o].stored)
    BY DEF SyncInv, Together
  <2>2. r'[o].pc # "idle"
    BY <1>2 DEF Fits, Active
  <2>3. QED
    BY <1>2, <2>1, <2>2 DEF Fits, Together
<1>8. QED
  BY <1>3, <1>4, <1>5, <1>6, <1>7, Elsewhere DEF InvOf

-----------------------------------------------------------------------------
(***************************************************************************)
(* The actions of a reconcile                                              *)
(***************************************************************************)

\* A reconcile that begins to resolve the keys.
LEMMA RestartFits ==
    ASSUME SyncInv, NEW o \in Objects, NEW y, IsReconcile(y),
           y.pc = "resolve", y.call \in {"get", "drift"}, y.extra = {},
           y.left = LeftOf(o),
           \A a \in DOMAIN y.desired : IsText(y.desired[a]),
           y.asked \subseteq DriftCheckKeys(type[o]) \cup CandidateSet,
           y.call = "get" \/ y.missed => ~y.seen.exists,
           y.call = "get" => ~y.missed,
           HasAnswer(y) => /\ Answered(type[o], y)
                           /\ ~upgraded /\ type[o] = "local" => shows \subseteq y.asked
    PROVE  Fits(o, y)
<1>1. shows \subseteq CandidateSet
  BY DEF SyncInv, Frame
<1>2. Len(<<>>) = 0 /\ Len(Candidates) \in Nat /\ <<>> \in Seq(CandidateSet)
  BY CandidatesAssumption, SMTT(30)
<1>3. y.left \in Seq(CandidateSet) /\ Len(y.left) <= Len(Candidates)
      /\ (type[o] # "local" => y.left = <<>>)
  BY <1>2, CandidatesFit, SMTT(30) DEF LeftOf
<1>4. type[o] = "local" => Elements(y.left) = CandidateSet
  BY CandidatesFit DEF LeftOf
<1>5. Progress(type[o], y)
  BY <1>3 DEF Progress, Active
<1>6. ~upgraded => Resolution(type[o], y)
  BY <1>1, <1>4 DEF Resolution
<1>7. Active(y)
  BY DEF Active
<1>8. QED
  BY <1>5, <1>6, <1>7 DEF Fits

LEMMA BeginKeeps ==
    ASSUME SyncInv, NEW o \in Objects, Begin(o)
    PROVE  SyncInv'
<1>1. Frame /\ CacheIsRight /\ Progress(type[o], r[o])
  BY DEF SyncInv
<1>2. PICK attrs \in toMQSpec(type[o], spec[o]) :
        r' = [r EXCEPT ![o] = [Resolving(o, "get") EXCEPT !.desired = attrs]]
  BY DEF Begin
<1> DEFINE z == Resolving(o, "get")
           y == [z EXCEPT !.desired = attrs]
<1>3. /\ IsReconcile(z) /\ z.pc = "resolve" /\ z.call = "get" /\ z.extra = {}
      /\ z.left = LeftOf(o)
      /\ z.seen = r[o].seen /\ z.asked = r[o].asked /\ z.missed = r[o].missed
  <2>1. IsReconcile(r[o])
    BY <1>1 DEF Progress
  <2>2. z = Resolving(o, "get")
    OBVIOUS
  <2> HIDE DEF z
  <2>3. QED
    BY <2>1, <2>2, ResolvingStep, SMTT(30)
<1> HIDE DEF z
<1>4. /\ IsReconcile(y) /\ y.pc = "resolve" /\ y.call = "get" /\ y.extra = {}
      /\ y.left = LeftOf(o)
      /\ y.seen = r[o].seen /\ y.asked = r[o].asked /\ y.missed = r[o].missed
      /\ y.desired = attrs
  BY <1>3 DEF IsReconcile
<1> HIDE DEF y
<1>5. \A a \in DOMAIN attrs : IsText(attrs[a])
  BY <1>1, SpecTexts DEF Frame
<1>6. r[o].call = "get"
  BY <1>1 DEF Begin, Progress, Active
<1>7. ~HasAnswer(y)
  BY <1>4 DEF HasAnswer
<1>8. Fits(o, y)
  BY <1>1, <1>4, <1>5, <1>6, <1>7, RestartFits DEF Progress
<1>9. r' = [r EXCEPT ![o] = y]
  BY <1>2 DEF y, z
<1>10. /\ UNCHANGED <<world, type, spec, status, mq, shows, probeObject, upgraded>>
       /\ displayProbeCache' = displayProbeCache
       /\ DOMAIN disturbed' = Objects /\ \A p \in Objects \ {o} : disturbed'[p] = disturbed[p]
  BY <1>1 DEF Begin, Frame
<1>11. CacheIsRight' /\ DOMAIN displayProbeCache' \subseteq CandidateSet
  BY <1>1, <1>10 DEF CacheIsRight, Frame
<1>12. QED
  BY <1>4, <1>7, <1>8, <1>9, <1>10, <1>11, Stepped

\* A step that keeps the answer of the reconcile, and its object.
LEMMA CarriedStep ==
    ASSUME SyncInv, NEW o \in Objects, Active(r[o]), NEW x, Carries(x, r[o]), Fits(o, x),
           r' = [r EXCEPT ![o] = x],
           UNCHANGED <<world, type, spec, status, mq, shows, probeObject, disturbed, upgraded>>,
           DOMAIN displayProbeCache' \subseteq CandidateSet, CacheIsRight'
    PROVE  SyncInv'
<1>1. DOMAIN disturbed' = Objects /\ \A p \in Objects \ {o} : disturbed'[p] = disturbed[p]
  BY DEF SyncInv, Frame
<1>2. ~disturbed'[o] => /\ HasAnswer(x) => x.was = mq[o]
                        /\ x.desired \in toMQSpec(type[o], spec[o])
  BY DEF SyncInv, Together, Carries, HasAnswer
<1>3. QED
  BY <1>1, <1>2, Stepped

\* What a reconcile carries along still holds.
LEMMA CarriedFits ==
    ASSUME SyncInv, NEW o \in Objects, Active(r[o]), NEW x, Carries(x, r[o])
    PROVE  /\ HasAnswer(x) <=> HasAnswer(r[o])
           /\ HasAnswer(x) => Answered(type[o], x)
           /\ x.call \in {"get", "drift"}
           /\ \A a \in DOMAIN x.desired : IsText(x.desired[a])
           /\ x.asked \subseteq DriftCheckKeys(type[o]) \cup CandidateSet
           /\ x.call = "get" \/ x.missed => ~x.seen.exists
           /\ x.call = "get" => ~x.missed
<1>1. Progress(type[o], r[o]) /\ (HasAnswer(r[o]) => Answered(type[o], r[o]))
  BY DEF SyncInv, Together
<1>2. HasAnswer(x) <=> HasAnswer(r[o])
  BY DEF Carries, HasAnswer
<1>3. HasAnswer(x) => Answered(type[o], x)
  BY <1>1, <1>2 DEF Carries, Answered
<1>4. QED
  BY <1>1, <1>2, <1>3 DEF Progress, Carries

LEMMA ResolvedFits ==
    ASSUME SyncInv, NEW o \in Objects, Active(r[o]), r[o].left # <<>>, NEW displayable,
           ~upgraded => (displayable <=> Head(r[o].left) \in shows)
    PROVE  Fits(o, Resolved(o, displayable)) /\ Carries(Resolved(o, displayable), r[o])
<1> DEFINE y == Resolved(o, displayable)
<1>1. Progress(type[o], r[o]) /\ (~upgraded => Resolution(type[o], r[o]))
  BY DEF SyncInv
<1>2. /\ IsReconcile(y) /\ Carries(y, r[o])
      /\ y.pc = "resolve" /\ y.left = Tail(r[o].left)
      /\ y.extra = IF displayable THEN r[o].extra \cup {Head(r[o].left)} ELSE r[o].extra
  BY <1>1, ResolvedStep DEF Progress
<1> HIDE DEF y
<1>3. type[o] = "local" /\ r[o].left \in Seq(CandidateSet)
  BY <1>1 DEF Progress
<1>4. /\ Head(r[o].left) \in CandidateSet
      /\ y.left \in Seq(CandidateSet) /\ Len(y.left) <= Len(r[o].left)
      /\ Elements(r[o].left) \subseteq {Head(r[o].left)} \cup Elements(y.left)
  BY <1>2, <1>3, HeadAndTail
<1>5. y.extra \subseteq CandidateSet
  BY <1>1, <1>2, <1>4 DEF Progress
<1>6. Active(y)
  BY <1>2 DEF Active
<1>7. Len(y.left) <= Len(Candidates)
  <2>1. Len(r[o].left) \in Nat /\ Len(y.left) \in Nat /\ Len(Candidates) \in Nat
    BY <1>3, <1>4, CandidatesFit, SMTT(30)
  <2>2. QED
    BY <1>1, <1>4, <2>1, SMTT(30) DEF Progress
<1>8. Progress(type[o], y)
  BY <1>2, <1>3, <1>4, <1>5, <1>6, <1>7, CarriedFits DEF Progress
<1>9. ASSUME ~upgraded PROVE Resolution(type[o], y)
  <2>1. y.extra \subseteq shows
    BY <1>1, <1>2, <1>9 DEF Resolution
  <2>2. shows \subseteq y.extra \cup Elements(y.left)
    BY <1>1, <1>2, <1>3, <1>4, <1>9 DEF Resolution
  <2>3. HasAnswer(y) => shows \subseteq y.asked
    BY <1>1, <1>2, <1>3, <1>9, CarriedFits DEF Resolution, Carries
  <2>4. QED
    BY <1>2, <2>1, <2>2, <2>3 DEF Resolution
<1>10. QED
  BY <1>2, <1>6, <1>8, <1>9, CarriedFits DEF Fits, y

\* A step that only moves on.
LEMMA MovedFits ==
    ASSUME SyncInv, NEW o \in Objects, Active(r[o]), r[o].left # <<>>,
           NEW p \in {"probe", "storeYes", "storeNo"},
           ~upgraded /\ p = "storeYes" => Head(r[o].left) \in shows,
           ~upgraded /\ p = "storeNo" => Head(r[o].left) \notin shows
    PROVE  LET y == [r[o] EXCEPT !.pc = p] IN Fits(o, y) /\ Carries(y, r[o])
<1> DEFINE y == [r[o] EXCEPT !.pc = p]
<1>1. Progress(type[o], r[o]) /\ (~upgraded => Resolution(type[o], r[o]))
  BY DEF SyncInv
<1>2. /\ IsReconcile(y) /\ Carries(y, r[o])
      /\ y.pc = p /\ y.left = r[o].left /\ y.extra = r[o].extra
  BY <1>1, PcStep DEF Progress
<1> HIDE DEF y
<1>3. Active(y)
  BY <1>2 DEF Active
<1>4. Progress(type[o], y)
  BY <1>1, <1>2, <1>3, CarriedFits DEF Progress
<1>5. ~upgraded => Resolution(type[o], y)
  BY <1>1, <1>2, <1>3, CarriedFits DEF Resolution, Carries
<1>6. QED
  BY <1>2, <1>3, <1>4, <1>5, CarriedFits DEF Fits, y

LEMMA CachedKeeps ==
    ASSUME SyncInv, NEW o \in Objects, probeQueueLocalDisplayableCached(o)
    PROVE  SyncInv'
<1> DEFINE a == Head(r[o].left)
<1>1. /\ Active(r[o]) /\ r[o].left # <<>>
      /\ UNCHANGED <<world, type, spec, status, mq, shows, probeObject, disturbed, upgraded>>
      /\ displayProbeCache' = displayProbeCache
  BY DEF probeQueueLocalDisplayableCached, Active
<1>2. DOMAIN displayProbeCache' \subseteq CandidateSet /\ CacheIsRight'
  BY <1>1 DEF SyncInv, Frame, CacheIsRight
<1>3. CASE a \in DOMAIN displayProbeCache
  <2>1. r' = [r EXCEPT ![o] = Resolved(o, displayProbeCache[a])]
    BY <1>3 DEF probeQueueLocalDisplayableCached
  <2>2. ~upgraded => (displayProbeCache[a] <=> a \in shows)
    BY <1>3 DEF SyncInv, CacheIsRight
  <2>3. /\ Fits(o, Resolved(o, displayProbeCache[a]))
        /\ Carries(Resolved(o, displayProbeCache[a]), r[o])
    BY <1>1, <2>2, ResolvedFits
  <2>4. QED
    BY <1>1, <1>2, <2>1, <2>3, CarriedStep
<1>4. CASE a \notin DOMAIN displayProbeCache
  <2>1. r' = [r EXCEPT ![o] = [r[o] EXCEPT !.pc = "probe"]]
    BY <1>4 DEF probeQueueLocalDisplayableCached
  <2>2. Fits(o, [r[o] EXCEPT !.pc = "probe"]) /\ Carries([r[o] EXCEPT !.pc = "probe"], r[o])
    BY <1>1, MovedFits
  <2>3. QED
    BY <1>1, <1>2, <2>1, <2>2, CarriedStep
<1>5. QED
  BY <1>3, <1>4

LEMMA ReturnKeeps ==
    ASSUME SyncInv, NEW o \in Objects, Return(o, "Error"),
           UNCHANGED <<world, type, spec, mq, shows, probeObject, displayProbeCache, disturbed,
                       upgraded>>
    PROVE  SyncInv'
<1>1. DOMAIN mq' = Objects
  BY DEF SyncInv, Frame
<1>2. mq[o].exists => AllCanonical(mq[o].stored)
  BY DEF SyncInv, Together
<1>3. QED
  BY <1>1, <1>2, Returned

LEMMA ProbeKeeps ==
    ASSUME SyncInv, NEW o \in Objects, ProbeQueueLocalAttributeDisplayable(o)
    PROVE  SyncInv'
<1> DEFINE displayable == Head(r[o].left) \in shows
<1>1. /\ r[o].pc = "probe"
      /\ UNCHANGED <<world, type, spec, mq, shows, probeObject, disturbed, upgraded>>
      /\ displayProbeCache' = displayProbeCache
  BY DEF ProbeQueueLocalAttributeDisplayable
<1>2. Progress(type[o], r[o]) /\ Active(r[o]) /\ r[o].left # <<>>
  BY <1>1 DEF SyncInv, Progress, Active
<1>3. DOMAIN displayProbeCache' \subseteq CandidateSet /\ CacheIsRight'
  BY <1>1 DEF SyncInv, Frame, CacheIsRight
<1>4. CASE /\ r' = [r EXCEPT ![o].pc = IF displayable THEN "storeYes" ELSE "storeNo"]
           /\ status' = status
  <2> DEFINE p == IF displayable THEN "storeYes" ELSE "storeNo"
             y == [r[o] EXCEPT !.pc = p]
  <2>1. Fits(o, y) /\ Carries(y, r[o])
    BY <1>2, MovedFits
  <2>2. r' = [r EXCEPT ![o] = y]
    BY <1>4 DEF SyncInv, Frame
  <2> HIDE DEF y
  <2>3. QED
    BY <1>1, <1>2, <1>3, <1>4, <2>1, <2>2, CarriedStep
<1>5. CASE /\ r[o].call = "get" /\ status' = status
           /\ r' = [r EXCEPT ![o] = [Resolving(o, "drift") EXCEPT !.missed = TRUE]]
  <2> DEFINE z == Resolving(o, "drift")
             y == [z EXCEPT !.missed = TRUE]
  <2>1. /\ IsReconcile(z) /\ z.pc = "resolve" /\ z.call = "drift" /\ z.extra = {}
        /\ z.left = LeftOf(o)
        /\ z.seen = r[o].seen /\ z.asked = r[o].asked /\ z.desired = r[o].desired
    <3>1. IsReconcile(r[o])
      BY <1>2 DEF Progress
    <3>2. z = Resolving(o, "drift")
      OBVIOUS
    <3> HIDE DEF z
    <3>3. QED
      BY <3>1, <3>2, ResolvingStep, SMTT(30)
  <2> HIDE DEF z
  <2>2. /\ IsReconcile(y) /\ y.pc = "resolve" /\ y.call = "drift" /\ y.extra = {}
        /\ y.left = LeftOf(o)
        /\ y.seen = r[o].seen /\ y.asked = r[o].asked /\ y.desired = r[o].desired
        /\ y.missed
    BY <2>1 DEF IsReconcile
  <2>3. r' = [r EXCEPT ![o] = y]
    BY <1>5 DEF z
  <2> HIDE DEF y
  <2>4. ~HasAnswer(y)
    BY <2>2 DEF HasAnswer
  <2>5. Fits(o, y)
    BY <1>2, <1>5, <2>2, <2>4, RestartFits DEF Progress
  <2>6. ~disturbed'[o] => y.desired \in toMQSpec(type[o], spec[o])
    BY <1>1, <1>2, <2>2 DEF SyncInv, Together
  <2>7. DOMAIN disturbed' = Objects /\ \A p \in Objects \ {o} : disturbed'[p] = disturbed[p]
    BY <1>1 DEF SyncInv, Frame
  <2>8. QED
    BY <1>1, <1>3, <1>5, <2>3, <2>4, <2>5, <2>6, <2>7, Stepped
<1>6. CASE Return(o, "Error")
  BY <1>1, <1>6, ReturnKeeps
<1>7. QED
  BY <1>4, <1>5, <1>6 DEF ProbeQueueLocalAttributeDisplayable

LEMMA StoreKeeps ==
    ASSUME SyncInv, NEW o \in Objects, StoreProbeResult(o)
    PROVE  SyncInv'
<1> DEFINE a == Head(r[o].left)
           displayable == r[o].pc = "storeYes"
           y == Resolved(o, displayable)
<1>1. /\ r[o].pc \in {"storeYes", "storeNo"}
      /\ UNCHANGED <<world, type, spec, status, mq, shows, probeObject, disturbed, upgraded>>
      /\ displayProbeCache' = With(displayProbeCache, a, displayable)
      /\ r' = [r EXCEPT ![o] = y]
  BY DEF StoreProbeResult
<1>2. Active(r[o]) /\ r[o].left # <<>> /\ r[o].left \in Seq(CandidateSet)
  BY <1>1 DEF SyncInv, Progress, Active
<1>3. ~upgraded => (displayable <=> a \in shows)
  BY <1>1 DEF SyncInv, Resolution
<1> HIDE DEF displayable
<1>4. Fits(o, y) /\ Carries(y, r[o])
  BY <1>2, <1>3, ResolvedFits
<1> HIDE DEF y
<1>5. a \in CandidateSet
  BY <1>2, HeadAndTail
<1>6. DOMAIN displayProbeCache' = DOMAIN displayProbeCache \cup {a}
      /\ \A k \in DOMAIN displayProbeCache' :
            displayProbeCache'[k] = IF k = a THEN displayable ELSE displayProbeCache[k]
  BY <1>1 DEF With
<1>7. DOMAIN displayProbeCache' \subseteq CandidateSet
  BY <1>5, <1>6 DEF SyncInv, Frame
<1>8. CacheIsRight'
  BY <1>1, <1>3, <1>6 DEF SyncInv, CacheIsRight
<1>9. QED
  BY <1>1, <1>2, <1>4, <1>7, <1>8, CarriedStep

\* The DISPLAY of a GET: whatever names the answer uses, the reconcile sees what
\* the queue manager has.
LEMMA DisplayKeeps ==
    ASSUME SyncInv, NEW o \in Objects, NEW answers, Display(o, answers),
           \A long \in BOOLEAN :
               answers[long] = NormalAnswer(type[o], mq[o].stored, driftKeys(o), long)
    PROVE  SyncInv'
<1>1. /\ r[o].pc = "resolve" /\ r[o].left = <<>> /\ r[o].call = "get"
      /\ UNCHANGED <<world, type, spec, mq, shows, probeObject, disturbed, upgraded>>
      /\ displayProbeCache' = displayProbeCache
  BY DEF Display
<1>2. /\ Progress(type[o], r[o]) /\ Active(r[o]) /\ type[o] \in ObjectTypes
      /\ (mq[o].exists => AllCanonical(mq[o].stored))
      /\ (~upgraded => Resolution(type[o], r[o]))
  BY <1>1 DEF SyncInv, Active, Frame, Together
<1>3. IsReconcile(r[o])
  BY <1>2 DEF Progress
<1>4. driftKeys(o) = CheckKeys(type[o], r[o].extra) /\ ExtraOf(type[o], r[o].extra)
  BY <1>2, CandidatesFit, ZenonT(30) DEF driftKeys, CheckKeys, ExtraOf, Progress
<1>5. \A long, a : a \in driftCheckKeySet(CheckKeys(type[o], r[o].extra)) =>
          At(NormalAnswer(type[o], mq[o].stored, CheckKeys(type[o], r[o].extra), long), a)
              = ShownText(a, ValueOf(mq[o].stored, a))
  BY <1>2, <1>4, AnswerShows, SMTT(30)
<1>6. CASE /\ \E long \in BOOLEAN :
                LET got == IF mq[o].exists THEN Object(answers[long]) ELSE NoObject
                IN  r' = [r EXCEPT ![o] = [Resolving(o, "drift") EXCEPT
                            !.seen = got, !.asked = driftKeys(o), !.was = mq[o]]]
           /\ status' = status
  <2> DEFINE value(a) == ShownText(a, ValueOf(mq[o].stored, a))
  <2>1. \E got :
          /\ r' = [r EXCEPT ![o] = [Resolving(o, "drift") EXCEPT
                            !.seen = got, !.asked = driftKeys(o), !.was = mq[o]]]
          /\ got.exists <=> mq[o].exists
          /\ mq[o].exists => \A a \in driftCheckKeySet(driftKeys(o)) : At(got.stored, a) = value(a)
    <3>1. PICK long \in BOOLEAN :
            LET got == IF mq[o].exists THEN Object(answers[long]) ELSE NoObject
            IN  r' = [r EXCEPT ![o] = [Resolving(o, "drift") EXCEPT
                        !.seen = got, !.asked = driftKeys(o), !.was = mq[o]]]
      BY <1>6
    <3> DEFINE got == IF mq[o].exists THEN Object(answers[long]) ELSE NoObject
               normal == NormalAnswer(type[o], mq[o].stored, driftKeys(o), long)
    <3>2. got.exists <=> mq[o].exists
      BY DEF Object, NoObject
    <3>3. mq[o].exists => got.stored = normal
      BY DEF Object
    <3>4. \A a \in driftCheckKeySet(driftKeys(o)) : At(normal, a) = value(a)
      BY <1>4, <1>5
    <3> HIDE DEF normal, value
    <3>5. mq[o].exists => \A a \in driftCheckKeySet(driftKeys(o)) : At(got.stored, a) = value(a)
      BY <3>3, <3>4
    <3> HIDE DEF got
    <3>6. r' = [r EXCEPT ![o] = [Resolving(o, "drift") EXCEPT
                    !.seen = got, !.asked = driftKeys(o), !.was = mq[o]]]
      BY <3>1 DEF got
    <3>7. QED
      BY <3>2, <3>5, <3>6
  <2>2. PICK got :
          /\ r' = [r EXCEPT ![o] = [Resolving(o, "drift") EXCEPT
                            !.seen = got, !.asked = driftKeys(o), !.was = mq[o]]]
          /\ got.exists <=> mq[o].exists
          /\ mq[o].exists => \A a \in driftCheckKeySet(driftKeys(o)) : At(got.stored, a) = value(a)
    BY <2>1
  <2> DEFINE z == Resolving(o, "drift")
             y == [z EXCEPT !.seen = got, !.asked = driftKeys(o), !.was = mq[o]]
  <2>3. /\ IsReconcile(z) /\ z.pc = "resolve" /\ z.call = "drift" /\ z.extra = {}
        /\ z.left = LeftOf(o)
        /\ z.desired = r[o].desired /\ z.missed = r[o].missed
    <3>1. z = Resolving(o, "drift")
      OBVIOUS
    <3> HIDE DEF z
    <3>2. QED
      BY <1>3, <3>1, ResolvingStep, SMTT(30)
  <2> HIDE DEF z
  <2>4. /\ IsReconcile(y) /\ y.pc = "resolve" /\ y.call = "drift" /\ y.extra = {}
        /\ y.left = LeftOf(o)
        /\ y.desired = r[o].desired /\ y.missed = r[o].missed
        /\ y.seen = got /\ y.asked = driftKeys(o) /\ y.was = mq[o]
    BY <2>3 DEF IsReconcile
  <2>5. r' = [r EXCEPT ![o] = y]
    BY <2>2 DEF z
  <2> HIDE DEF y
  <2>6. ~y.missed /\ \A a \in DOMAIN y.desired : IsText(y.desired[a])
    BY <1>1, <1>2, <2>4 DEF Progress
  <2>7. y.asked \subseteq DriftCheckKeys(type[o]) \cup CandidateSet
    BY <1>2, <2>4 DEF driftKeys, Progress
  <2>8. Answered(type[o], y)
    <3>1. DriftCheckKeys(type[o]) \subseteq y.asked
      BY <2>4 DEF driftKeys
    <3>2. QED
      BY <1>2, <2>2, <2>4, <3>1 DEF Answered
  <2>9. ~upgraded /\ type[o] = "local" => shows \subseteq y.asked
    BY <1>1, <1>2, <2>4, NoElements DEF Resolution, driftKeys
  <2>10. Fits(o, y)
    BY <2>4, <2>6, <2>7, <2>8, <2>9, RestartFits
  <2>11. ~disturbed'[o] => y.desired \in toMQSpec(type[o], spec[o])
    BY <1>1, <1>2, <2>4 DEF SyncInv, Together
  <2>12. DOMAIN disturbed' = Objects /\ \A p \in Objects \ {o} : disturbed'[p] = disturbed[p]
    BY <1>1 DEF SyncInv, Frame
  <2>13. DOMAIN displayProbeCache' \subseteq CandidateSet /\ CacheIsRight'
    BY <1>1 DEF SyncInv, Frame, CacheIsRight
  <2>14. QED
    BY <1>1, <1>6, <2>4, <2>5, <2>10, <2>11, <2>12, <2>13, Stepped
<1>7. CASE Return(o, "Error")
  BY <1>1, <1>7, ReturnKeeps
<1>8. QED
  BY <1>6, <1>7 DEF Display

LEMMA GetKeeps ==
    ASSUME SyncInv, NEW o \in Objects, GetQueue(o) \/ GetTopic(o) \/ GetChannel(o)
    PROVE  SyncInv'
<1> DEFINE normal(long) == NormalAnswer(type[o], mq[o].stored, driftKeys(o), long)
<1>1. CASE GetQueue(o)
  <2> DEFINE answers ==
        [long \in BOOLEAN |-> normalizeQueueAttributes(Answer(o, long), type[o])]
  <2>1. Display(o, answers) /\ type[o] \in QueueTypes
    BY <1>1 DEF GetQueue
  <2>2. \A long \in BOOLEAN : answers[long] = normal(long)
    BY <2>1 DEF NormalAnswer, Answer, RawTexts
  <2> HIDE DEF answers
  <2>3. QED
    BY <2>1, <2>2, DisplayKeeps
<1>2. CASE GetTopic(o)
  <2> DEFINE answers == [long \in BOOLEAN |-> normalizeTopicAttributes(Answer(o, long))]
  <2>1. Display(o, answers) /\ type[o] = "topic"
    BY <1>2 DEF GetTopic
  <2>2. \A long \in BOOLEAN : answers[long] = normal(long)
    BY <2>1 DEF NormalAnswer, Answer, RawTexts, QueueTypes
  <2> HIDE DEF answers
  <2>3. QED
    BY <2>1, <2>2, DisplayKeeps
<1>3. CASE GetChannel(o)
  <2> DEFINE answers == [long \in BOOLEAN |-> Answer(o, long)]
  <2>1. Display(o, answers) /\ type[o] \in ChannelTypes
    BY <1>3 DEF GetChannel
  <2>2. \A long \in BOOLEAN : answers[long] = normal(long)
    BY <2>1 DEF NormalAnswer, Answer, RawTexts, QueueTypes, ChannelTypes
  <2> HIDE DEF answers
  <2>3. QED
    BY <2>1, <2>2, DisplayKeeps
<1>4. QED
  BY <1>1, <1>2, <1>3

\* What the DEFINE would send for a checked attribute is stored under the
\* attribute's own keyword.
LEMMA ParameterKeyword ==
    ASSUME NEW t \in ObjectTypes, NEW a \in driftCheckKeySet(DriftCheckKeys(t))
    PROVE  MQSCKeyword(a) = a /\ a # "topicstr" /\ MQSCKeyword(ParameterFor(t, a)) = a
<1>1. ExtraOf(t, {}) /\ CheckKeys(t, {}) = DriftCheckKeys(t)
  BY DEF ExtraOf, CheckKeys
<1>2. MQSCKeyword(a) = a /\ a # "topicstr"
  BY <1>1, CheckedNames
<1>3. QED
  BY <1>2 DEF ParameterFor, MQSCKeyword

\* A comparison that finds no difference has found what the spec asks for.
LEMMA MatchedIsWanted ==
    ASSUME NEW t \in ObjectTypes, NEW s, NEW x, Answered(t, x), x.was.exists,
           x.desired \in toMQSpec(t, s), \A a \in DOMAIN x.desired : IsText(x.desired[a]),
           NEW extra, ~AttributesNeedUpdate(x.desired, x.seen.stored, CheckKeys(t, extra))
    PROVE  HasWanted(t, s, x.was)
<1> DEFINE d == x.desired
           stored == x.was.stored
           p == DefineParameters(t, d)
           base == driftCheckKeySet(DriftCheckKeys(t))
<1>1. base \subseteq driftCheckKeySet(x.asked) /\ base \subseteq driftCheckKeySet(CheckKeys(t, extra))
  BY DEF Answered, driftCheckKeySet, CheckKeys
<1>2. ASSUME NEW a \in DOMAIN d \cap base
      PROVE  \E new \in StoredValues(p) : ValueOf(stored, MQSCKeyword(a)) = new[MQSCKeyword(a)]
  <2> DEFINE v == ValueOf(stored, a)
             b == ParameterFor(t, a)
  <2>1. Canonical(a, v)
    BY ValueCanonical DEF Answered
  <2>2. AttributeValueMatches(a, d[a], ShownText(a, v))
    <3>1. AttributeValueMatches(a, d[a], At(x.seen.stored, a))
      BY <1>1, <1>2 DEF AttributesNeedUpdate, AttributeDriftsForKeys
    <3>2. At(x.seen.stored, a) = ShownText(a, v)
      BY <1>1, <1>2 DEF Answered
    <3>3. QED
      BY <3>1, <3>2
  <2>3. MQSCKeyword(a) = a /\ a # "topicstr" /\ MQSCKeyword(b) = a
    BY <1>2, ParameterKeyword
  <2> HIDE DEF v, d
  <2>4. /\ v = Meaning(a, d[a])
        /\ a \in NumberAttributes => v = Meaning(a, Itoa(d[a]))
        /\ a \in KeywordAttributes => v = Meaning(a, ToUpper(d[a]))
    BY <1>2, <2>1, <2>2, MatchMeans DEF d
  <2>5. b \in DOMAIN p /\ Sent(a, d[a], p[b].text)
    BY <1>2, <2>3, Parameters DEF d
  <2> HIDE DEF p, b
  <2>6. v = Meaning(a, p[b].text)
    BY <2>4, <2>5 DEF Sent
  <2>7. PICK new \in StoredValues(p) : new[MQSCKeyword(b)] = Meaning(MQSCKeyword(b), p[b].text)
    BY <2>5, SomeStored
  <2>8. QED
    BY <2>3, <2>6, <2>7 DEF v
<1> HIDE DEF p, base, stored
<1>3. QED
  BY <1>2 DEF HasWanted, p, base, stored

LEMMA CompareKeeps ==
    ASSUME SyncInv, NEW o \in Objects, reconcileMQObjectState(o)
    PROVE  SyncInv'
<1> DEFINE needsUpdate == r[o].seen.exists =>
               AttributesNeedUpdate(r[o].desired, r[o].seen.stored, driftKeys(o))
<1>1. /\ r[o].pc = "resolve" /\ r[o].left = <<>> /\ r[o].call = "drift"
      /\ UNCHANGED <<world, type, spec, mq, shows, probeObject, disturbed, upgraded>>
      /\ displayProbeCache' = displayProbeCache
  BY DEF reconcileMQObjectState
<1>2. /\ Progress(type[o], r[o]) /\ Active(r[o]) /\ type[o] \in ObjectTypes
      /\ (~upgraded => Resolution(type[o], r[o]))
      /\ DOMAIN r = Objects /\ DOMAIN mq = Objects
  BY <1>1 DEF SyncInv, Active, Frame
<1>3. driftKeys(o) = CheckKeys(type[o], r[o].extra)
  BY DEF driftKeys, CheckKeys
<1>4. CASE needsUpdate /\ r' = [r EXCEPT ![o].pc = "define"] /\ status' = status
  <2> DEFINE y == [r[o] EXCEPT !.pc = "define"]
  <2>1. /\ IsReconcile(y) /\ Carries(y, r[o])
        /\ y.pc = "define" /\ y.left = r[o].left /\ y.extra = r[o].extra
    BY <1>2, PcStep DEF Progress
  <2>2. r' = [r EXCEPT ![o] = y]
    BY <1>2, <1>4
  <2> HIDE DEF y
  <2>3. Active(y)
    BY <2>1 DEF Active
  <2>4. Progress(type[o], y)
    BY <1>1, <1>2, <2>1, <2>3, CarriedFits DEF Progress, Carries
  <2>5. ~upgraded => Resolution(type[o], y)
    BY <1>2, <2>1, <2>3, CarriedFits DEF Resolution, Carries
  <2>6. y.seen.exists => AttributesNeedUpdate(y.desired, y.seen.stored, CheckKeys(type[o], y.extra))
    BY <1>3, <1>4, <2>1 DEF Carries
  <2>7. Fits(o, y)
    BY <1>2, <2>1, <2>3, <2>4, <2>5, <2>6, CarriedFits DEF Fits
  <2>8. DOMAIN displayProbeCache' \subseteq CandidateSet /\ CacheIsRight'
    BY <1>1 DEF SyncInv, Frame, CacheIsRight
  <2>9. QED
    BY <1>1, <1>2, <1>4, <2>1, <2>2, <2>7, <2>8, CarriedStep
<1>5. CASE ~needsUpdate /\ Return(o, "Synced")
  <2>1. r[o].seen.exists /\ HasAnswer(r[o]) /\ Answered(type[o], r[o])
        /\ ~AttributesNeedUpdate(r[o].desired, r[o].seen.stored, CheckKeys(type[o], r[o].extra))
    BY <1>1, <1>2, <1>3, <1>5 DEF SyncInv, Together, Progress, HasAnswer
  <2>2. r[o].was.exists
    BY <2>1 DEF Answered
  <2>3. ASSUME ~disturbed[o] PROVE HasWanted(type[o], spec[o], mq[o])
    <3>1. r[o].was = mq[o] /\ r[o].desired \in toMQSpec(type[o], spec[o])
      BY <1>2, <2>1, <2>3 DEF SyncInv, Together
    <3>2. \A a \in DOMAIN r[o].desired : IsText(r[o].desired[a])
      BY <1>2 DEF Progress
    <3>3. HasWanted(type[o], spec[o], r[o].was)
      BY <1>2, <2>1, <2>2, <3>1, <3>2, MatchedIsWanted
    <3>4. QED
      BY <3>1, <3>3
  <2>4. mq[o].exists => AllCanonical(mq[o].stored)
    BY DEF SyncInv, Together
  <2>5. QED
    BY <1>1, <1>2, <1>5, <2>3, <2>4, Returned
<1>6. QED
  BY <1>4, <1>5 DEF reconcileMQObjectState

\* What an accepted DEFINE leaves.
LEMMA DefinedIsWanted ==
    ASSUME NEW t \in ObjectTypes, NEW attrs, \A a \in DOMAIN attrs : IsText(attrs[a]),
           Accepted(DefineParameters(t, attrs)),
           NEW stored \in StoredValues(DefineParameters(t, attrs)), NEW s
    PROVE  /\ AllCanonical(Object(stored).stored)
           /\ attrs \in toMQSpec(t, s) => HasWanted(t, s, Object(stored))
<1> DEFINE p == DefineParameters(t, attrs)
           base == driftCheckKeySet(DriftCheckKeys(t))
<1>1. Object(stored).exists /\ Object(stored).stored = stored
  BY DEF Object
<1>2. AllCanonical(stored)
  BY Parameters, StoredCanonical
<1>3. ASSUME NEW a \in DOMAIN attrs \cap base
      PROVE  ValueOf(stored, MQSCKeyword(a)) = stored[MQSCKeyword(a)]
  <2>1. MQSCKeyword(a) = a /\ a # "topicstr" /\ MQSCKeyword(ParameterFor(t, a)) = a
    BY <1>3, ParameterKeyword
  <2>2. ParameterFor(t, a) \in DOMAIN p
    BY <1>3, <2>1, Parameters
  <2>3. a \in DOMAIN stored
    BY <2>1, <2>2, StoredDomain, SMTT(30)
  <2>4. QED
    BY <2>1, <2>3 DEF ValueOf
<1>4. QED
  BY <1>1, <1>2, <1>3 DEF HasWanted

LEMMA DefineKeeps ==
    ASSUME SyncInv, NEW o \in Objects, DefineQueue(o) \/ DefineTopic(o) \/ DefineChannel(o)
    PROVE  SyncInv'
<1> DEFINE p == DefineParameters(type[o], r[o].desired)
<1>1. Define(o, p)
  BY DEF DefineQueue, DefineTopic, DefineChannel, DefineParameters, QueueTypes, ChannelTypes
<1>2. /\ r[o].pc = "define"
      /\ UNCHANGED <<world, type, spec, shows, probeObject, displayProbeCache, disturbed, upgraded>>
  BY <1>1 DEF Define
<1>3. /\ Progress(type[o], r[o]) /\ Active(r[o]) /\ type[o] \in ObjectTypes
      /\ DOMAIN mq = Objects
  BY <1>2 DEF SyncInv, Active, Frame
<1>4. \A a \in DOMAIN r[o].desired : IsText(r[o].desired[a])
  BY <1>3 DEF Progress
<1>5. ASSUME Accepted(p), NEW stored \in StoredValues(p), mq' = [mq EXCEPT ![o] = Object(stored)],
             Return(o, "Synced")
      PROVE  SyncInv'
  <2>1. mq'[o] = Object(stored) /\ DOMAIN mq' = Objects /\ \A q \in Objects \ {o} : mq'[q] = mq[q]
    BY <1>3, <1>5
  <2>2. AllCanonical(mq'[o].stored)
    BY <1>3, <1>4, <1>5, <2>1, DefinedIsWanted
  <2>3. ASSUME ~disturbed[o] PROVE HasWanted(type[o], spec[o], mq'[o])
    <3>1. r[o].desired \in toMQSpec(type[o], spec[o])
      BY <1>3, <2>3 DEF SyncInv, Together
    <3>2. QED
      BY <1>3, <1>4, <1>5, <2>1, <3>1, DefinedIsWanted
  <2>4. QED
    BY <1>2, <1>5, <2>1, <2>2, <2>3, Returned
<1>6. ASSUME Return(o, "Error"), mq' = mq
      PROVE  SyncInv'
  BY <1>2, <1>6, ReturnKeeps
<1>7. QED
  BY <1>1, <1>5, <1>6 DEF Define

-----------------------------------------------------------------------------
(***************************************************************************)
(* The world around it                                                     *)
(***************************************************************************)

LEMMA FailKeeps ==
    ASSUME SyncInv, NEW o \in Objects, CommandFails(o)
    PROVE  SyncInv'
<1> DEFINE p == DefineParameters(type[o], r[o].desired)
<1>1. /\ Return(o, "Error")
      /\ UNCHANGED <<world, type, spec, shows, probeObject, displayProbeCache, disturbed, upgraded>>
  BY DEF CommandFails
<1>2. Progress(type[o], r[o]) /\ type[o] \in ObjectTypes /\ DOMAIN mq = Objects
  BY DEF SyncInv, Frame
<1>3. CASE mq' = mq
  BY <1>1, <1>3, ReturnKeeps
<1>4. ASSUME Accepted(p), NEW stored \in StoredValues(p), mq' = [mq EXCEPT ![o] = Object(stored)]
      PROVE  SyncInv'
  <2>1. mq'[o] = Object(stored) /\ DOMAIN mq' = Objects /\ \A q \in Objects \ {o} : mq'[q] = mq[q]
    BY <1>2, <1>4
  <2>2. \A a \in DOMAIN r[o].desired : IsText(r[o].desired[a])
    BY <1>2 DEF Progress
  <2>3. AllCanonical(mq'[o].stored)
    BY <1>2, <1>4, <2>1, <2>2, DefinedIsWanted
  <2>4. QED
    BY <1>1, <2>1, <2>3, Returned
<1>5. QED
  BY <1>3, <1>4 DEF CommandFails

LEMMA EditKeeps ==
    ASSUME SyncInv, NEW o \in Objects, EditSpec(o)
    PROVE  SyncInv'
<1>1. /\ world = "shared"
      /\ UNCHANGED <<world, type, status, mq, r, shows, probeObject, displayProbeCache, upgraded>>
      /\ disturbed' = [disturbed EXCEPT ![o] = TRUE]
  BY DEF EditSpec, Interfere
<1>2. PICK s \in SharedSpecs : spec' = [spec EXCEPT ![o] = s]
  BY DEF EditSpec
<1>3. Frame /\ CacheIsRight
  BY DEF SyncInv
<1>4. /\ disturbed'[o] /\ DOMAIN disturbed' = Objects /\ DOMAIN spec' = Objects /\ spec'[o] = s
      /\ \A q \in Objects \ {o} : spec'[q] = spec[q] /\ disturbed'[q] = disturbed[q]
  BY <1>1, <1>2, <1>3 DEF Frame
<1>5. \A q \in Objects : IsSpec(type[q], spec'[q])
  BY <1>1, <1>3, <1>4, SpecsAssumption, SMTT(30) DEF Frame
<1>6. Frame'
  BY <1>1, <1>3, <1>4, <1>5 DEF Frame
<1>7. CacheIsRight'
  BY <1>1, <1>3 DEF CacheIsRight
<1>8. OnlyOf(o)
  BY <1>1, <1>4 DEF OnlyOf
<1>9. Progress(type[o], r[o]) /\ (~upgraded => Resolution(type[o], r[o])) /\ Together(o)
  BY DEF SyncInv
<1>10. Progress(type[o], r[o])' /\ (~upgraded => Resolution(type[o], r[o]))'
  BY <1>1, <1>9 DEF Resolution
<1>11. Together(o)'
  BY <1>1, <1>4, <1>9 DEF Together
<1>12. QED
  BY <1>6, <1>7, <1>8, <1>10, <1>11, Elsewhere DEF InvOf

LEMMA OutOfBandKeeps ==
    ASSUME SyncInv, NEW o \in Objects, OutOfBand(o)
    PROVE  SyncInv'
<1>1. /\ UNCHANGED <<world, type, spec, status, r, shows, probeObject, displayProbeCache, upgraded>>
      /\ disturbed' = [disturbed EXCEPT ![o] = TRUE]
  BY DEF OutOfBand, Interfere
<1>2. PICK m \in {NoObject, Object(<<>>)} : mq' = [mq EXCEPT ![o] = m]
  BY DEF OutOfBand
<1>3. Frame /\ CacheIsRight
  BY DEF SyncInv
<1>4. /\ disturbed'[o] /\ DOMAIN disturbed' = Objects /\ DOMAIN mq' = Objects /\ mq'[o] = m
      /\ \A q \in Objects \ {o} : mq'[q] = mq[q] /\ disturbed'[q] = disturbed[q]
  BY <1>1, <1>2, <1>3 DEF Frame
<1>5. m.exists => AllCanonical(m.stored)
  BY SMTT(30) DEF NoObject, Object, AllCanonical
<1>6. Frame'
  BY <1>1, <1>3, <1>4 DEF Frame
<1>7. CacheIsRight'
  BY <1>1, <1>3 DEF CacheIsRight
<1>8. OnlyOf(o)
  BY <1>1, <1>4 DEF OnlyOf
<1>9. Progress(type[o], r[o]) /\ (~upgraded => Resolution(type[o], r[o])) /\ Together(o)
  BY DEF SyncInv
<1>10. Progress(type[o], r[o])' /\ (~upgraded => Resolution(type[o], r[o]))'
  BY <1>1, <1>9 DEF Resolution
<1>11. Together(o)'
  BY <1>1, <1>4, <1>5, <1>9 DEF Together
<1>12. QED
  BY <1>6, <1>7, <1>8, <1>10, <1>11, Elsewhere DEF InvOf

LEMMA UpgradeKeeps ==
    ASSUME SyncInv, Upgrade
    PROVE  SyncInv'
<1>1. /\ UNCHANGED <<world, type, spec, status, mq, r, probeObject, displayProbeCache, disturbed>>
      /\ upgraded' = TRUE /\ shows' \subseteq CandidateSet
  BY DEF Upgrade, Interfere, SyncInv, Frame
<1>2. Frame' /\ CacheIsRight'
  BY <1>1 DEF SyncInv, Frame, CacheIsRight
<1>3. ASSUME NEW o \in Objects PROVE Progress(type[o], r[o])' /\ Together(o)'
  BY <1>1 DEF SyncInv, Together
<1>4. QED
  BY <1>1, <1>2, <1>3 DEF SyncInv

\* A step that leaves all but the probe queue alone.
LEMMA ProbeObjectKeeps ==
    ASSUME SyncInv, probeObject' \in BOOLEAN,
           UNCHANGED <<world, type, spec, status, mq, r, shows, displayProbeCache, disturbed,
                       upgraded>>
    PROVE  SyncInv'
<1>1. Frame' /\ CacheIsRight'
  BY DEF SyncInv, Frame, CacheIsRight
<1>2. ASSUME NEW o \in Objects
      PROVE  Progress(type[o], r[o])' /\ Together(o)' /\ (~upgraded => Resolution(type[o], r[o]))'
  BY DEF SyncInv, Together, Resolution
<1>3. QED
  BY <1>1, <1>2 DEF SyncInv

-----------------------------------------------------------------------------
(***************************************************************************)
(* The invariant and what follows from it                                  *)
(***************************************************************************)

LEMMA SyncInit ==
    ASSUME Init
    PROVE  SyncInv
<1>1. \A o \in Objects : /\ mq[o] = NoObject /\ status[o] = "none" /\ ~disturbed[o]
                         /\ r[o] \in {Idle, Absent}
  BY DEF Init, InitAlone, InitShared
<1>2. /\ DOMAIN type = Objects /\ DOMAIN spec = Objects /\ DOMAIN status = Objects
      /\ DOMAIN mq = Objects /\ DOMAIN r = Objects /\ DOMAIN disturbed = Objects
  BY DEF Init, InitAlone, InitShared
<1>3. /\ world \in {"alone", "shared"} /\ shows \subseteq CandidateSet
      /\ probeObject \in BOOLEAN /\ upgraded \in BOOLEAN
      /\ DOMAIN displayProbeCache = {}
  <2>1. world \in {"alone", "shared"} /\ shows \subseteq CandidateSet
    BY DEF Init, InitAlone, InitShared
  <2>2. probeObject \in BOOLEAN /\ upgraded \in BOOLEAN
    BY Zenon DEF Init
  <2>3. DOMAIN displayProbeCache = {}
    BY SMTT(30) DEF Init
  <2>4. QED
    BY <2>1, <2>2, <2>3
<1>4. ASSUME NEW o \in Objects
      PROVE  /\ type[o] \in ObjectTypes /\ (world = "shared" => type[o] = "local")
             /\ IsSpec(type[o], spec[o])
  <2>1. CASE InitAlone
    BY <2>1, SpecsAssumption DEF InitAlone
  <2>2. CASE InitShared
    BY <2>2, SpecsAssumption DEF InitShared, ObjectTypes, QueueTypes
  <2>3. QED
    BY <2>1, <2>2 DEF Init
<1>5. Frame /\ CacheIsRight
  BY <1>1, <1>2, <1>3, <1>4 DEF Frame, CacheIsRight
<1>6. ASSUME NEW o \in Objects
      PROVE  Progress(type[o], r[o]) /\ Resolution(type[o], r[o]) /\ Together(o)
  <2>1. /\ Progress(type[o], r[o]) /\ ~HasAnswer(r[o]) /\ ~Active(r[o]) /\ r[o].extra = {}
        /\ r[o].pc \in {"idle", "absent"}
    BY <1>1, IdleFits DEF Active
  <2>2. Resolution(type[o], r[o])
    BY <2>1 DEF Resolution
  <2>3. ~mq[o].exists /\ status[o] # "Synced"
    BY <1>1, SMTT(30) DEF NoObject
  <2>4. Together(o)
    BY <2>1, <2>3 DEF Together
  <2>5. QED
    BY <2>1, <2>2, <2>4
<1>7. QED
  BY <1>5, <1>6 DEF SyncInv

LEMMA SyncNext ==
    ASSUME SyncInv, [Next]_vars
    PROVE  SyncInv'
<1>1. ASSUME NEW o \in Objects, Worker(o) PROVE SyncInv'
  BY <1>1, BeginKeeps, CachedKeeps, ProbeKeeps, StoreKeeps, GetKeeps, CompareKeeps, DefineKeeps
     DEF Worker
<1>2. ASSUME NEW o \in Objects, CommandFails(o) \/ EditSpec(o) \/ OutOfBand(o) PROVE SyncInv'
  BY <1>2, FailKeeps, EditKeeps, OutOfBandKeeps
<1>3. CASE Upgrade
  BY <1>3, UpgradeKeeps
<1>4. CASE ProbeObjectChange
  BY <1>4, ProbeObjectKeeps DEF ProbeObjectChange
<1>5. CASE UNCHANGED vars
  <2>1. probeObject \in BOOLEAN
    BY DEF SyncInv, Frame
  <2>2. QED
    BY <1>5, <2>1, ProbeObjectKeeps DEF vars
<1>6. QED
  BY <1>1, <1>2, <1>3, <1>4, <1>5 DEF Next

\* Every behaviour of the reconciles of Queue, Topic and Channel resources and
\* of the world around them keeps the inductive invariant.
THEOREM SyncInvariant == Spec => []SyncInv
  BY SyncInit, SyncNext, PTL DEF Spec

\* The state of every reconcile is well formed: the texts that toMQSpec collects
\* and DEFINE stores are texts, and what GetQueue resolved are candidates.
THEOREM SyncTypes == Spec => []TypeOK
<1>1. SyncInv => TypeOK
  <2>1. SUFFICES ASSUME SyncInv PROVE TypeOK
    OBVIOUS
  <2>2. ASSUME NEW o \in Objects
        PROVE  mq[o].exists => \A a \in DOMAIN mq[o].stored : IsText(mq[o].stored[a])
    BY <2>1 DEF SyncInv, Together, AllCanonical, Canonical
  <2>3. QED
    BY <2>1, <2>2 DEF SyncInv, Frame, Progress, IsSpec, TypeOK
<1>2. QED
  BY <1>1, SyncInvariant, PTL

\* Users and their edits leave every resource with a spec that its CRD admits,
\* which is what Fold*AttributesToTyped may count on.
THEOREM WellFormedSpecs == Spec => []WellFormed
<1>1. SyncInv => WellFormed
  BY Zenon DEF SyncInv, Frame, WellFormed
<1>2. QED
  BY <1>1, SyncInvariant, PTL

\* GetQueue and DriftCheckKeys resolve the displayable attributes one after the
\* other and share the probe cache with all other reconciles; still the
\* comparison never looks at an attribute the DISPLAY was not asked for.
THEOREM ComparedDisplayed == Spec => []ComparedWereDisplayed
<1>1. SyncInv => ComparedWereDisplayed
  <2>1. SUFFICES ASSUME SyncInv, NEW o \in Objects, r[o].call = "drift", ~upgraded, ~r[o].missed
                 PROVE  driftKeys(o) \subseteq r[o].asked
    BY DEF ComparedWereDisplayed
  <2>2. HasAnswer(r[o]) /\ Progress(type[o], r[o]) /\ Resolution(type[o], r[o])
    BY <2>1 DEF SyncInv, HasAnswer
  <2>3. DriftCheckKeys(type[o]) \subseteq r[o].asked
    BY <2>1, <2>2 DEF SyncInv, Together, Answered
  <2>4. CASE type[o] = "local"
    BY <2>2, <2>3, <2>4 DEF Resolution, driftKeys
  <2>5. CASE type[o] # "local"
    BY <2>2, <2>3, <2>5 DEF Progress, driftKeys
  <2>6. QED
    BY <2>4, <2>5
<1>2. QED
  BY <1>1, SyncInvariant, PTL

\* Admission warns that a key "is ignored for drift detection": AttributeDrifts
\* never compares such a key, whichever candidates the probes found.
THEOREM WarnedIgnored == Spec => []WarnedIsIgnored
<1>1. SyncInv => WarnedIsIgnored
  <2>1. SUFFICES ASSUME SyncInv, NEW o \in Objects,
                        NEW w \in unknownAttributeWarnings(type[o], spec[o].attributes)
                 PROVE  NormalizeAttrKey(w) \notin driftCheckKeySet(driftKeys(o))
    BY DEF WarnedIsIgnored
  <2>2. type[o] \in ObjectTypes /\ Progress(type[o], r[o])
    BY <2>1 DEF SyncInv, Frame
  <2>3. ExtraOf(type[o], r[o].extra) /\ driftKeys(o) = CheckKeys(type[o], r[o].extra)
    BY <2>2, CandidatesFit DEF Progress, ExtraOf, driftKeys, CheckKeys
  <2>4. \A a \in driftCheckKeySet(driftKeys(o)) : a \in knownAttrs(type[o])
    BY <2>2, <2>3, CheckedNames
  <2>5. NormalizeAttrKey(w) \notin knownAttrs(type[o])
    BY <2>1 DEF unknownAttributeWarnings
  <2>6. QED
    BY <2>4, <2>5
<1>2. QED
  BY <1>1, SyncInvariant, PTL

\* Synced=True means that the queue manager has what the spec asks for: both when
\* a DEFINE succeeded and when AttributesNeedUpdate found nothing to do, for every
\* spelling of the values and the names, until spec or object change.
THEOREM SyncedStored == Spec => []SyncedMeansStored
<1>1. SyncInv => SyncedMeansStored
  BY DEF SyncInv, Together, HasWanted, SyncedMeansStored
<1>2. QED
  BY <1>1, SyncInvariant, PTL

\* DEFINE ... REPLACE only when the object is missing or really differs, provided
\* the values are ones DISPLAY gives back recognisably, mqweb stays as it is and
\* the probes find their queue.
THEOREM DefineOnDrift == Spec => []DefineAnswersRealDrift
<1>1. SyncInv => DefineAnswersRealDrift
  <2>1. SUFFICES ASSUME SyncInv, NEW o \in Objects, r[o].pc = "define", ~upgraded, ~r[o].missed,
                        Recognisable(r[o].desired), r[o].was.exists
                 PROVE  \E a \in DOMAIN r[o].desired :
                            /\ MQSCKeyword(a) \in {MQSCKeyword(k) : k \in driftKeys(o)}
                            /\ ~Agrees(o, a)
    BY DEF DefineAnswersRealDrift, RealDrift
  <2> DEFINE d == r[o].desired
             x == r[o]
  <2>2. /\ Progress(type[o], x) /\ Resolution(type[o], x) /\ HasAnswer(x)
        /\ Answered(type[o], x) /\ type[o] \in ObjectTypes
    BY <2>1 DEF SyncInv, Frame, Together, Progress, HasAnswer
  <2>3. ExtraOf(type[o], x.extra) /\ driftKeys(o) = CheckKeys(type[o], x.extra)
    BY <2>2, CandidatesFit DEF Progress, ExtraOf, driftKeys, CheckKeys
  <2>4. driftKeys(o) \subseteq x.asked
    <3>1. type[o] = "local" => x.extra \subseteq x.asked
      BY <2>2 DEF Resolution
    <3>2. QED
      BY <2>2, <3>1 DEF Answered, Progress, driftKeys
  <2>5. PICK a \in DOMAIN d \cap driftCheckKeySet(driftKeys(o)) :
            ~AttributeValueMatches(a, d[a], At(x.seen.stored, a))
    <3>1. AttributesNeedUpdate(d, x.seen.stored, driftKeys(o))
      BY <2>1, <2>2, <2>3 DEF SyncInv, Together, Answered
    <3>2. QED
      BY <3>1 DEF AttributesNeedUpdate, AttributeDriftsForKeys
  <2> DEFINE v == ValueOf(x.was.stored, a)
  <2>6. At(x.seen.stored, a) = ShownText(a, v)
    <3>1. a \in driftCheckKeySet(x.asked)
      BY <2>4, <2>5 DEF driftCheckKeySet
    <3>2. QED
      BY <2>1, <2>2, <3>1 DEF Answered
  <2>7. /\ MQSCKeyword(a) = a
        /\ IF type[o] = "topic" /\ a = "topstr" THEN "topicstr" \in driftKeys(o)
                                               ELSE a \in driftKeys(o)
    BY <2>2, <2>3, <2>5, CheckedNames, SMTT(30)
  <2>8. MQSCKeyword(a) \in {MQSCKeyword(k) : k \in driftKeys(o)}
    <3>1. MQSCKeyword("topicstr") = "topstr"
      BY DEF MQSCKeyword
    <3>2. QED
      BY <2>7, <3>1
  <2>9. v # Meaning(a, d[a])
    <3>1. Canonical(a, v) /\ IsText(d[a])
      BY <2>1, <2>2, <2>5, ValueCanonical DEF Answered, Progress
    <3>2. /\ a \in NumberAttributes => /\ d[a].style \cap {"wide", "exp"} = {}
                                       /\ d[a].n < FirstWithExponent
          /\ a \in KeywordAttributes \ caseInsensitiveAttrKeys => "caps" \in d[a].style
      BY <2>1, <2>5 DEF Recognisable
    <3> HIDE DEF v, d
    <3>3. QED
      BY <2>5, <2>6, <3>1, <3>2, AgreeMatches
  <2>10. ~Agrees(o, a)
    BY <2>7, <2>9 DEF Agrees
  <2>11. QED
    BY <2>5, <2>8, <2>10
<1>2. QED
  BY <1>1, SyncInvariant, PTL
=============================================================================
