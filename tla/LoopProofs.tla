----------------------------- MODULE LoopProofs -----------------------------
(***************************************************************************)
(* Proofs about CircuitBreaker, for any number of requests, any threshold  *)
(* and any number of attempts, and about AttributeFold, for any specs.     *)
(* The doubling of the back-off and the loop over a map of attributes are  *)
(* recursive functions, and both proofs go by induction over the numbers.  *)
(***************************************************************************)
EXTENDS CircuitBreaker, AttributeFold, FiniteSetTheorems, WellFoundedInduction,
        NaturalsInduction, TLAPS

(***************************************************************************)
(* Induction over the numbers                                              *)
(***************************************************************************)

\* A nonempty set of numbers has a least member.
LEMMA LeastNumber ==
    ASSUME NEW S, S \subseteq Nat, S # {}
    PROVE  \E n \in S : \A m \in S : n <= m
<1> DEFINE R == OpToRel(<, Nat)
<1>1. IsWellFoundedOn(R, Nat)
  BY NatLessThanWellFounded
<1>2. \A x, y \in Nat : <<x, y>> \in R <=> x < y
  BY DEF OpToRel
<1> HIDE DEF R
<1>3. PICK x \in S : \A y \in S : ~(<<y, x>> \in R)
  BY <1>1, WFMin, Zenon
<1>4. \A m \in S : ~(m < x)
  BY <1>2, <1>3, Zenon
<1>5. QED
  BY <1>4

\* Induction over the numbers, for the set of those that have the property.
LEMMA SetInduction ==
    ASSUME NEW S, 0 \in S, \A n \in Nat : n \in S => n + 1 \in S
    PROVE  Nat \subseteq S
<1> SUFFICES ASSUME Nat \ S # {} PROVE FALSE
  OBVIOUS
<1>1. PICK n \in Nat \ S : \A m \in Nat \ S : n <= m
  BY LeastNumber, Zenon
<1>2. n - 1 \in Nat /\ n - 1 \in S
  BY <1>1
<1>3. QED
  BY <1>1, <1>2

-----------------------------------------------------------------------------
(***************************************************************************)
(* Folding promoted keys into typed fields                                 *)
(***************************************************************************)

LEMMA EmptyText ==
    /\ Empty.word = "" /\ Empty.style = {} /\ Empty.n = 0
    /\ IsText(Empty)
<1>1. Empty = [word |-> "", n |-> 0, style |-> {}]
  BY DEF Empty, Word
<1>2. QED
  BY <1>1 DEF IsText

LEMMA ItoaPlain ==
    ASSUME NEW t, IsText(t)
    PROVE  /\ Itoa(TrimSpace(t)) = Itoa(t)
           /\ t.style = {} => Itoa(t) = t
           /\ t.style \cap {"exp", "wide"} = {} => Itoa(t).style = {}
           /\ Itoa(t).word = t.word /\ Itoa(t).n = t.n
           /\ Itoa(Itoa(t)) = Itoa(t)
<1>1. Itoa(TrimSpace(t)) = Itoa(t)
  BY Zenon DEF IsText, Itoa, TrimSpace
<1>2. /\ Itoa(t).word = t.word /\ Itoa(t).n = t.n /\ Itoa(t).style = t.style \cap {"wide"}
      /\ IsText(Itoa(t))
  BY DEF IsText, Itoa
<1>3. Itoa(Itoa(t)) = Itoa(t)
  <2> DEFINE i == Itoa(t)
  <2>1. i.style \cap {"wide"} = i.style
    BY <1>2
  <2> HIDE DEF i
  <2>2. [i EXCEPT !.style = @ \cap {"wide"}] = i
    BY <1>2, <2>1 DEF i, IsText
  <2>3. QED
    BY <2>2 DEF i, Itoa
<1>4. t.style = {} => Itoa(t) = t
  BY DEF IsText, Itoa
<1>5. QED
  BY <1>1, <1>2, <1>3, <1>4

\* What a fold puts into field f for the value v, and whether it can.
Taken(f, v) == IF f \in IntFields THEN Itoa(v) ELSE v

CanTake(folds, norm, s, k, f) ==
    norm[k] \in folds[f] /\ (f \in IntFields => ParseInt32(s.attributes[k]))

\* What the loop over the map has made of s when it has visited some keys.
LeftBy(folds, norm, s, visited, x) ==
    /\ DOMAIN x.attributes \subseteq DOMAIN s.attributes
    /\ DOMAIN s.attributes \ visited \subseteq DOMAIN x.attributes
    /\ \A k \in DOMAIN x.attributes : x.attributes[k] = s.attributes[k]
    /\ \A f \in DOMAIN folds :
          \/ x.typed[f] = s.typed[f]
          \/ \E k \in visited : /\ CanTake(folds, norm, s, k, f)
                                /\ x.typed[f] = Taken(f, s.attributes[k])
    /\ \A k \in visited \ DOMAIN x.attributes :
          \E f \in DOMAIN folds : norm[k] \in folds[f] /\ x.typed[f] # Empty
    /\ \A k \in visited, f \in DOMAIN folds :
          CanTake(folds, norm, s, k, f) => k \notin DOMAIN x.attributes /\ x.typed[f] # Empty

LEMMA TakenNotEmpty ==
    ASSUME NEW f, NEW v, v # Empty, f \in IntFields => ParseInt32(v), IsText(v)
    PROVE  Taken(f, v) # Empty
  BY ItoaPlain, EmptyText DEF Taken, ParseInt32, Atoi, IsNumber

LEMMA FoldStep ==
    ASSUME NEW folds, NEW norm, NEW s, NEW visited, visited \subseteq DOMAIN s.attributes,
           NEW x, LeftBy(folds, norm, s, visited, x),
           \A l \in DOMAIN s.attributes : s.attributes[l] # Empty /\ IsText(s.attributes[l]),
           NEW k \in DOMAIN s.attributes \ visited
    PROVE  LeftBy(folds, norm, s, visited \cup {k}, FoldKey(folds, norm, x, k))
<1> DEFINE v == s.attributes[k]
           hits == {f \in DOMAIN folds : norm[k] \in folds[f]}
           typed == [f \in DOMAIN folds |->
                        IF f \in hits /\ Applies(x.typed, f, v) THEN Taken(f, v) ELSE x.typed[f]]
           gone == \E f \in hits : Applies(x.typed, f, v) \/ typedFieldSet(typed, f)
           attrs == IF gone THEN Without(x.attributes, k) ELSE x.attributes
           y == FoldKey(folds, norm, x, k)
<1>1. k \in DOMAIN x.attributes /\ x.attributes[k] = v
  BY DEF LeftBy
<1>2. y = [typed |-> typed, attributes |-> attrs]
  BY <1>1 DEF FoldKey, Taken
<1>3. y.typed = typed /\ y.attributes = attrs
  BY <1>2
<1>4. \A f \in DOMAIN folds :
        /\ f \in hits <=> norm[k] \in folds[f]
        /\ f \in hits /\ Applies(x.typed, f, v) => typed[f] = Taken(f, v) /\ typed[f] # Empty
        /\ ~(f \in hits /\ Applies(x.typed, f, v)) => typed[f] = x.typed[f]
        /\ x.typed[f] # Empty => typed[f] = x.typed[f]
  <2>1. v # Empty /\ IsText(v)
    OBVIOUS
  <2> HIDE DEF v
  <2>2. QED
    BY <2>1, TakenNotEmpty DEF Applies
<1>5. \A f \in hits : CanTake(folds, norm, s, k, f) => gone /\ typed[f] # Empty
  BY <1>4 DEF CanTake, Applies, typedFieldSet
<1>6. gone => \E f \in hits : typed[f] # Empty
  BY <1>4 DEF typedFieldSet
<1>7. \A f \in hits : Applies(x.typed, f, v) => CanTake(folds, norm, s, k, f)
  BY DEF Applies, CanTake
<1>8. hits \subseteq DOMAIN folds
  OBVIOUS
<1> HIDE DEF typed, hits, gone
<1>9. /\ gone => DOMAIN attrs = DOMAIN x.attributes \ {k}
      /\ ~gone => attrs = x.attributes
      /\ \A l \in DOMAIN attrs : attrs[l] = x.attributes[l]
  BY DEF Without
<1> HIDE DEF attrs, v, y
<1>10. /\ DOMAIN attrs \subseteq DOMAIN s.attributes
       /\ DOMAIN s.attributes \ (visited \cup {k}) \subseteq DOMAIN attrs
       /\ \A l \in DOMAIN attrs : attrs[l] = s.attributes[l]
  BY <1>9 DEF LeftBy
<1>11. \A f \in DOMAIN folds :
          \/ typed[f] = s.typed[f]
          \/ \E l \in visited \cup {k} : /\ CanTake(folds, norm, s, l, f)
                                         /\ typed[f] = Taken(f, s.attributes[l])
  <2> SUFFICES ASSUME NEW f \in DOMAIN folds
               PROVE  \/ typed[f] = s.typed[f]
                      \/ \E l \in visited \cup {k} : /\ CanTake(folds, norm, s, l, f)
                                                     /\ typed[f] = Taken(f, s.attributes[l])
    OBVIOUS
  <2>1. CASE f \in hits /\ Applies(x.typed, f, v)
    BY <1>4, <1>7, <2>1 DEF v
  <2>2. CASE ~(f \in hits /\ Applies(x.typed, f, v))
    BY <1>4, <2>2 DEF LeftBy
  <2>3. QED
    BY <2>1, <2>2
<1>12. ASSUME NEW l \in (visited \cup {k}) \ DOMAIN attrs
       PROVE  \E f \in DOMAIN folds : norm[l] \in folds[f] /\ typed[f] # Empty
  <2>1. CASE l = k
    BY <1>1, <1>4, <1>6, <1>8, <1>9, <1>12, <2>1
  <2>2. CASE l # k
    <3>1. l \in visited \ DOMAIN x.attributes
      BY <1>9, <1>12, <2>2
    <3>2. PICK f \in DOMAIN folds : norm[l] \in folds[f] /\ x.typed[f] # Empty
      BY <3>1 DEF LeftBy
    <3>3. QED
      BY <1>4, <3>2
  <2>3. QED
    BY <2>1, <2>2
<1>13. ASSUME NEW l \in visited \cup {k}, NEW f \in DOMAIN folds, CanTake(folds, norm, s, l, f)
       PROVE  l \notin DOMAIN attrs /\ typed[f] # Empty
  <2>1. CASE l = k
    BY <1>4, <1>5, <1>9, <1>13, <2>1 DEF CanTake
  <2>2. CASE l \in visited
    BY <1>4, <1>9, <1>13, <2>2 DEF LeftBy
  <2>3. QED
    BY <2>1, <2>2
<1>14. QED
  BY <1>3, <1>10, <1>11, <1>12, <1>13 DEF LeftBy, y

\* The loop, as the function that its definition chooses.
Loop(folds, norm, s, order, n, d) ==
    [i \in 0 .. n |-> IF i = 0 THEN s ELSE FoldKey(folds, norm, d[i - 1], order[i])]

LEMMA LoopExists ==
    ASSUME NEW folds, NEW norm, NEW s, NEW order
    PROVE  \A n \in Nat : \E d : d = Loop(folds, norm, s, order, n, d)
<1> DEFINE S == {n \in Nat : \E d : d = Loop(folds, norm, s, order, n, d)}
<1>1. 0 \in S
  <2> DEFINE d == [i \in 0 .. 0 |-> s]
  <2>1. d = Loop(folds, norm, s, order, 0, d)
    BY DEF Loop
  <2> HIDE DEF d
  <2>2. QED
    BY <2>1
<1>2. ASSUME NEW n \in Nat, n \in S PROVE n + 1 \in S
  <2>1. PICK d : d = Loop(folds, norm, s, order, n, d)
    BY <1>2
  <2> DEFINE next == FoldKey(folds, norm, d[n], order[n + 1])
             e == [i \in 0 .. n + 1 |-> IF i <= n THEN d[i] ELSE next]
  <2>2. \A i \in 0 .. n : d[i] = IF i = 0 THEN s ELSE FoldKey(folds, norm, d[i - 1], order[i])
    BY <2>1 DEF Loop
  <2>3. ASSUME NEW i \in 0 .. n + 1
        PROVE  e[i] = IF i = 0 THEN s ELSE FoldKey(folds, norm, e[i - 1], order[i])
    <3>1. CASE i = n + 1
      BY <3>1
    <3>2. CASE i \in 0 .. n
      BY <2>2, <3>2
    <3>3. QED
      BY <3>1, <3>2
  <2>4. e = Loop(folds, norm, s, order, n + 1, e)
    BY <2>3 DEF Loop
  <2> HIDE DEF e
  <2>5. QED
    BY <2>4
<1>3. QED
  <2> HIDE DEF S
  <2>1. Nat \subseteq S
    BY <1>1, <1>2, SetInduction
  <2>2. QED
    BY <2>1 DEF S

\* Whatever the order, the loop has done so with the keys it has visited.
LEMMA FoldReaches ==
    ASSUME NEW folds, NEW norm, NEW s, NEW n \in Nat,
           NEW order \in [1 .. n -> DOMAIN s.attributes],
           \A i, j \in 1 .. n : order[i] = order[j] => i = j,
           \A l \in DOMAIN s.attributes : s.attributes[l] # Empty /\ IsText(s.attributes[l])
    PROVE  LeftBy(folds, norm, s, {order[i] : i \in 1 .. n}, FoldFirst(folds, norm, s, order, n))
<1> DEFINE after == CHOOSE d : d = Loop(folds, norm, s, order, n, d)
           first(i) == {order[j] : j \in 1 .. i}
           reached(i) == i <= n => LeftBy(folds, norm, s, first(i), after[i])
           S == {i \in Nat : reached(i)}
<1>1. FoldFirst(folds, norm, s, order, n) = after[n]
  BY DEF FoldFirst, Loop
<1>2. after = Loop(folds, norm, s, order, n, after)
  BY LoopExists
<1> HIDE DEF after
<1>3. /\ after[0] = s
      /\ \A i \in 1 .. n : after[i] = FoldKey(folds, norm, after[i - 1], order[i])
  BY <1>2 DEF Loop
<1>4. reached(0)
  <2>1. first(0) = {}
    OBVIOUS
  <2>2. LeftBy(folds, norm, s, {}, s)
    BY DEF LeftBy
  <2>3. QED
    BY <1>3, <2>1, <2>2, Zenon
<1>5. ASSUME NEW i \in Nat, reached(i) PROVE reached(i + 1)
  <2> SUFFICES ASSUME i + 1 <= n
               PROVE  LeftBy(folds, norm, s, first(i + 1), after[i + 1])
    BY <1>5
  <2>1. LeftBy(folds, norm, s, first(i), after[i])
    <3>1. i <= n
      OBVIOUS
    <3>2. QED
      BY <1>5, <3>1, Zenon
  <2>2. i + 1 \in 1 .. n /\ (i + 1) - 1 = i
    OBVIOUS
  <2>3. first(i + 1) = first(i) \cup {order[i + 1]}
    <3>1. 1 .. i + 1 = (1 .. i) \cup {i + 1}
      OBVIOUS
    <3>2. QED
      BY <3>1
  <2>4. first(i) \subseteq DOMAIN s.attributes /\ order[i + 1] \in DOMAIN s.attributes \ first(i)
    BY <2>2
  <2>5. after[i + 1] = FoldKey(folds, norm, after[i], order[i + 1])
    BY <1>3, <2>2
  <2> HIDE DEF first
  <2>6. LeftBy(folds, norm, s, first(i) \cup {order[i + 1]},
               FoldKey(folds, norm, after[i], order[i + 1]))
    BY <2>1, <2>4, FoldStep, Zenon
  <2>7. QED
    BY <2>3, <2>5, <2>6, Zenon
<1>6. reached(n)
  <2> HIDE DEF reached
  <2>1. 0 \in S /\ \A i \in Nat : i \in S => i + 1 \in S
    BY <1>4, <1>5
  <2>2. n \in S
    <3> HIDE DEF S
    <3>1. QED
      BY <2>1, SetInduction
  <2>3. QED
    BY <2>2
<1>7. LeftBy(folds, norm, s, first(n), after[n])
  <2>1. n <= n
    OBVIOUS
  <2>2. QED
    BY <1>6, <2>1, Zenon
<1>8. QED
  BY <1>1, <1>7, Zenon

LEMMA FoldedLeaves ==
    ASSUME NEW folds, NEW norm, NEW s, IsFiniteSet(DOMAIN s.attributes),
           \A l \in DOMAIN s.attributes : s.attributes[l] # Empty /\ IsText(s.attributes[l]),
           NEW x \in FoldInAnyOrder(folds, norm, s)
    PROVE  LeftBy(folds, norm, s, DOMAIN s.attributes, x)
<1> DEFINE keys == DOMAIN s.attributes
           size == Cardinality(keys)
<1>1. PICK order \in Bijection(1 .. size, keys) : x = FoldFirst(folds, norm, s, order, size)
  BY DEF FoldInAnyOrder
<1>2. size \in Nat
  BY FS_CardinalityType
<1> HIDE DEF size, keys
<1>3. /\ order \in [1 .. size -> keys]
      /\ \A i, j \in 1 .. size : order[i] = order[j] => i = j
      /\ \A k \in keys : \E i \in 1 .. size : order[i] = k
  BY DEF Bijection, Injection, Surjection, IsInjective
<1>4. {order[i] : i \in 1 .. size} = keys
  BY <1>3
<1>5. LeftBy(folds, norm, s, {order[i] : i \in 1 .. size}, x)
  BY <1>1, <1>2, <1>3, FoldReaches, Zenon DEF keys
<1>6. QED
  BY <1>4, <1>5, Zenon DEF keys

\* What the object gets for keyword a when the spec says v.
Said(t, a, v) ==
    Meaning(a, IF t \in QueueTypes
               THEN IF a \in queueNumericParameters /\ Atoi(v) THEN Itoa(v) ELSE v
               ELSE IF t = "topic"
               THEN IF a \in {"pub", "sub"} THEN ToUpper(v) ELSE v
               ELSE IF a \in channelNumericParameters /\ Atoi(v) THEN Itoa(v) ELSE v)

\* The spec gives the value v for keyword a, in a field or under a key.
Gives(t, s, a, v) ==
    \/ a \in Fields(t) /\ s.typed[a] # Empty /\ v = s.typed[a]
    \/ \E k \in DOMAIN s.attributes : MQSCKeyword(k.name) = a /\ v = s.attributes[k]

\* An object of such keywords and values.
Made(t, s, stored) ==
    /\ \A a : (\E v : Gives(t, s, a, v)) => a \in DOMAIN stored
    /\ \A a \in DOMAIN stored : \E v : Gives(t, s, a, v) /\ stored[a] = Said(t, a, v)

LEMMA NamesAndKeywords ==
    /\ \A k : MQSCKeyword(NormalizeAttrKey(k)) = MQSCKeyword(k.name)
    /\ \A k : NormalizeAttrKey(k) # "topicstr"
    /\ \A t, f : f \in Fields(t) => MQSCKeyword(f) = f /\ f # "topicstr"
    /\ \A a : a \in queueNumericParameters \cup channelNumericParameters \cup {"pub", "sub"}
                \/ MQSCKeyword(a) \in queueNumericParameters \cup channelNumericParameters
                                      \cup {"pub", "sub"}
              => MQSCKeyword(a) = a
<1>1. \A k : MQSCKeyword(NormalizeAttrKey(k)) = MQSCKeyword(k.name)
  BY DEF MQSCKeyword, NormalizeAttrKey
<1>2. \A k : NormalizeAttrKey(k) # "topicstr"
  BY DEF NormalizeAttrKey
<1>3. \A t, f : f \in Fields(t) => MQSCKeyword(f) = f /\ f # "topicstr"
  BY DEF MQSCKeyword, Fields, QueueFields, TopicFields, ChannelFields
<1>4. \A a : a \in queueNumericParameters \cup channelNumericParameters \cup {"pub", "sub"}
                \/ MQSCKeyword(a) \in queueNumericParameters \cup channelNumericParameters
                                      \cup {"pub", "sub"}
              => MQSCKeyword(a) = a
  BY DEF MQSCKeyword, queueNumericParameters, channelNumericParameters
<1>5. QED
  BY <1>1, <1>2, <1>3, <1>4

\* A parameter of the DEFINE stands for an attribute, and each attribute has one.
LEMMA ParameterSays ==
    ASSUME NEW t, NEW attrs, "topicstr" \notin DOMAIN attrs
    PROVE  LET p == DefineParameters(t, attrs)
           IN  /\ \A b \in DOMAIN p : \E a \in DOMAIN attrs :
                     /\ MQSCKeyword(a) = MQSCKeyword(b)
                     /\ Meaning(MQSCKeyword(a), p[b].text) = Said(t, MQSCKeyword(a), attrs[a])
               /\ \A a \in DOMAIN attrs : \E b \in DOMAIN p : MQSCKeyword(b) = MQSCKeyword(a)
<1> DEFINE p == DefineParameters(t, attrs)
<1>1. CASE t \in QueueTypes
  <2>1. p = defineObjectParameters(attrs, queueNumericParameters)
    BY <1>1 DEF DefineParameters, defineQueueParameters
  <2>2. DOMAIN p = DOMAIN attrs
    BY <2>1 DEF defineObjectParameters
  <2>3. \A a \in DOMAIN attrs :
          p[a].text = IF a \in queueNumericParameters /\ Atoi(attrs[a])
                      THEN Itoa(attrs[a]) ELSE attrs[a]
    BY <2>1 DEF defineObjectParameters
  <2>4. \A a : a \in queueNumericParameters <=> MQSCKeyword(a) \in queueNumericParameters
    BY NamesAndKeywords
  <2> HIDE DEF p
  <2>5. \A a \in DOMAIN attrs :
          Meaning(MQSCKeyword(a), p[a].text) = Said(t, MQSCKeyword(a), attrs[a])
    BY <1>1, <2>3, <2>4 DEF Said
  <2>6. QED
    BY <2>2, <2>5 DEF p
<1>2. CASE t \notin QueueTypes /\ t # "topic"
  <2>1. p = defineObjectParameters(attrs, channelNumericParameters)
    BY <1>2 DEF DefineParameters, defineChannelParameters
  <2>2. DOMAIN p = DOMAIN attrs
    BY <2>1 DEF defineObjectParameters
  <2>3. \A a \in DOMAIN attrs :
          p[a].text = IF a \in channelNumericParameters /\ Atoi(attrs[a])
                      THEN Itoa(attrs[a]) ELSE attrs[a]
    BY <2>1 DEF defineObjectParameters
  <2>4. \A a : a \in channelNumericParameters <=> MQSCKeyword(a) \in channelNumericParameters
    BY NamesAndKeywords
  <2> HIDE DEF p
  <2>5. \A a \in DOMAIN attrs :
          Meaning(MQSCKeyword(a), p[a].text) = Said(t, MQSCKeyword(a), attrs[a])
    BY <1>2, <2>3, <2>4 DEF Said
  <2>6. QED
    BY <2>2, <2>5 DEF p
<1>3. CASE t \notin QueueTypes /\ t = "topic"
  <2> DEFINE q == defineObjectParameters(attrs, {})
             upper == [a \in DOMAIN q |->
                          IF a \in {"pub", "sub"}
                          THEN [json |-> "string", text |-> ToUpper(q[a].text)] ELSE q[a]]
  <2>1. DOMAIN q = DOMAIN attrs /\ \A a \in DOMAIN attrs : q[a].text = attrs[a]
    BY DEF defineObjectParameters
  <2>2. p = IF "topstr" \in DOMAIN q
            THEN Without(With(upper, "topicstr", upper["topstr"]), "topstr") ELSE upper
    BY <1>3 DEF DefineParameters, defineTopicParameters, mapTopicRESTParameters
  <2> HIDE DEF q
  <2>3. /\ DOMAIN upper = DOMAIN attrs
        /\ \A a \in DOMAIN attrs :
              upper[a].text = IF a \in {"pub", "sub"} THEN ToUpper(attrs[a]) ELSE attrs[a]
    BY <2>1
  <2>4. \A a : a \in {"pub", "sub"} <=> MQSCKeyword(a) \in {"pub", "sub"}
    BY NamesAndKeywords
  <2> HIDE DEF p, upper
  <2>5. \A a \in DOMAIN attrs :
          Meaning(MQSCKeyword(a), upper[a].text) = Said(t, MQSCKeyword(a), attrs[a])
    BY <1>3, <2>3, <2>4 DEF Said
  <2>6. CASE "topstr" \notin DOMAIN attrs
    BY <2>1, <2>2, <2>3, <2>5, <2>6 DEF p
  <2>7. CASE "topstr" \in DOMAIN attrs
    <3>1. p = Without(With(upper, "topicstr", upper["topstr"]), "topstr")
      BY <2>1, <2>2, <2>7
    <3>2. /\ DOMAIN p = (DOMAIN attrs \cup {"topicstr"}) \ {"topstr"}
          /\ \A b \in DOMAIN p : p[b] = IF b = "topicstr" THEN upper["topstr"] ELSE upper[b]
      BY <2>3, <3>1 DEF With, Without
    <3>3. MQSCKeyword("topstr") = MQSCKeyword("topicstr")
      BY DEF MQSCKeyword
    <3>4. ASSUME NEW b \in DOMAIN p
          PROVE  \E a \in DOMAIN attrs :
                    /\ MQSCKeyword(a) = MQSCKeyword(b)
                    /\ Meaning(MQSCKeyword(a), p[b].text) = Said(t, MQSCKeyword(a), attrs[a])
      <4>1. CASE b = "topicstr"
        BY <2>5, <2>7, <3>2, <3>3, <4>1
      <4>2. CASE b # "topicstr"
        BY <2>5, <3>2, <4>2
      <4>3. QED
        BY <4>1, <4>2
    <3>5. ASSUME NEW a \in DOMAIN attrs
          PROVE  \E b \in DOMAIN p : MQSCKeyword(b) = MQSCKeyword(a)
      <4>1. CASE a = "topstr"
        BY <3>2, <3>3, <4>1
      <4>2. CASE a # "topstr"
        BY <3>2, <4>2
      <4>3. QED
        BY <4>1, <4>2
    <3>6. QED
      BY <3>4, <3>5 DEF p
  <2>8. QED
    BY <2>6, <2>7
<1>4. QED
  BY <1>1, <1>2, <1>3

\* The attribute maps of a spec hold the values it gives.
LEMMA AttributesGive ==
    ASSUME NEW t, NEW s, NEW attrs \in toMQSpec(t, s)
    PROVE  /\ "topicstr" \notin DOMAIN attrs
           /\ \A a \in DOMAIN attrs : Gives(t, s, MQSCKeyword(a), attrs[a])
           /\ \A a, v : Gives(t, s, a, v) => \E b \in DOMAIN attrs : MQSCKeyword(b) = a
<1> DEFINE names == {NormalizeAttrKey(k) : k \in DOMAIN s.attributes}
           set   == {f \in Fields(t) : s.typed[f] # Empty}
<1>1. attrs \in SpecAttributes(s, Fields(t))
  BY DEF toMQSpec, toMQQueueSpec, toMQTopicSpec, toMQChannelSpec, Fields
<1>2. PICK c \in [names -> DOMAIN s.attributes] :
        /\ \A a \in names : NormalizeAttrKey(c[a]) = a
        /\ attrs = [a \in names \cup set |-> IF a \in set THEN s.typed[a] ELSE s.attributes[c[a]]]
  BY <1>1, Zenon DEF SpecAttributes
<1>3. "topicstr" \notin names /\ "topicstr" \notin set
  BY NamesAndKeywords
<1>4. \A a \in set : MQSCKeyword(a) = a /\ Gives(t, s, a, s.typed[a])
  BY NamesAndKeywords DEF Gives
<1>5. \A a \in names : Gives(t, s, MQSCKeyword(a), s.attributes[c[a]])
  BY <1>2, NamesAndKeywords DEF Gives
<1>6. \A a, v : Gives(t, s, a, v) => \E b \in names \cup set : MQSCKeyword(b) = a
  <2> SUFFICES ASSUME NEW a, NEW v, Gives(t, s, a, v)
               PROVE  \E b \in names \cup set : MQSCKeyword(b) = a
    OBVIOUS
  <2>1. CASE a \in set
    BY <1>4, <2>1
  <2>2. CASE a \notin set
    <3>1. PICK k \in DOMAIN s.attributes : MQSCKeyword(k.name) = a
      BY <2>2 DEF Gives
    <3>2. QED
      BY <3>1, NamesAndKeywords
  <2>3. QED
    BY <2>1, <2>2
<1> HIDE DEF names, set
<1>7. QED
  BY <1>2, <1>3, <1>4, <1>5, <1>6

\* An object defined from the spec is made of the values the spec gives.
LEMMA MeaningMade ==
    ASSUME NEW t, NEW s, NEW stored \in MeaningOf(t, s)
    PROVE  Made(t, s, stored) /\ stored = [a \in DOMAIN stored |-> stored[a]]
<1>1. PICK attrs \in toMQSpec(t, s) : stored \in StoredValues(DefineParameters(t, attrs))
  BY DEF MeaningOf
<1> DEFINE p == DefineParameters(t, attrs)
           keywords == {MQSCKeyword(b) : b \in DOMAIN p}
<1> HIDE DEF p
<1>2. PICK c \in [keywords -> DOMAIN p] :
        /\ \A a \in keywords : MQSCKeyword(c[a]) = a
        /\ stored = [a \in keywords |-> Meaning(a, p[c[a]].text)]
  BY <1>1, Zenon DEF StoredValues, p
<1>3. /\ \A b \in DOMAIN p : \E a \in DOMAIN attrs :
            /\ MQSCKeyword(a) = MQSCKeyword(b)
            /\ Meaning(MQSCKeyword(a), p[b].text) = Said(t, MQSCKeyword(a), attrs[a])
      /\ \A a \in DOMAIN attrs : \E b \in DOMAIN p : MQSCKeyword(b) = MQSCKeyword(a)
  BY AttributesGive, ParameterSays DEF p
<1>4. ASSUME NEW a, NEW v, Gives(t, s, a, v) PROVE a \in keywords
  <2>1. PICK b \in DOMAIN attrs : MQSCKeyword(b) = a
    BY <1>4, AttributesGive
  <2>2. PICK e \in DOMAIN p : MQSCKeyword(e) = a
    BY <1>3, <2>1
  <2>3. QED
    BY <2>2
<1>5. ASSUME NEW a \in keywords
      PROVE  \E v : Gives(t, s, a, v) /\ stored[a] = Said(t, a, v)
  <2>1. c[a] \in DOMAIN p /\ MQSCKeyword(c[a]) = a /\ stored[a] = Meaning(a, p[c[a]].text)
    BY <1>2
  <2>2. PICK b \in DOMAIN attrs :
          MQSCKeyword(b) = a /\ Meaning(a, p[c[a]].text) = Said(t, a, attrs[b])
    BY <1>3, <2>1
  <2>3. QED
    BY <2>1, <2>2, AttributesGive
<1> HIDE DEF keywords
<1>6. DOMAIN stored = keywords /\ stored = [a \in DOMAIN stored |-> stored[a]]
  BY <1>2
<1>7. QED
  BY <1>4, <1>5, <1>6 DEF Made

LEMMA MeaningExists ==
    ASSUME NEW t, NEW s
    PROVE  MeaningOf(t, s) # {}
<1> DEFINE names == {NormalizeAttrKey(k) : k \in DOMAIN s.attributes}
           set   == {f \in Fields(t) : s.typed[f] # Empty}
           c == [a \in names |-> CHOOSE k \in DOMAIN s.attributes : NormalizeAttrKey(k) = a]
           attrs == [a \in names \cup set |->
                        IF a \in set THEN s.typed[a] ELSE s.attributes[c[a]]]
           p == DefineParameters(t, attrs)
           keywords == {MQSCKeyword(b) : b \in DOMAIN p}
           d == [a \in keywords |-> CHOOSE b \in DOMAIN p : MQSCKeyword(b) = a]
           stored == [a \in keywords |-> Meaning(a, p[d[a]].text)]
<1>1. \A a \in names : c[a] \in DOMAIN s.attributes /\ NormalizeAttrKey(c[a]) = a
  OBVIOUS
<1>2. c \in [names -> DOMAIN s.attributes]
  BY <1>1
<1> HIDE DEF c
<1>3. attrs \in SpecAttributes(s, Fields(t))
  BY <1>1, <1>2, Zenon DEF SpecAttributes
<1> HIDE DEF attrs
<1>4. attrs \in toMQSpec(t, s)
  BY <1>3 DEF toMQSpec, toMQQueueSpec, toMQTopicSpec, toMQChannelSpec, Fields
<1> HIDE DEF p
<1>5. \A a \in keywords : d[a] \in DOMAIN p /\ MQSCKeyword(d[a]) = a
  OBVIOUS
<1>6. d \in [keywords -> DOMAIN p]
  BY <1>5
<1> HIDE DEF d
<1>7. stored \in StoredValues(p)
  BY <1>5, <1>6 DEF StoredValues
<1> HIDE DEF stored
<1>8. QED
  BY <1>4, <1>7 DEF MeaningOf, p

LEMMA OneGiven ==
    ASSUME NEW t, NEW s, Unambiguous(t, s), NEW a, NEW v, NEW w,
           Gives(t, s, a, v), Gives(t, s, a, w)
    PROVE  v = w
<1>1. CASE a \in Fields(t) /\ s.typed[a] # Empty
  BY <1>1 DEF Gives, Unambiguous
<1>2. CASE ~(a \in Fields(t) /\ s.typed[a] # Empty)
  BY <1>2 DEF Gives, Unambiguous
<1>3. QED
  BY <1>1, <1>2

\* Two specs that say the same make the same object, if the second is unambiguous.
LEMMA SameMeaning ==
    ASSUME NEW t, NEW x, NEW s, Unambiguous(t, s),
           \A a, v : Gives(t, x, a, v) =>
               \E w : Gives(t, s, a, w) /\ Said(t, a, v) = Said(t, a, w),
           \A a, w : Gives(t, s, a, w) => \E v : Gives(t, x, a, v)
    PROVE  MeaningOf(t, x) = MeaningOf(t, s)
<1>1. ASSUME NEW m \in MeaningOf(t, x), NEW k \in MeaningOf(t, s) PROVE m = k
  <2>1. Made(t, x, m) /\ m = [a \in DOMAIN m |-> m[a]]
    BY MeaningMade
  <2>2. Made(t, s, k) /\ k = [a \in DOMAIN k |-> k[a]]
    BY MeaningMade
  <2>3. DOMAIN m = DOMAIN k
    <3>1. ASSUME NEW a \in DOMAIN m PROVE a \in DOMAIN k
      BY <2>1, <2>2 DEF Made
    <3>2. ASSUME NEW a \in DOMAIN k PROVE a \in DOMAIN m
      BY <2>1, <2>2 DEF Made
    <3>3. QED
      BY <3>1, <3>2
  <2>4. ASSUME NEW a \in DOMAIN m PROVE m[a] = k[a]
    <3>1. PICK v : Gives(t, x, a, v) /\ m[a] = Said(t, a, v)
      BY <2>1 DEF Made
    <3>2. PICK w : Gives(t, s, a, w) /\ Said(t, a, v) = Said(t, a, w)
      BY <3>1
    <3>3. PICK u : Gives(t, s, a, u) /\ k[a] = Said(t, a, u)
      BY <2>2, <2>3 DEF Made
    <3>4. u = w
      BY <3>2, <3>3, OneGiven
    <3>5. QED
      BY <3>1, <3>2, <3>3, <3>4
  <2>5. QED
    BY <2>1, <2>2, <2>3, <2>4
<1>2. QED
  BY <1>1, MeaningExists

\* The folds of each type, and the form in which they look at a key.
FoldsOf(t) ==
    IF t \in QueueTypes THEN queueFolds ELSE IF t = "topic" THEN topicFolds ELSE channelFolds

NormOf(t, s) ==
    [k \in DOMAIN s.attributes |->
        IF t \notin QueueTypes /\ t = "topic" THEN normalizeTopicAttrKey(k) ELSE k.name]

LEMMA FoldedBy ==
    ASSUME NEW t, NEW s
    PROVE  Folded(t, s) = FoldInAnyOrder(FoldsOf(t), NormOf(t, s), s)
<1>1. CASE t \in QueueTypes
  BY <1>1 DEF Folded, FoldQueueAttributesToTyped, FoldsOf, NormOf
<1>2. CASE t \notin QueueTypes /\ t = "topic"
  BY <1>2 DEF Folded, FoldTopicAttributesToTyped, FoldsOf, NormOf
<1>3. CASE t \notin QueueTypes /\ t # "topic"
  BY <1>3 DEF Folded, FoldChannelAttributesToTyped, FoldsOf, NormOf
<1>4. QED
  BY <1>1, <1>2, <1>3

\* A key is folded into the field of its own keyword.
LEMMA FoldsKeyword ==
    ASSUME NEW t, NEW s, NEW k \in DOMAIN s.attributes, NEW f \in Fields(t),
           NormOf(t, s)[k] \in FoldsOf(t)[f]
    PROVE  MQSCKeyword(k.name) = f
<1>1. CASE t \in QueueTypes
  <2>1. f \in QueueFields /\ k.name \in queueFolds[f]
    BY <1>1 DEF NormOf, FoldsOf, Fields
  <2>2. \/ k.name = f
        \/ f = "targq" /\ k.name = "target"
        \/ f = "xmitq" /\ k.name = "transmissionqueue"
        \/ f = "rqmname" /\ k.name = "remotemanager"
    BY <2>1 DEF queueFolds
  <2>3. QED
    BY <2>2, NamesAndKeywords DEF MQSCKeyword
<1>2. CASE t \notin QueueTypes /\ t = "topic"
  <2>1. f \in TopicFields /\ normalizeTopicAttrKey(k) \in topicFolds[f]
    BY <1>2 DEF NormOf, FoldsOf, Fields
  <2>2. normalizeTopicAttrKey(k) = f
    BY <2>1 DEF topicFolds, normalizeTopicAttrKey
  <2>3. QED
    BY <2>2, NamesAndKeywords DEF normalizeTopicAttrKey, NormalizeAttrKey
<1>3. CASE t \notin QueueTypes /\ t # "topic"
  <2>1. f \in ChannelFields /\ k.name \in channelFolds[f]
    BY <1>3 DEF NormOf, FoldsOf, Fields
  <2>2. k.name = f
    BY <2>1 DEF channelFolds
  <2>3. QED
    BY <2>2, NamesAndKeywords
<1>4. QED
  BY <1>1, <1>2, <1>3

LEMMA FoldsDomain == \A t : DOMAIN FoldsOf(t) = Fields(t)
  BY DEF FoldsOf, Fields, queueFolds, topicFolds, channelFolds

\* A key that admission warns about is folded into the field the warning names.
LEMMA WarnedIsFolded ==
    ASSUME NEW t, NEW s, NEW w \in deprecatedAttributeWarnings(t, s.attributes)
    PROVE  /\ w.key \in DOMAIN s.attributes /\ w.field \in Fields(t)
           /\ NormOf(t, s)[w.key] \in FoldsOf(t)[w.field]
<1> DEFINE fields == IF t \in QueueTypes THEN deprecatedQueueAttributeFields
                     ELSE IF t = "topic" THEN deprecatedTopicAttributeFields
                     ELSE deprecatedChannelAttributeFields
<1>1. PICK k \in DOMAIN s.attributes :
        /\ NormalizeAttrKey(k) \in DOMAIN fields
        /\ w = [key |-> k, field |-> fields[NormalizeAttrKey(k)]]
  BY DEF deprecatedAttributeWarnings
<1> DEFINE f == fields[NormalizeAttrKey(k)]
<1>2. w.key = k /\ w.field = f
  BY <1>1
<1>3. f \in Fields(t) /\ NormOf(t, s)[k] \in FoldsOf(t)[f]
  <2>1. CASE t \in QueueTypes
    <3>1. /\ NormalizeAttrKey(k) \in QueueFields \cup {"target", "transmissionqueue", "remotemanager"}
          /\ f = deprecatedQueueAttributeFields[NormalizeAttrKey(k)]
      BY <1>1, <2>1 DEF deprecatedQueueAttributeFields
    <3>2. k.name = NormalizeAttrKey(k)
      BY <3>1 DEF NormalizeAttrKey, QueueFields
    <3>3. f \in QueueFields /\ k.name \in queueFolds[f]
      BY <3>1, <3>2 DEF deprecatedQueueAttributeFields, queueFolds, QueueFields
    <3>4. QED
      BY <2>1, <3>3 DEF Fields, FoldsOf, NormOf
  <2>2. CASE t \notin QueueTypes /\ t = "topic"
    <3>1. NormalizeAttrKey(k) \in TopicFields /\ f = NormalizeAttrKey(k)
      BY <1>1, <2>2, NamesAndKeywords DEF deprecatedTopicAttributeFields
    <3>2. normalizeTopicAttrKey(k) = f /\ f \in topicFolds[f]
      BY <3>1 DEF normalizeTopicAttrKey, NormalizeAttrKey, topicFolds
    <3>3. QED
      BY <2>2, <3>1, <3>2 DEF Fields, FoldsOf, NormOf
  <2>3. CASE t \notin QueueTypes /\ t # "topic"
    <3>1. NormalizeAttrKey(k) \in ChannelFields /\ f = NormalizeAttrKey(k)
      BY <1>1, <2>3 DEF deprecatedChannelAttributeFields
    <3>2. k.name = f /\ f \in channelFolds[f]
      BY <3>1 DEF NormalizeAttrKey, ChannelFields, channelFolds
    <3>3. QED
      BY <2>3, <3>1, <3>2 DEF Fields, FoldsOf, NormOf
  <2>4. QED
    BY <2>1, <2>2, <2>3
<1> HIDE DEF f
<1>4. QED
  BY <1>2, <1>3

\* A field says of the value it took what the key said.
LEMMA TakenSaysTheSame ==
    ASSUME NEW t, NEW f, NEW v, IsText(v), f \in IntFields => ParseInt32(v)
    PROVE  Said(t, f, Taken(f, v)) = Said(t, f, v)
<1>1. CASE f \in IntFields
  <2>1. f \in NumberAttributes /\ f \notin {"pub", "sub"}
    BY <1>1 DEF IntFields, NumberAttributes, numericAttrKeys
  <2>2. \A x : Meaning(f, x) = Itoa(x)
    BY <2>1 DEF Meaning
  <2>3. Itoa(Itoa(v)) = Itoa(v)
    BY ItoaPlain
  <2>4. QED
    BY <1>1, <2>1, <2>2, <2>3 DEF Said, Taken
<1>2. CASE f \notin IntFields
  BY <1>2 DEF Taken
<1>3. QED
  BY <1>1, <1>2

\* Folding the keys of an unambiguous spec without blanks.
LEMMA FoldKeeps ==
    ASSUME NEW t, NEW s, IsSpec(t, s), Unambiguous(t, s),
           \A k \in DOMAIN s.attributes : s.attributes[k] # Empty,
           NEW x \in Folded(t, s)
    PROVE  /\ MeaningOf(t, x) = MeaningOf(t, s)
           /\ \A w \in deprecatedAttributeWarnings(t, s.attributes) :
                 \/ x.typed[w.field] # Empty /\ w.key \notin DOMAIN x.attributes
                 \/ w.field \in IntFields /\ ~ParseInt32(s.attributes[w.key])
<1> DEFINE folds == FoldsOf(t)
           norm  == NormOf(t, s)
           keys  == DOMAIN s.attributes
<1>1. \A k \in keys : s.attributes[k] # Empty /\ IsText(s.attributes[k])
  BY DEF IsSpec
<1>2. DOMAIN folds = Fields(t)
  BY FoldsDomain
<1>3. \A k \in keys, f \in Fields(t) : norm[k] \in folds[f] => MQSCKeyword(k.name) = f
  BY FoldsKeyword
<1>4. LeftBy(folds, norm, s, keys, x)
  <2>1. IsFiniteSet(keys) /\ x \in FoldInAnyOrder(folds, norm, s)
    BY FoldedBy, Zenon DEF IsSpec
  <2> HIDE DEF folds, norm
  <2>2. QED
    BY <1>1, <2>1, FoldedLeaves
<1> HIDE DEF folds, norm
<1>5. ASSUME NEW a, NEW v, Gives(t, x, a, v)
      PROVE  \E w : Gives(t, s, a, w) /\ Said(t, a, v) = Said(t, a, w)
  <2>1. CASE a \in Fields(t) /\ x.typed[a] # Empty /\ v = x.typed[a]
    <3>1. CASE x.typed[a] = s.typed[a]
      BY <2>1, <3>1, Zenon DEF Gives
    <3>2. CASE x.typed[a] # s.typed[a]
      <4>1. PICK k \in keys : /\ CanTake(folds, norm, s, k, a)
                              /\ x.typed[a] = Taken(a, s.attributes[k])
        BY <1>2, <1>4, <2>1, <3>2, Zenon DEF LeftBy
      <4>2. MQSCKeyword(k.name) = a /\ (a \in IntFields => ParseInt32(s.attributes[k]))
        BY <1>3, <2>1, <4>1, Zenon DEF CanTake
      <4>3. Said(t, a, v) = Said(t, a, s.attributes[k])
        BY <1>1, <2>1, <4>1, <4>2, TakenSaysTheSame, SMTT(30)
      <4>4. QED
        BY <4>2, <4>3, Zenon DEF Gives
    <3>3. QED
      BY <3>1, <3>2, Zenon
  <2>2. CASE \E k \in DOMAIN x.attributes : MQSCKeyword(k.name) = a /\ v = x.attributes[k]
    BY <1>4, <2>2 DEF LeftBy, Gives
  <2>3. QED
    BY <1>5, <2>1, <2>2, Zenon DEF Gives
<1>6. ASSUME NEW a, NEW w, Gives(t, s, a, w) PROVE \E v : Gives(t, x, a, v)
  <2>1. CASE a \in Fields(t) /\ s.typed[a] # Empty
    <3>1. x.typed[a] # Empty
      <4>1. CASE x.typed[a] = s.typed[a]
        BY <2>1, <4>1, Zenon
      <4>2. CASE x.typed[a] # s.typed[a]
        <5>1. PICK k \in keys : /\ CanTake(folds, norm, s, k, a)
                                /\ x.typed[a] = Taken(a, s.attributes[k])
          BY <1>2, <1>4, <2>1, <4>2 DEF LeftBy
        <5>2. QED
          BY <1>1, <5>1, TakenNotEmpty, SMTT(30) DEF CanTake
      <4>3. QED
        BY <4>1, <4>2
    <3>2. QED
      BY <2>1, <3>1 DEF Gives
  <2>2. CASE \E k \in keys : MQSCKeyword(k.name) = a
    <3>1. PICK k \in keys : MQSCKeyword(k.name) = a
      BY <2>2
    <3>2. CASE k \in DOMAIN x.attributes
      BY <3>1, <3>2 DEF Gives
    <3>3. CASE k \notin DOMAIN x.attributes
      <4>1. PICK f \in Fields(t) : norm[k] \in folds[f] /\ x.typed[f] # Empty
        BY <1>2, <1>4, <3>1, <3>3, Zenon DEF LeftBy
      <4>2. f = a
        BY <1>3, <3>1, <4>1
      <4>3. QED
        BY <4>1, <4>2, Zenon DEF Gives
    <3>4. QED
      BY <3>2, <3>3
  <2>3. QED
    BY <1>6, <2>1, <2>2 DEF Gives
<1>7. MeaningOf(t, x) = MeaningOf(t, s)
  BY <1>5, <1>6, SameMeaning, Zenon
<1>8. ASSUME NEW w \in deprecatedAttributeWarnings(t, s.attributes),
             w.field \in IntFields => ParseInt32(s.attributes[w.key])
      PROVE  x.typed[w.field] # Empty /\ w.key \notin DOMAIN x.attributes
  <2>1. w.key \in keys /\ w.field \in Fields(t) /\ norm[w.key] \in folds[w.field]
    BY WarnedIsFolded DEF norm, folds
  <2>2. CanTake(folds, norm, s, w.key, w.field)
    BY <1>8, <2>1, Zenon DEF CanTake
  <2>3. QED
    BY <1>2, <1>4, <2>1, <2>2, Zenon DEF LeftBy
<1>9. QED
  BY <1>7, <1>8

\* Fold*AttributesToTyped: an unambiguous spec without blank values means the same
\* after the fold, in whatever order the map was visited, and every key that
\* admission calls deprecated is in the field the warning names by then.  That the
\* specs of a behaviour are well formed is WellFormedSpecs of ObjectSyncProofs.
THEOREM FoldProved == []WellFormed => []FoldKeepsMeaning
<1>1. ASSUME WellFormed PROVE FoldKeepsMeaning
  <2> SUFFICES ASSUME NEW o \in Objects, Unambiguous(type[o], spec[o]),
                      \A k \in DOMAIN spec[o].attributes : spec[o].attributes[k] # Empty
               PROVE  Kept(type[o], spec[o])
    BY Zenon DEF FoldKeepsMeaning
  <2>1. IsSpec(type[o], spec[o])
    BY <1>1, Zenon DEF WellFormed
  <2>2. QED
    BY <2>1, FoldKeeps, Zenon DEF Kept
<1>2. QED
  BY <1>1, PTL

-----------------------------------------------------------------------------
(***************************************************************************)
(* The circuit breaker                                                     *)
(***************************************************************************)

\* Unless requests outlast openTimeout, they are over when it has passed.
Drained ==
    ~slow => /\ state = "open" /\ waited => InFlight = {}
             /\ state = "half_open" => InFlight \subseteq {prober}

\* A request sleeps only if it has an attempt left.
SleepInv == \A r \in Requests : pc[r] = "backoff" => attempt[r] + 1 < maxAttempts

\* The flag is up exactly while the breaker is half open.
BreakerInv ==
    /\ TypeOK
    /\ SleepInv
    /\ probeInFlight <=> state = "half_open"
    /\ ProbeAccounted
    /\ ClosedBelowThreshold
    /\ Drained

\* What the two records leave behind, whichever request makes them.
LEMMA RecordEffect ==
    ASSUME BreakerInv, recordSuccess \/ recordFailure
    PROVE  /\ state' \in {"closed", "open"}
           /\ consecutiveFails' \in 0 .. failureThreshold
           /\ waited' \in BOOLEAN
           /\ probeInFlight' = FALSE
           /\ state' = "closed" => consecutiveFails' < failureThreshold
           /\ state' = "open" /\ waited' => state = "open" /\ waited
<1>1. CASE recordSuccess
  BY <1>1, LimitsAssumption DEF BreakerInv, TypeOK, recordSuccess
<1>2. CASE recordFailure
  <2>1. /\ state \in {"closed", "open", "half_open"}
        /\ failureThreshold \in Nat
        /\ consecutiveFails \in 0 .. failureThreshold
        /\ waited \in BOOLEAN
    BY LimitsAssumption DEF BreakerInv, TypeOK
  <2>2. CASE state = "half_open"
    BY <1>2, <2>1, <2>2, Zenon DEF recordFailure
  <2>3. CASE state # "half_open" /\ consecutiveFails + 1 < failureThreshold
    <3>1. /\ probeInFlight' = FALSE
          /\ consecutiveFails' = consecutiveFails + 1
          /\ UNCHANGED <<state, waited>>
      BY <1>2, <2>1, <2>3 DEF recordFailure
    <3>2. consecutiveFails' \in 0 .. failureThreshold /\ consecutiveFails' < failureThreshold
      BY <2>1, <2>3, <3>1
    <3>3. QED
      BY <2>1, <2>3, <3>1, <3>2
  <2>4. CASE state # "half_open" /\ consecutiveFails + 1 >= failureThreshold
    <3>1. /\ probeInFlight' = FALSE
          /\ consecutiveFails' = failureThreshold
          /\ state' = "open" /\ waited' = FALSE
      BY <1>2, <2>1, <2>4 DEF recordFailure
    <3>2. failureThreshold \in 0 .. failureThreshold
      BY <2>1
    <3>3. QED
      BY <3>1, <3>2, Zenon
  <2>5. QED
    BY <1>2, <2>2, <2>3, <2>4, Zenon DEF recordFailure
<1>3. QED
  BY <1>1, <1>2, Zenon

\* A request that returns leaves the others in flight.
LEMMA FinishEffect ==
    ASSUME TypeOK, SleepInv, NEW r \in Requests, Finish(r)
    PROVE  /\ pc' \in [Requests -> {"idle", "send", "backoff"}]
           /\ attempt' \in [Requests -> 0 .. maxAttempts - 1]
           /\ InFlight' = InFlight \ {r}
           /\ SleepInv'
  BY LimitsAssumption DEF TypeOK, Finish, InFlight, SleepInv

\* A request that was in flight and stays so leaves the others alone.
LEMMA InFlightKept ==
    ASSUME TypeOK, NEW r \in Requests, pc[r] # "idle",
           NEW l \in {"send", "backoff"}, pc' = [pc EXCEPT ![r] = l]
    PROVE  /\ pc' \in [Requests -> {"idle", "send", "backoff"}]
           /\ InFlight' = InFlight
  BY DEF TypeOK, InFlight

\* A request that tells the breaker how it went and returns.
LEMMA RecordStep ==
    ASSUME BreakerInv, NEW r \in Requests, recordSuccess \/ recordFailure,
           Finish(r), UNCHANGED <<mqweb, probeVars>>
    PROVE  BreakerInv'
<1>1. TypeOK /\ SleepInv
  BY DEF BreakerInv
<1>2. TypeOK'
  BY <1>1, RecordEffect, FinishEffect, Zenon DEF TypeOK, probeVars
<1>3. probeInFlight' = FALSE /\ state' # "half_open"
  BY RecordEffect, Zenon
<1>4. Drained'
  BY <1>1, <1>3, RecordEffect, FinishEffect, Zenon DEF BreakerInv, Drained, probeVars
<1>5. QED
  BY <1>1, <1>2, <1>3, <1>4, RecordEffect, FinishEffect, Zenon
     DEF BreakerInv, ProbeAccounted, ClosedBelowThreshold, probeVars

LEMMA BeginStep ==
    ASSUME BreakerInv, NEW r \in Requests, Begin(r)
    PROVE  BreakerInv'
<1>1. TypeOK /\ pc[r] = "idle"
  BY DEF BreakerInv, Begin
<1>2. pc' \in [Requests -> {"idle", "send", "backoff"}] /\ InFlight' = InFlight \cup {r}
  BY <1>1 DEF Begin, TypeOK, InFlight
<1> SleepInv'
  BY <1>1 DEF Begin, BreakerInv, TypeOK, SleepInv
<1>3. CASE state = "closed" /\ UNCHANGED <<breakerVars, probeVars>>
  BY <1>1, <1>2, <1>3 DEF Begin, breakerVars, probeVars, BreakerInv, TypeOK, ProbeAccounted,
     ClosedBelowThreshold, Drained
<1>4. CASE state # "closed"
  <2>1. /\ state' = "half_open" /\ probeInFlight' = TRUE
        /\ prober' = r /\ lost' = FALSE
        /\ UNCHANGED <<consecutiveFails, waited, slow, attempt, mqweb>>
        /\ state = "open" => waited
        /\ state = "half_open" => ~probeInFlight
    BY <1>4 DEF Begin, beforeRequest
  <2>2. state = "open" /\ waited
    BY <1>1, <1>4, <2>1 DEF BreakerInv, TypeOK
  <2>3. TypeOK'
    BY <1>1, <1>2, <2>1, Zenon DEF TypeOK
  <2>4. Drained'
    BY <1>2, <2>1, <2>2 DEF BreakerInv, Drained
  <2>5. QED
    BY <1>2, <2>1, <2>3, <2>4 DEF BreakerInv, ProbeAccounted, ClosedBelowThreshold
<1>5. QED
  BY <1>3, <1>4 DEF Begin, beforeRequest

LEMMA RequestStep ==
    ASSUME BreakerInv, NEW r \in Requests, roundTrip(r)
    PROVE  BreakerInv'
<1>1. CASE Begin(r)
  BY <1>1, BeginStep
<1>2. CASE Answered(r)
  BY <1>2, RecordStep DEF Answered
<1>3. CASE CertRejected(r)
  BY <1>3, RecordStep DEF CertRejected
<1>4. CASE Failed(r) /\ Finish(r) /\ recordFailure
  BY <1>4, RecordStep, Zenon DEF Failed
<1>5. CASE /\ Failed(r) /\ attempt[r] + 1 < maxAttempts
           /\ pc' = [pc EXCEPT ![r] = "backoff"]
           /\ UNCHANGED <<breakerVars, attempt>>
  <2>1. InFlight' = InFlight /\ pc' \in [Requests -> {"idle", "send", "backoff"}]
    BY <1>5, InFlightKept, Zenon DEF BreakerInv, Failed
  <2>2. SleepInv'
    BY <1>5 DEF BreakerInv, TypeOK, SleepInv
  <2>3. QED
    BY <1>5, <2>1, <2>2 DEF Failed, breakerVars, probeVars, BreakerInv, TypeOK, ProbeAccounted,
       ClosedBelowThreshold, Drained
<1>6. CASE sleepWithContext(r)
  <2>1. InFlight' = InFlight /\ pc' \in [Requests -> {"idle", "send", "backoff"}]
    BY <1>6, InFlightKept, Zenon DEF BreakerInv, sleepWithContext
  <2>2. attempt' \in [Requests -> 0 .. maxAttempts - 1]
    BY <1>6, LimitsAssumption DEF BreakerInv, TypeOK, SleepInv, sleepWithContext
  <2>3. SleepInv'
    BY <1>6 DEF BreakerInv, TypeOK, SleepInv, sleepWithContext
  <2>4. QED
    BY <1>6, <2>1, <2>2, <2>3 DEF sleepWithContext, breakerVars, probeVars, BreakerInv, TypeOK,
       ProbeAccounted, ClosedBelowThreshold, Drained
<1>7. QED
  BY <1>1, <1>2, <1>3, <1>4, <1>5, <1>6 DEF roundTrip, Failed

\* Everything else that happens: aborts, time and mqweb.
LEMMA OtherStep ==
    ASSUME BreakerInv, OpenTimeout \/ Faults \/ UNCHANGED vars
    PROVE  BreakerInv'
<1>1. ASSUME NEW r \in Requests, Aborted(r)
      PROVE  BreakerInv'
  <2>1. /\ pc' \in [Requests -> {"idle", "send", "backoff"}]
        /\ attempt' \in [Requests -> 0 .. maxAttempts - 1]
        /\ InFlight' = InFlight \ {r}
        /\ SleepInv'
    BY <1>1, FinishEffect DEF BreakerInv, Aborted
  <2>2. lost' \in BOOLEAN /\ (lost' <=> lost \/ r = prober)
    BY <1>1, Zenon DEF Aborted, BreakerInv, TypeOK
  <2>3. QED
    BY <1>1, <2>1, <2>2 DEF Aborted, breakerVars, probeVars, BreakerInv, TypeOK, ProbeAccounted,
       ClosedBelowThreshold, Drained
<1>2. CASE OpenTimeout
  <2>1. InFlight' = InFlight
    BY <1>2 DEF OpenTimeout, requestVars, InFlight
  <2>2. QED
    BY <1>2, <2>1, Zenon DEF OpenTimeout, requestVars, BreakerInv, TypeOK, SleepInv,
       ProbeAccounted, ClosedBelowThreshold, Drained
<1>3. CASE (\E m \in Mqwebs : MqwebChange(m)) \/ UNCHANGED vars
  <2>1. UNCHANGED <<breakerVars, requestVars, probeVars>> /\ (mqweb' \in Mqwebs \/ mqweb' = mqweb)
    BY <1>3 DEF MqwebChange, vars
  <2>2. InFlight' = InFlight
    BY <2>1 DEF requestVars, InFlight
  <2>3. QED
    BY <2>1, <2>2, ClientAssumption, Zenon DEF breakerVars, probeVars, requestVars, BreakerInv, TypeOK,
       SleepInv, ProbeAccounted, ClosedBelowThreshold, Drained
<1>4. QED
  BY <1>1, <1>2, <1>3 DEF Faults

LEMMA BreakerInductive == Spec => []BreakerInv
<1>1. Init => BreakerInv
  <2> SUFFICES ASSUME Init PROVE BreakerInv
    OBVIOUS
  <2> 0 \in 0 .. maxAttempts - 1 /\ 0 \in 0 .. failureThreshold
    BY LimitsAssumption
  <2> mqweb \in {"up", "down", "certRejected"}
    BY ClientAssumption DEF Init
  <2>1. TypeOK
    BY Zenon DEF Init, newCircuitBreaker, TypeOK
  <2>2. SleepInv
    BY DEF Init, SleepInv
  <2>3. QED
    BY <2>1, <2>2, LimitsAssumption DEF Init, newCircuitBreaker, BreakerInv,
       ProbeAccounted, ClosedBelowThreshold, Drained
<1>2. BreakerInv /\ [Next]_vars => BreakerInv'
  BY RequestStep, OtherStep DEF Next
<1>3. QED
  BY <1>1, <1>2, PTL DEF Spec

-----------------------------------------------------------------------------
\* The variables of the breaker and of its requests keep their types: no request
\* goes beyond maxAttempts.
THEOREM BreakerTypeCorrect == Spec => []TypeOK
  BY BreakerInductive, PTL DEF BreakerInv

\* A half-open breaker (beforeRequest) waits for a probe that is in flight, or was
\* aborted, for any number of requests.
THEOREM ProbeProved == Spec => []ProbeAccounted
  BY BreakerInductive, PTL DEF BreakerInv

\* A closed breaker has counted fewer failures than the threshold, for any
\* threshold (recordSuccess, recordFailure).
THEOREM CountProved == Spec => []ClosedBelowThreshold
  BY BreakerInductive, PTL DEF BreakerInv

\* Unless requests outlast openTimeout, the probe that beforeRequest admits is
\* alone on its way to mqweb.
THEOREM OneProbeProved == Spec => []OneProbe
<1>1. BreakerInv => OneProbe
  BY DEF BreakerInv, Drained, OneProbe
<1>2. QED
  BY <1>1, BreakerInductive, PTL

-----------------------------------------------------------------------------
(***************************************************************************)
(* The back-off                                                            *)
(***************************************************************************)

\* The loop of backoff, as the function that its definition chooses.
Sleeps(n, d) ==
    [i \in 1 .. n |-> IF i = 1 THEN initialBackoff
                      ELSE IF 2 * d[i - 1] >= maxBackoff THEN maxBackoff
                           ELSE 2 * d[i - 1]]

\* The same for Doubled.
Doubling(n, d) == [i \in 0 .. n |-> IF i = 0 THEN initialBackoff ELSE 2 * d[i - 1]]

\* There is such a function for every number of attempts.
LEMMA SleepsExist == \A n \in Nat : \E d : d = Sleeps(n, d)
<1> DEFINE S == {n \in Nat : \E d : d = Sleeps(n, d)}
<1>1. 0 \in S
  <2> DEFINE d == [i \in 1 .. 0 |-> initialBackoff]
  <2>1. d = Sleeps(0, d)
    BY DEF Sleeps
  <2> HIDE DEF d
  <2>2. QED
    BY <2>1
<1>2. ASSUME NEW n \in Nat, n \in S PROVE n + 1 \in S
  <2>1. PICK d : d = Sleeps(n, d)
    BY <1>2
  <2> DEFINE next == IF n = 0 THEN initialBackoff
                     ELSE IF 2 * d[n] >= maxBackoff THEN maxBackoff ELSE 2 * d[n]
             e == [i \in 1 .. n + 1 |-> IF i <= n THEN d[i] ELSE next]
  <2>2. \A i \in 1 .. n : d[i] = IF i = 1 THEN initialBackoff
                                 ELSE IF 2 * d[i - 1] >= maxBackoff THEN maxBackoff
                                      ELSE 2 * d[i - 1]
    BY <2>1 DEF Sleeps
  <2>3. e = Sleeps(n + 1, e)
    BY <2>2 DEF Sleeps
  <2> HIDE DEF e
  <2>4. QED
    BY <2>3
<1>3. QED
  <2> HIDE DEF S
  <2>1. Nat \subseteq S
    BY <1>1, <1>2, SetInduction
  <2>2. QED
    BY <2>1 DEF S

\* And one that only doubles.
LEMMA DoublingExists == \A n \in Nat : \E d : d = Doubling(n, d)
<1> DEFINE S == {n \in Nat : \E d : d = Doubling(n, d)}
<1>1. 0 \in S
  <2> DEFINE d == [i \in 0 .. 0 |-> initialBackoff]
  <2>1. d = Doubling(0, d)
    BY DEF Doubling
  <2> HIDE DEF d
  <2>2. QED
    BY <2>1
<1>2. ASSUME NEW n \in Nat, n \in S PROVE n + 1 \in S
  <2>1. PICK d : d = Doubling(n, d)
    BY <1>2
  <2> DEFINE e == [i \in 0 .. n + 1 |-> IF i <= n THEN d[i] ELSE 2 * d[n]]
  <2>2. \A i \in 0 .. n : d[i] = IF i = 0 THEN initialBackoff ELSE 2 * d[i - 1]
    BY <2>1 DEF Doubling
  <2>3. e = Doubling(n + 1, e)
    BY <2>2 DEF Doubling
  <2> HIDE DEF e
  <2>4. QED
    BY <2>3
<1>3. QED
  <2> HIDE DEF S
  <2>1. Nat \subseteq S
    BY <1>1, <1>2, SetInduction
  <2>2. QED
    BY <2>1 DEF S

\* The recursion that Doubled stands for.
LEMMA DoubledSteps ==
    /\ Doubled(0) = initialBackoff
    /\ \A n \in Nat : Doubled(n) \in Nat /\ Doubled(n + 1) = 2 * Doubled(n)
<1> DEFINE p(n) == CHOOSE d : d = Doubling(n, d)
<1>1. \A n \in Nat : Doubled(n) = p(n)[n]
  BY DEF Doubled, Doubling
<1>2. \A n \in Nat : p(n) = Doubling(n, p(n))
  BY DoublingExists
<1> HIDE DEF p
<1>3. \A n \in Nat : \A i \in 0 .. n :
          p(n)[i] = IF i = 0 THEN initialBackoff ELSE 2 * p(n)[i - 1]
  <2> TAKE n \in Nat
  <2> TAKE i \in 0 .. n
  <2> QED
    BY <1>2 DEF Doubling
<1>4. \A n \in Nat : \A i \in Nat : i <= n => p(n)[i] \in Nat /\ p(n)[i] = p(i)[i]
  <2> DEFINE S == {i \in Nat : \A n \in Nat : i <= n =>
                        p(n)[i] \in Nat /\ p(n)[i] = p(i)[i]}
  <2>1. 0 \in S
    <3>1. \A n \in Nat : p(n)[0] = initialBackoff
      BY <1>3
    <3>2. QED
      BY <3>1, LimitsAssumption
  <2>2. ASSUME NEW i \in Nat, i \in S PROVE i + 1 \in S
    <3>1. \A n \in Nat : i + 1 <= n => p(n)[i + 1] = 2 * p(n)[i]
      BY <1>3
    <3>2. \A n \in Nat : i + 1 <= n => p(n)[i] \in Nat /\ p(n)[i] = p(i)[i]
      BY <2>2
    <3>3. QED
      BY <3>1, <3>2
  <2>3. QED
    <3> HIDE DEF S
    <3>1. Nat \subseteq S
      BY <2>1, <2>2, SetInduction
    <3>2. QED
      BY <3>1 DEF S
<1>5. QED
  <2>1. Doubled(0) = initialBackoff
    BY <1>1, <1>3
  <2>2. ASSUME NEW n \in Nat PROVE Doubled(n) \in Nat /\ Doubled(n + 1) = 2 * Doubled(n)
    <3>1. p(n + 1)[n + 1] = 2 * p(n + 1)[n]
      BY <1>3
    <3>2. p(n + 1)[n] = p(n)[n] /\ p(n)[n] \in Nat
      BY <1>4
    <3>3. Doubled(n) = p(n)[n] /\ Doubled(n + 1) = p(n + 1)[n + 1]
      BY <1>1
    <3>4. QED
      BY <3>1, <3>2, <3>3
  <2>3. QED
    BY <2>1, <2>2

\* Capping at every doubling, as the loop of backoff does, is capping at the end.
LEMMA CappedAtTheEnd ==
    ASSUME NEW n \in Nat
    PROVE  backoff(n + 1) = IF n = 0 \/ Doubled(n) < maxBackoff
                            THEN Doubled(n) ELSE maxBackoff
<1> DEFINE d == CHOOSE f : f = Sleeps(n + 1, f)
           Cap(i) == IF i = 0 \/ Doubled(i) < maxBackoff THEN Doubled(i) ELSE maxBackoff
           S == {i \in Nat : i <= n => d[i + 1] = Cap(i)}
<1>1. backoff(n + 1) = d[n + 1]
  BY DEF backoff, Sleeps
<1>2. d = Sleeps(n + 1, d)
  BY SleepsExist
<1> HIDE DEF d
<1>3. \A i \in 1 .. n + 1 : d[i] = IF i = 1 THEN initialBackoff
                                   ELSE IF 2 * d[i - 1] >= maxBackoff THEN maxBackoff
                                        ELSE 2 * d[i - 1]
  BY <1>2 DEF Sleeps
<1>4. 0 \in S
  BY <1>3, DoubledSteps
<1>5. ASSUME NEW i \in Nat, i \in S PROVE i + 1 \in S
  <2> SUFFICES ASSUME i + 1 <= n PROVE d[i + 2] = Cap(i + 1)
    OBVIOUS
  <2>1. d[i + 2] = IF 2 * d[i + 1] >= maxBackoff THEN maxBackoff ELSE 2 * d[i + 1]
    BY <1>3
  <2>2. d[i + 1] = Cap(i)
    BY <1>5
  <2>3. Doubled(i) \in Nat /\ Doubled(i + 1) = 2 * Doubled(i)
    BY DoubledSteps
  <2>4. QED
    BY <2>1, <2>2, <2>3, LimitsAssumption
<1>6. QED
  <2> HIDE DEF S
  <2>1. Nat \subseteq S
    BY <1>4, <1>5, SetInduction
  <2>2. QED
    BY <1>1, <2>1 DEF S

\* The sleeps of retryPolicy.backoff double up to maxBackoff, for any first
\* sleep, any maxBackoff and any number of attempts: capping at every doubling,
\* as the loop does, is capping the last one.
THEOREM BackoffProved == Spec => []BackoffDoubles
<1>1. TypeOK => BackoffDoubles
  <2> SUFFICES ASSUME TypeOK, NEW r \in Requests
               PROVE  backoff(attempt[r] + 1) =
                          IF attempt[r] = 0 \/ Doubled(attempt[r]) < maxBackoff
                          THEN Doubled(attempt[r]) ELSE maxBackoff
    BY DEF BackoffDoubles
  <2>1. attempt[r] \in Nat
    BY LimitsAssumption DEF TypeOK
  <2>2. QED
    BY <2>1, CappedAtTheEnd
<1>2. QED
  BY <1>1, BreakerTypeCorrect, PTL
=============================================================================
