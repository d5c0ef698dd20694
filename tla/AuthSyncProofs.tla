--------------------------- MODULE AuthSyncProofs ---------------------------
(***************************************************************************)
(* Proofs about AuthSync, for every set of ChannelAuthRule resources, all  *)
(* well-formed specs and any number of interferences.                      *)
(***************************************************************************)
EXTENDS AuthSync, FiniteSetTheorems, WellFoundedInduction, NaturalsInduction, TLAPS

-----------------------------------------------------------------------------
(***************************************************************************)
(* The comparison of two lists of authorities                              *)
(***************************************************************************)

\* A nonempty set of numbers has a least member.
LEMMA LeastNumber ==
    ASSUME NEW S, S \subseteq Nat, S # {}
    PROVE  \E n \in S : \A m \in S : n <= m
<1> DEFINE R == OpToRel(<, Nat)
<1>1. IsWellFoundedOn(R, Nat)
  BY NatLessThanWellFounded, Zenon
<1>2. \A x, y \in Nat : <<x, y>> \in R <=> x < y
  BY DEF OpToRel
<1> HIDE DEF R
<1>3. PICK x \in S : \A y \in S : ~(<<y, x>> \in R)
  BY <1>1, WFMin, Zenon
<1>4. \A m \in S : ~(m < x)
  BY <1>2, <1>3, Zenon
<1>5. QED
  BY <1>4

\* A nonempty set of numbers up to n has a greatest member, and Max is one.
LEMMA GreatestNumber ==
    ASSUME NEW n \in Nat, NEW S, S \subseteq 1 .. n, S # {}
    PROVE  Max(S) \in S
<1> DEFINE T == {m \in Nat : n - m \in S}
<1>1. T \subseteq Nat /\ T # {}
  <2>1. PICK i \in S : TRUE
    BY Zenon
  <2>2. n - i \in Nat /\ n - (n - i) = i
    OBVIOUS
  <2>3. QED
    BY <2>1, <2>2, Zenon
<1>2. PICK m \in T : \A k \in T : m <= k
  <2> HIDE DEF T
  <2>1. QED
    BY <1>1, LeastNumber, Zenon
<1>3. n - m \in S /\ m \in Nat
  OBVIOUS
<1>4. ASSUME NEW i \in S
      PROVE  n - m >= i
  <2>1. n - i \in Nat /\ n - (n - i) = i
    OBVIOUS
  <2>2. n - i \in T
    BY <2>1
  <2>3. m <= n - i
    BY <1>2, <2>2
  <2>4. QED
    BY <1>3, <2>1, <2>3
<1>5. QED
  BY <1>3, <1>4, Zenon DEF Max

\* Induction over the numbers, for the set of those that have the property.
LEMMA SetInduction ==
    ASSUME NEW S, 0 \in S, \A n \in Nat : n \in S => n + 1 \in S
    PROVE  Nat \subseteq S
<1> SUFFICES ASSUME Nat \ S # {} PROVE FALSE
  OBVIOUS
<1>1. PICK n \in Nat \ S : \A m \in Nat \ S : n <= m
  BY LeastNumber, Zenon
<1>2. n - 1 \in Nat /\ n - 1 \in S
  BY <1>1
<1>3. QED
  BY <1>1, <1>2

LEMMA IntervalSize ==
    ASSUME NEW k \in Nat
    PROVE  IsFiniteSet(1 .. k) /\ Cardinality(1 .. k) = k
  BY FS_Interval

LEMMA Listed ==
    ASSUME NEW V, NEW p, NEW k, Cardinality(V) = k
    PROVE  p \in Listings(V) <=> /\ p \in [1 .. k -> V]
                                 /\ \A i, j \in 1 .. k : i # j => p[i] # p[j]
                                 /\ \A v \in V : \E i \in 1 .. k : p[i] = v
  BY Zenon DEF Listings, Bijection, Injection, IsInjective, Surjection

\* p lists places in the order of the words there.
Sorted(p, rank) == \A i, j \in DOMAIN p : i < j => rank[p[i]] <= rank[p[j]]

\* sort.Strings: any finite set of places can be listed in the order of the
\* words there, the first of the alphabet first and then the others.
LEMMA SortedExists ==
    ASSUME NEW D, NEW rank \in [D -> Nat], NEW W \in SUBSET D, IsFiniteSet(W)
    PROVE  \E p \in Listings(W) : Sorted(p, rank)
<1> DEFINE S == {n \in Nat : \A V \in SUBSET D : IsFiniteSet(V) /\ Cardinality(V) = n
                                  => \E p \in Listings(V) : Sorted(p, rank)}
<1>1. 0 \in S
  <2> SUFFICES ASSUME NEW V \in SUBSET D, IsFiniteSet(V), Cardinality(V) = 0
               PROVE  \E p \in Listings(V) : Sorted(p, rank)
    OBVIOUS
  <2> DEFINE p == [i \in 1 .. 0 |-> 0]
  <2>1. p \in [1 .. 0 -> V] /\ (\A i \in 1 .. 0 : FALSE) /\ V = {}
    BY FS_EmptySet
  <2>2. DOMAIN p = 1 .. 0
    OBVIOUS
  <2> HIDE DEF p
  <2>3. QED
    BY <2>1, <2>2, Listed, Zenon DEF Sorted
<1>2. ASSUME NEW n \in Nat, n \in S PROVE n + 1 \in S
  <2> SUFFICES ASSUME NEW V \in SUBSET D, IsFiniteSet(V), Cardinality(V) = n + 1
               PROVE  \E p \in Listings(V) : Sorted(p, rank)
    OBVIOUS
  <2>1. V # {}
    BY FS_EmptySet
  <2>2. PICK first \in V : \A v \in V : rank[first] <= rank[v]
    <3> DEFINE ranks == {rank[v] : v \in V}
    <3>1. ranks \subseteq Nat /\ ranks # {}
      BY <2>1
    <3>2. PICK k \in ranks : \A m \in ranks : k <= m
      BY <3>1, LeastNumber, Zenon
    <3>3. QED
      BY <3>2
  <2> DEFINE rest == V \ {first}
  <2>3. IsFiniteSet(rest) /\ Cardinality(rest) = n
    <3>1. IsFiniteSet(rest) /\ Cardinality(rest) = Cardinality(V) - 1
      BY FS_RemoveElement, Zenon
    <3>2. QED
      BY <3>1
  <2>4. PICK q \in Listings(rest) : Sorted(q, rank)
    BY <1>2, <2>3
  <2>5. /\ q \in [1 .. n -> rest]
        /\ \A i, j \in 1 .. n : i # j => q[i] # q[j]
        /\ \A v \in rest : \E i \in 1 .. n : q[i] = v
    <3> HIDE DEF rest
    <3>1. QED
      BY <2>3, <2>4, Listed
  <2>6. \A i, j \in 1 .. n : i < j => rank[q[i]] <= rank[q[j]]
    BY <2>4, <2>5 DEF Sorted
  <2> DEFINE p == [i \in 1 .. n + 1 |-> IF i = 1 THEN first ELSE q[i - 1]]
  <2>7. p \in [1 .. n + 1 -> V]
    BY <2>5
  <2>8. p[1] = first /\ \A i \in 2 .. n + 1 : i - 1 \in 1 .. n /\ p[i] = q[i - 1] /\ p[i] \in rest
    BY <2>5
  <2> HIDE DEF p
  <2>9. \A i, j \in 1 .. n + 1 : i # j => p[i] # p[j]
    <3> SUFFICES ASSUME NEW i \in 1 .. n + 1, NEW j \in 1 .. n + 1, i < j
                 PROVE  p[i] # p[j]
      OBVIOUS
    <3>1. CASE i = 1
      BY <2>8, <3>1
    <3>2. CASE i # 1
      BY <2>5, <2>8, <3>2
    <3>3. QED
      BY <3>1, <3>2
  <2>10. \A i, j \in 1 .. n + 1 : i < j => rank[p[i]] <= rank[p[j]]
    <3> SUFFICES ASSUME NEW i \in 1 .. n + 1, NEW j \in 1 .. n + 1, i < j
                 PROVE  rank[p[i]] <= rank[p[j]]
      OBVIOUS
    <3>1. CASE i = 1
      BY <2>2, <2>7, <2>8, <3>1
    <3>2. CASE i # 1
      BY <2>6, <2>8, <3>2
    <3>3. QED
      BY <3>1, <3>2
  <2>11. \A v \in V : \E i \in 1 .. n + 1 : p[i] = v
    <3> TAKE v \in V
    <3>1. CASE v = first
      BY <2>8, <3>1
    <3>2. CASE v \in rest
      <4>1. PICK i \in 1 .. n : q[i] = v
        BY <2>5, <3>2
      <4>2. i + 1 \in 2 .. n + 1 /\ (i + 1) - 1 = i
        OBVIOUS
      <4>3. p[i + 1] = v
        BY <2>8, <4>1, <4>2
      <4>4. QED
        BY <4>2, <4>3
    <3>3. QED
      BY <3>1, <3>2
  <2>12. DOMAIN p = 1 .. n + 1
    BY <2>7
  <2>13. QED
    BY <2>7, <2>9, <2>10, <2>11, <2>12, Listed, Zenon DEF Sorted
<1>3. QED
  <2> HIDE DEF S
  <2>1. Nat \subseteq S
    BY <1>1, <1>2, SetInduction
  <2>2. Cardinality(W) \in S
    BY <2>1, FS_CardinalityType
  <2>3. QED
    BY <2>2 DEF S

\* The list sorted: as many authorities, in capital letters, in the order of the
\* alphabet, each in the place that p gives it.
Normalized(l, m, p) ==
    /\ p \in [1 .. Len(l) -> 1 .. Len(l)]
    /\ \A i, j \in 1 .. Len(l) : i # j => p[i] # p[j]
    /\ \A k \in 1 .. Len(l) : \E i \in 1 .. Len(l) : p[i] = k
    /\ \A i, j \in 1 .. Len(l) : i < j => l[p[i]].n <= l[p[j]].n
    /\ m = [i \in 1 .. Len(l) |-> Authority(l[p[i]].n, {"caps"})]

\* What trimming and folding make of an authority.
LEMMA AuthorityWord ==
    ASSUME NEW n, NEW style
    PROVE  /\ Authority(n, style) # Empty
           /\ TrimSpace(Authority(n, style)) = Authority(n, style \ {"spaces"})
           /\ ToUpper(Authority(n, style)) = Authority(n, style \cup {"caps"})
           /\ Authority(n, style).n = n
<1>1. Authority(n, style) # Empty /\ ~IsNumber(Authority(n, style))
  BY Zenon DEF Authority, Empty, Word, IsNumber
<1>2. TrimSpace(Authority(n, style)) = Authority(n, style \ {"spaces"})
  BY DEF Authority, TrimSpace
<1>3. [Authority(n, style) EXCEPT !.style = @ \cup {"caps"}] = Authority(n, style \cup {"caps"})
  BY DEF Authority
<1>4. QED
  BY <1>1, <1>2, <1>3 DEF ToUpper, Authority

\* normalizeAuthoritySet drops none of the authorities that the CRD admits.
LEMMA NormalForm ==
    ASSUME NEW l, IsAuthorityList(l)
    PROVE  \E p : Normalized(l, normalizeAuthoritySet(l), p)
<1> DEFINE D == 1 .. Len(l)
           rank == [i \in D |-> l[i].n]
           Increasing(p) == \A i, j \in DOMAIN p : i < j => l[p[i]].n <= l[p[j]].n
           words == {i \in DOMAIN l : TrimSpace(l[i]) # Empty}
           order == CHOOSE p \in Listings(words) : Increasing(p)
<1>1. DOMAIN l = D /\ rank \in [D -> Nat]
  BY DEF IsAuthorityList
<1>2. \A i \in D : TrimSpace(l[i]) # Empty /\ ToUpper(TrimSpace(l[i])) = Authority(l[i].n, {"caps"})
  <2> SUFFICES ASSUME NEW i \in D
               PROVE  /\ TrimSpace(l[i]) # Empty
                      /\ ToUpper(TrimSpace(l[i])) = Authority(l[i].n, {"caps"})
    OBVIOUS
  <2>1. PICK n, style : l[i] = Authority(n, style) /\ style \subseteq {"caps", "spaces"}
    BY <1>1, Zenon DEF IsAuthorityList
  <2>2. /\ TrimSpace(Authority(n, style)) = Authority(n, style \ {"spaces"})
        /\ Authority(n, style).n = n
    BY AuthorityWord, Zenon
  <2>3. (style \ {"spaces"}) \cup {"caps"} = {"caps"}
    BY <2>1, Zenon
  <2>4. /\ Authority(n, style \ {"spaces"}) # Empty
        /\ ToUpper(Authority(n, style \ {"spaces"})) = Authority(n, {"caps"})
    BY <2>3, AuthorityWord
  <2>5. QED
    BY <2>1, <2>2, <2>4, Zenon
<1>3. words = D
  BY <1>1, <1>2
<1>4. normalizeAuthoritySet(l) = [i \in DOMAIN order |-> ToUpper(TrimSpace(l[order[i]]))]
  BY DEF normalizeAuthoritySet
<1>5. IsFiniteSet(D) /\ Cardinality(D) = Len(l)
  BY IntervalSize DEF IsAuthorityList
<1>6. \E p \in Listings(D) : Increasing(p)
  <2>1. PICK p \in Listings(D) : Sorted(p, rank)
    BY <1>1, <1>5, SortedExists, Zenon
  <2>2. p \in [D -> D]
    BY <1>5, <2>1, Listed
  <2>3. Increasing(p)
    BY <2>1, <2>2, Zenon DEF Sorted
  <2>4. QED
    BY <2>1, <2>3
<1>7. order \in Listings(D) /\ Increasing(order)
  <2> HIDE DEF words
  <2>1. QED
    BY <1>3, <1>6, Zenon
<1> HIDE DEF order
<1>8. /\ order \in [D -> D]
      /\ \A i, j \in D : i # j => order[i] # order[j]
      /\ \A k \in D : \E i \in D : order[i] = k
  BY <1>5, <1>7, Listed, SMTT(30)
<1>9. normalizeAuthoritySet(l) = [i \in D |-> Authority(l[order[i]].n, {"caps"})]
  BY <1>2, <1>4, <1>8, SMTT(30)
<1>10. Normalized(l, normalizeAuthoritySet(l), order)
  BY <1>7, <1>8, <1>9 DEF Normalized
<1>11. QED
  BY <1>10

\* Every authority of the list has its place in the sorted one.
LEMMA NormalKeepsAll ==
    ASSUME NEW l, IsAuthorityList(l), NEW m, NEW p, Normalized(l, m, p)
    PROVE  AuthoritiesOf(l) = {m[i].n : i \in 1 .. Len(l)}
<1> DEFINE D == 1 .. Len(l)
<1>1. \A k \in D : \E i \in D : p[i] = k
  BY DEF Normalized
<1>2. \A i \in D : m[i].n = l[p[i]].n /\ p[i] \in D
  BY Zenon DEF Normalized, Authority
<1>3. AuthoritiesOf(l) = {l[k].n : k \in D}
  BY DEF AuthoritiesOf, IsAuthorityList
<1>4. \A k \in D : l[k].n \in {m[i].n : i \in D}
  <2> TAKE k \in D
  <2>1. PICK i \in D : p[i] = k
    BY <1>1
  <2>2. l[k].n = m[i].n
    BY <1>2, <2>1
  <2>3. QED
    BY <2>2
<1>5. QED
  BY <1>2, <1>3, <1>4

\* A list that names no authority twice is sorted strictly.
LEMMA NormalIncreases ==
    ASSUME NEW l, IsAuthorityList(l), NEW m, NEW p, Normalized(l, m, p),
           Cardinality(AuthoritiesOf(l)) = Len(l)
    PROVE  \A i, j \in 1 .. Len(l) : i < j => m[i].n < m[j].n
<1> DEFINE D == 1 .. Len(l)
           name == [i \in D |-> l[i].n]
<1>1. IsFiniteSet(D) /\ Cardinality(D) = Len(l)
  BY IntervalSize DEF IsAuthorityList
<1>2. name \in Surjection(D, AuthoritiesOf(l))
  BY DEF Surjection, AuthoritiesOf, IsAuthorityList
<1>3. name \in Injection(D, AuthoritiesOf(l))
  BY <1>1, <1>2, FS_SurjSameCardinalityImpliesInj, Zenon
<1>4. \A i, j \in D : l[i].n = l[j].n => i = j
  BY <1>3, Zenon DEF Injection, IsInjective
<1>5. \A i \in D : m[i].n = l[p[i]].n /\ p[i] \in D /\ l[p[i]].n \in Nat
  BY SMTT(30) DEF Normalized, Authority, IsAuthorityList
<1>6. \A i, j \in D : i < j => l[p[i]].n <= l[p[j]].n /\ p[i] # p[j]
  <2>1. \A i, j \in D : i < j => i # j
    BY DEF IsAuthorityList
  <2>2. /\ \A i, j \in D : i < j => l[p[i]].n <= l[p[j]].n
        /\ \A i, j \in D : i # j => p[i] # p[j]
    BY Zenon DEF Normalized
  <2>3. QED
    BY <2>1, <2>2, Zenon
<1>7. QED
  BY <1>4, <1>5, <1>6, SMTT(30)

\* Two lists of the same length that are sorted strictly and name the same
\* authorities are the same.
LEMMA SortedAlike ==
    ASSUME NEW k \in Nat, NEW f \in [1 .. k -> Nat], NEW g \in [1 .. k -> Nat],
           \A i, j \in 1 .. k : i < j => f[i] < f[j],
           \A i, j \in 1 .. k : i < j => g[i] < g[j],
           {f[i] : i \in 1 .. k} = {g[i] : i \in 1 .. k}
    PROVE  \A i \in 1 .. k : f[i] = g[i]
<1> SUFFICES ASSUME {i \in 1 .. k : f[i] # g[i]} # {} PROVE FALSE
  BY Zenon
<1> DEFINE differ == {i \in 1 .. k : f[i] # g[i]}
<1>1. PICK i \in differ : \A j \in differ : i <= j
  <2>1. differ \subseteq Nat /\ differ # {}
    OBVIOUS
  <2> HIDE DEF differ
  <2>2. QED
    BY <2>1, LeastNumber, Zenon
<1>2. \A j \in 1 .. k : j < i => f[j] = g[j]
  BY <1>1
<1>3. i \in 1 .. k /\ f[i] # g[i]
  BY <1>1
<1>4. PICK j \in 1 .. k : g[j] = f[i]
  BY <1>3, Zenon
<1>5. PICK h \in 1 .. k : f[h] = g[i]
  BY <1>3, Zenon
<1> HIDE DEF differ
<1>6. j > i
  <2>1. j < i => f[j] < f[i] /\ g[j] = f[j]
    BY <1>2, <1>3, <1>4
  <2>2. f[i] \in Nat /\ f[j] \in Nat
    BY <1>3, <1>4
  <2>3. QED
    BY <1>3, <1>4, <2>1, <2>2
<1>7. h > i
  <2>1. h < i => g[h] < g[i] /\ g[h] = f[h]
    BY <1>2, <1>3, <1>5
  <2>2. g[i] \in Nat /\ g[h] \in Nat
    BY <1>3, <1>5
  <2>3. QED
    BY <1>3, <1>5, <2>1, <2>2
<1>8. QED
  BY <1>3, <1>4, <1>5, <1>6, <1>7

\* authoritySetsEqual never runs past the end of a list, and decides whether two
\* lists that name no authority twice name the same ones.
LEMMA SetsCompared ==
    ASSUME NEW a, IsAuthorityList(a), NEW b, IsAuthorityList(b)
    PROVE  /\ authoritySetsEqual(a, b) \in {"yes", "no"}
           /\ authoritySetsEqual(a, b) = "yes" => AuthoritiesOf(a) = AuthoritiesOf(b)
           /\ (/\ authoritySetsEqual(a, b) = "no"
               /\ Cardinality(AuthoritiesOf(a)) = Len(a)
               /\ Cardinality(AuthoritiesOf(b)) = Len(b)) => AuthoritiesOf(a) # AuthoritiesOf(b)
<1> DEFINE na == normalizeAuthoritySet(a)
           nb == normalizeAuthoritySet(b)
           differ == {i \in DOMAIN na : i > Len(nb) \/ na[i] # nb[i]}
<1>1. authoritySetsEqual(a, b) = IF Len(a) # Len(b) THEN "no"
                                 ELSE IF differ = {} THEN "yes"
                                 ELSE IF Min(differ) > Len(nb) THEN "panic" ELSE "no"
  BY DEF authoritySetsEqual
<1>2. PICK p : Normalized(a, na, p)
  BY NormalForm
<1>3. PICK q : Normalized(b, nb, q)
  BY NormalForm
<1> HIDE DEF na, nb
<1>4. DOMAIN na = 1 .. Len(a) /\ \A i \in 1 .. Len(a) : na[i].n \in Nat /\ na[i] = Authority(na[i].n, {"caps"})
  BY <1>2, Zenon DEF Normalized, IsAuthorityList, Authority
<1>5. DOMAIN nb = 1 .. Len(b) /\ \A i \in 1 .. Len(b) : nb[i].n \in Nat /\ nb[i] = Authority(nb[i].n, {"caps"})
  BY <1>3, Zenon DEF Normalized, IsAuthorityList, Authority
<1>0. Len(a) \in Nat /\ Len(b) \in Nat
  BY DEF IsAuthorityList
<1>6. Len(nb) = Len(b)
  <2>1. nb \in [1 .. Len(b) -> {nb[i] : i \in 1 .. Len(b)}]
    BY <1>3, Zenon DEF Normalized
  <2>2. QED
    BY <1>0, <2>1
<1>7. Len(a) = Len(b) => differ = {i \in 1 .. Len(a) : na[i] # nb[i]}
  BY <1>4, <1>6
<1> HIDE DEF differ
<1>8. Len(a) = Len(b) => authoritySetsEqual(a, b) = IF differ = {} THEN "yes" ELSE "no"
  <2> SUFFICES ASSUME Len(a) = Len(b), differ # {} PROVE ~(Min(differ) > Len(nb))
    BY <1>1
  <2>1. differ \subseteq 1 .. Len(b) /\ differ \subseteq Nat
    BY <1>0, <1>7
  <2>2. \E i \in differ : \A j \in differ : i <= j
    BY <2>1, LeastNumber, Zenon
  <2>3. Min(differ) \in differ
    BY <2>2 DEF Min
  <2>4. \A i \in differ : ~(i > Len(nb))
    BY <1>0, <1>6, <2>1
  <2>5. QED
    BY <2>3, <2>4, Zenon
<1>9. ASSUME Len(a) = Len(b), differ = {} PROVE AuthoritiesOf(a) = AuthoritiesOf(b)
  <2>1. \A i \in 1 .. Len(a) : na[i] = nb[i]
    BY <1>7, <1>9
  <2>2. {na[i].n : i \in 1 .. Len(a)} = {nb[i].n : i \in 1 .. Len(b)}
    BY <1>9, <2>1
  <2>3. QED
    BY <1>2, <1>3, <2>2, NormalKeepsAll, Zenon
<1>10. ASSUME Cardinality(AuthoritiesOf(a)) = Len(a), Cardinality(AuthoritiesOf(b)) = Len(b),
              AuthoritiesOf(a) = AuthoritiesOf(b)
       PROVE  Len(a) = Len(b) /\ differ = {}
  <2> DEFINE k == Len(a)
             f == [i \in 1 .. k |-> na[i].n]
             g == [i \in 1 .. k |-> nb[i].n]
  <2>1. Len(a) = Len(b)
    BY <1>10
  <2>2. f \in [1 .. k -> Nat] /\ g \in [1 .. k -> Nat]
    BY <1>4, <1>5, <2>1
  <2>3. \A i, j \in 1 .. k : i < j => f[i] < f[j]
    BY <1>2, <1>10, NormalIncreases
  <2>4. \A i, j \in 1 .. k : i < j => g[i] < g[j]
    BY <1>3, <1>10, <2>1, NormalIncreases
  <2>5. {f[i] : i \in 1 .. k} = {g[i] : i \in 1 .. k}
    <3>1. {na[i].n : i \in 1 .. Len(a)} = {nb[i].n : i \in 1 .. Len(b)}
      BY <1>2, <1>3, <1>10, NormalKeepsAll, ZenonT(30)
    <3>2. QED
      BY <2>1, <3>1, Zenon
  <2>6. \A i \in 1 .. k : f[i] = g[i]
    <3> HIDE DEF k, f, g
    <3>1. k \in Nat
      BY <1>0 DEF k
    <3>2. QED
      BY <2>2, <2>3, <2>4, <2>5, <3>1, SortedAlike, Zenon
  <2>7. \A i \in 1 .. Len(a) : na[i] = nb[i]
    <3> TAKE i \in 1 .. Len(a)
    <3>1. na[i].n = nb[i].n
      BY <2>6
    <3>2. na[i] = Authority(na[i].n, {"caps"}) /\ nb[i] = Authority(nb[i].n, {"caps"})
      BY <1>4, <1>5, <2>1
    <3>3. QED
      BY <3>1, <3>2, Zenon
  <2>8. QED
    BY <1>7, <2>1, <2>7
<1>11. QED
  BY <1>1, <1>8, <1>9, <1>10

-----------------------------------------------------------------------------
(***************************************************************************)
(* The reconciles of an authority record                                   *)
(***************************************************************************)

\* An answer of DISPLAY AUTHREC: it lists no authority twice.
IsAnswer(l) ==
    /\ IsAuthorityList(l)
    /\ Cardinality(AuthoritiesOf(l)) = Len(l)

RecordInv ==
    /\ IsAuthorityList(list)
    /\ oam \subseteq Nat /\ IsFiniteSet(oam)
    /\ DOMAIN record = {"pc", "verdict", "seen"}
    /\ record.seen.found \in BOOLEAN
    /\ record.seen.found => IsAnswer(record.seen.listed)
    /\ record.verdict \in
          {"none", IF record.seen.found THEN authoritySetsEqual(list, record.seen.listed) ELSE "no"}

\* What GetAuthority lists of the grants is an answer.
LEMMA AnswerListed ==
    ASSUME NEW G, G \subseteq Nat, IsFiniteSet(G), NEW order \in Listings(G)
    PROVE  IsAnswer([i \in DOMAIN order |-> Authority(order[i], {})])
<1> DEFINE k == Cardinality(G)
           l == [i \in 1 .. k |-> Authority(order[i], {})]
<1>1. k \in Nat
  BY FS_CardinalityType
<1>2. order \in [1 .. k -> G] /\ \A g \in G : \E i \in 1 .. k : order[i] = g
  BY Listed
<1> HIDE DEF k
<1>3. \A i \in 1 .. k : /\ l[i] = Authority(order[i], {}) /\ order[i] \in Nat
                        /\ l[i].n = order[i] /\ l[i].style = {}
  BY <1>2, Zenon DEF Authority
<1>4. DOMAIN l = 1 .. k /\ Len(l) = k
  <2>1. l \in [1 .. k -> {l[i] : i \in 1 .. k}]
    OBVIOUS
  <2>2. QED
    BY <1>1, <2>1
<1> HIDE DEF l
<1>5. IsAuthorityList(l)
  BY <1>1, <1>3, <1>4, Zenon DEF IsAuthorityList
<1>6. AuthoritiesOf(l) = G
  <2>1. AuthoritiesOf(l) = {l[i].n : i \in 1 .. k}
    BY <1>4 DEF AuthoritiesOf
  <2>2. ASSUME NEW g \in G PROVE g \in {l[i].n : i \in 1 .. k}
    <3>1. PICK i \in 1 .. k : order[i] = g
      BY <1>2
    <3>2. QED
      BY <1>3, <3>1
  <2>3. \A i \in 1 .. k : l[i].n \in G
    BY <1>2, <1>3
  <2>4. QED
    BY <2>1, <2>2, <2>3, Zenon
<1>7. IsAnswer(l)
  BY <1>4, <1>5, <1>6 DEF IsAnswer, k
<1>8. QED
  BY <1>2, <1>7 DEF l

\* A list names finitely many authorities.
LEMMA NamedFinite ==
    ASSUME NEW l, IsAuthorityList(l)
    PROVE  AuthoritiesOf(l) \subseteq Nat /\ IsFiniteSet(AuthoritiesOf(l))
<1> DEFINE D == 1 .. Len(l)
           name == [i \in D |-> l[i].n]
<1>1. IsFiniteSet(D)
  BY IntervalSize DEF IsAuthorityList
<1>2. name \in Surjection(D, AuthoritiesOf(l)) /\ AuthoritiesOf(l) \subseteq Nat
  BY DEF Surjection, AuthoritiesOf, IsAuthorityList
<1>3. QED
  BY <1>1, <1>2, FS_Surjection, Zenon

LEMMA RecordInit == Init => RecordInv
<1> SUFFICES ASSUME Init PROVE RecordInv
  OBVIOUS
<1>1. IsAuthorityList(list)
  <2>1. IsAuthorityList(<<>>)
    BY DEF IsAuthorityList
  <2>2. list = <<>> \/ list \in AuthorityLists
    BY DEF Init
  <2>3. QED
    BY <2>1, <2>2, AuthorityListsAssumption
<1>2. oam \subseteq Nat /\ IsFiniteSet(oam)
  BY FS_EmptySet DEF Init
<1>3. record = [pc |-> "idle", verdict |-> "none", seen |-> NotFound]
  BY DEF Init
<1>4. QED
  BY <1>1, <1>2, <1>3, Zenon DEF RecordInv, NotFound

\* Every step of a reconcile or of an administrator keeps what is known of the
\* record; the steps of the rules do not touch it.
LEMMA RecordStep == RecordInv /\ [Next]_vars => RecordInv'
<1> SUFFICES ASSUME RecordInv, [Next]_vars PROVE RecordInv'
  OBVIOUS
<1>1. CASE UNCHANGED authorityVars
  BY <1>1 DEF authorityVars, RecordInv, IsAnswer
<1>2. CASE GetAuthority
  <2>1. list' = list /\ oam' = oam
    BY <1>2 DEF GetAuthority
  <2>2. PICK order \in Listings(oam) :
            LET listed == [i \in DOMAIN order |-> Authority(order[i], {})]
            IN  record' = [pc |-> "ensure", verdict |-> "none",
                           seen |-> IF listed = <<>> THEN NotFound
                                    ELSE [found |-> TRUE, listed |-> listed]]
    BY <1>2, Zenon DEF GetAuthority
  <2> DEFINE listed == [i \in DOMAIN order |-> Authority(order[i], {})]
  <2>3. IsAnswer(listed)
    BY AnswerListed, Zenon DEF RecordInv
  <2> HIDE DEF listed
  <2>4. /\ DOMAIN record' = {"pc", "verdict", "seen"} /\ record'.verdict = "none"
        /\ \/ record'.seen = NotFound
           \/ record'.seen = [found |-> TRUE, listed |-> listed]
    BY <2>2 DEF listed
  <2>5. record'.seen.found \in BOOLEAN /\ (record'.seen.found => record'.seen.listed = listed)
    <3>1. NotFound.found = FALSE
      BY DEF NotFound
    <3>2. CASE record'.seen = NotFound
      BY <3>1, <3>2, Zenon
    <3>3. CASE record'.seen = [found |-> TRUE, listed |-> listed]
      BY <3>3
    <3>4. QED
      BY <2>4, <3>2, <3>3
  <2>6. QED
    BY <2>1, <2>3, <2>4, <2>5 DEF RecordInv
<1>3. CASE ensureAuthority
  <2> DEFINE equal == IF record.seen.found
                      THEN authoritySetsEqual(list, record.seen.listed) ELSE "no"
  <2>1. /\ list' = list /\ oam' \in {oam, oam \cup AuthoritiesOf(list)}
        /\ record' = [record EXCEPT !.pc = "idle", !.verdict = equal]
    BY <1>3 DEF ensureAuthority
  <2>2. oam' \subseteq Nat /\ IsFiniteSet(oam')
    <3>1. AuthoritiesOf(list) \subseteq Nat /\ IsFiniteSet(AuthoritiesOf(list))
      BY NamedFinite DEF RecordInv
    <3>2. oam \subseteq Nat /\ IsFiniteSet(oam)
      BY DEF RecordInv
    <3>3. IsFiniteSet(oam \cup AuthoritiesOf(list))
      BY <3>1, <3>2, FS_Union, Zenon
    <3>4. QED
      BY <2>1, <3>1, <3>2, <3>3
  <2> HIDE DEF equal
  <2>3. DOMAIN record' = DOMAIN record /\ record'.verdict = equal /\ record'.seen = record.seen
    BY <2>1 DEF RecordInv
  <2>4. QED
    BY <2>1, <2>2, <2>3 DEF RecordInv, equal
<1>4. CASE AlterAuthority
  <2>1. list' = list /\ record' = record
    BY <1>4 DEF AlterAuthority
  <2>2. oam' \subseteq Nat /\ IsFiniteSet(oam')
    <3>1. IsFiniteSet(oam') /\ oam' \subseteq UNION {AuthoritiesOf(l) : l \in AuthorityLists}
      BY <1>4 DEF AlterAuthority
    <3>2. \A l \in AuthorityLists : AuthoritiesOf(l) \subseteq Nat
      BY NamedFinite, AuthorityListsAssumption
    <3>3. QED
      BY <3>1, <3>2
  <2>3. QED
    BY <2>1, <2>2 DEF RecordInv
<1>5. QED
  BY <1>1, <1>2, <1>3, <1>4, Zenon
     DEF Next, vars, Reconcile, GetChannelAuth, ensureChannelAuth, CommandFails, EditRule, RemoveRule

\* So every verdict of a reconcile is that of sets.
LEMMA RecordCompared == RecordInv => AuthorityComparison
<1> SUFFICES ASSUME RecordInv PROVE AuthorityComparison
  OBVIOUS
<1>1. CASE ~record.seen.found
  BY <1>1 DEF RecordInv, AuthorityComparison
<1>2. CASE record.seen.found
  <2> DEFINE equal == authoritySetsEqual(list, record.seen.listed)
  <2>1. record.verdict \in {"none", equal}
    BY <1>2 DEF RecordInv
  <2>2. IsAuthorityList(list) /\ IsAnswer(record.seen.listed)
    BY <1>2 DEF RecordInv
  <2>3. /\ equal \in {"yes", "no"}
        /\ equal = "yes" => AuthoritiesOf(list) = AuthoritiesOf(record.seen.listed)
        /\ (equal = "no" /\ Cardinality(AuthoritiesOf(list)) = Len(list))
               => AuthoritiesOf(list) # AuthoritiesOf(record.seen.listed)
    BY <2>2, SetsCompared DEF IsAnswer
  <2> HIDE DEF equal
  <2>4. QED
    BY <2>1, <2>3 DEF AuthorityComparison
<1>3. QED
  BY <1>1, <1>2

-----------------------------------------------------------------------------
(***************************************************************************)
(* The clauses of a rule                                                   *)
(***************************************************************************)

\* Most leaves are first-order reasoning about sets, functions and records; those
\* that need more unfolding cite SMT.
USE Zenon

Set(s) == buildSetChannelAuthMQSC(s)

\* The attributes that are not compared when the spec leaves them out.
Optional == {"mcauser", "usersrc", "chckclnt"}

LEMMA Names ==
    /\ KeyFields \subseteq RuleFields /\ "descr" \in RuleFields /\ "userlist" \in RuleFields
    /\ RuleFields = KeyFields \cup Optional \cup {"userlist", "descr"}
    /\ KeyFields \cap Optional = {} /\ "descr" \notin KeyFields /\ "userlist" \notin KeyFields
    /\ "addrlist" \notin RuleFields /\ "address" \in KeyFields
  BY DEF KeyFields, RuleFields, Optional

\* What SET sends, clause by clause.
LEMMA SetClauses ==
    ASSUME NEW s \in RuleSpecs
    PROVE  /\ Set(s).type = s.type
           /\ \A f \in RuleFields \ {"address"} :
                 At(Set(s).clauses, f) =
                     IF f \in KeyClauses(s) \/ f \notin KeyFields THEN s.fields[f] ELSE Empty
           /\ At(Set(s).clauses, "address") = IF s.type = "BLOCKADDR" THEN Empty ELSE s.fields["address"]
           /\ At(Set(s).clauses, "addrlist") = IF s.type = "BLOCKADDR" THEN s.fields["address"] ELSE Empty
           /\ DOMAIN Set(s).clauses \subseteq RuleFields \cup {"addrlist"}
           /\ \A f \in DOMAIN Set(s).clauses : IsText(Set(s).clauses[f])
<1> DEFINE given == KeyClauses(s) \cup {f \in RuleFields \ KeyFields : s.fields[f] # Empty}
           plain == [f \in given |-> s.fields[f]]
           clauses == IF s.type = "BLOCKADDR" /\ "address" \in given
                      THEN Without(With(plain, "addrlist", plain["address"]), "address")
                      ELSE plain
<1>1. Set(s).type = s.type /\ Set(s).clauses = clauses
  BY DEF Set, buildSetChannelAuthMQSC
<1>2. given \subseteq RuleFields /\ \A f \in given : s.fields[f] # Empty /\ IsText(s.fields[f])
  BY Names, RuleSpecsAssumption DEF KeyClauses
<1>3. \A f \in RuleFields : f \in given <=>
          s.fields[f] # Empty /\ (f \in KeyFields => f \in KeyClauses(s))
  BY DEF KeyClauses
<1>4. "address" \in KeyClauses(s) <=> s.fields["address"] # Empty
  BY DEF KeyClauses, KeyFields
<1> HIDE DEF given
<1>5. CASE s.type = "BLOCKADDR" /\ "address" \in given
  <2>1. /\ DOMAIN clauses = (given \cup {"addrlist"}) \ {"address"}
        /\ \A f \in DOMAIN clauses :
              clauses[f] = IF f = "addrlist" THEN s.fields["address"] ELSE s.fields[f]
    BY <1>5 DEF With, Without
  <2> HIDE DEF clauses
  <2>2. QED
    BY <1>1, <1>2, <1>3, <1>5, <2>1, Names DEF At
<1>6. CASE ~(s.type = "BLOCKADDR" /\ "address" \in given)
  <2>1. DOMAIN clauses = given /\ \A f \in given : clauses[f] = s.fields[f]
    BY <1>6
  <2> HIDE DEF clauses
  <2>2. "addrlist" \notin given
    BY <1>2, Names
  <2>3. QED
    BY <1>1, <1>2, <1>3, <1>4, <1>6, <2>1, <2>2, Names DEF At
<1>7. QED
  BY <1>5, <1>6

-----------------------------------------------------------------------------
(***************************************************************************)
(* The inductive invariant                                                 *)
(***************************************************************************)

\* Some rule of the queue manager does what the spec of c says.
Held(c) == \E x \in chlauth : Treats(x, spec[c])

\* Every rule was SET by a reconcile, with clauses its type has.
Rulebook ==
    /\ IsFiniteSet(chlauth)
    /\ \A x \in chlauth :
          /\ \E s \in RuleSpecs : x = Set(s)
          /\ DOMAIN x.clauses \subseteq ClausesOf(x.type)

IsState(state) == DOMAIN state = RuleFields /\ \A f \in RuleFields : IsText(state[f])

\* A reconcile waits, or is about to compare the spec it read with the answer.
Reconciling(q) ==
    \/ q = Idle
    \/ /\ q.pc = "ensure" /\ q.want \in RuleSpecs
       /\ q.seen.found \in BOOLEAN
       /\ q.seen.found => IsState(q.seen.state)

Frame ==
    /\ world \in {"rules", "authority"} /\ changes \in 0..MaxChanges
    /\ DOMAIN spec = Rules /\ DOMAIN status = Rules
    /\ DOMAIN r = Rules /\ disturbed \in [Rules -> BOOLEAN] /\ mixed \in [Rules -> BOOLEAN]
    /\ \A c \in Rules :
          /\ spec[c] \in RuleSpecs /\ status[c] \in {"none", "Synced", "Error"}
          /\ Reconciling(r[c])
    /\ Rulebook
    /\ DOMAIN record = {"pc", "verdict", "seen"}
    /\ record.verdict \in {"none", "yes", "no", "panic"}

\* What a resource that nobody disturbed may rely on: its reconcile works on
\* the spec as it is, and an answer that needs no update and is not a mixture
\* came from a rule that is still there; so did Synced.
Reliable(c) ==
    ~disturbed[c] =>
        /\ r[c].pc = "ensure" =>
              /\ r[c].want = spec[c]
              /\ (/\ ~mixed[c] /\ r[c].seen.found
                  /\ ~ChannelAuthNeedsUpdate(r[c].want, r[c].seen.state)) => Held(c)
        /\ (status[c] = "Synced" /\ r[c].pc = "idle" /\ ~mixed[c]) => Held(c)

AuthInv == Frame /\ \A c \in Rules : Reliable(c)

-----------------------------------------------------------------------------
(***************************************************************************)
(* What DISPLAY shows and what a comparison without drift means            *)
(***************************************************************************)

LEMMA EmptyText == IsText(Empty) /\ IsText(Word("default", {"caps"}))
  BY DEF IsText, Empty, Word, Styles

\* DISPLAY shows a key clause, a list or ADDRLIST just as it was SET; leaving
\* the description out changes nothing else.
LEMMA ShownClauses ==
    ASSUME NEW x, NEW withDescr \in BOOLEAN
    PROVE  /\ \A f \in DOMAIN x.clauses \ {"descr"} : At(Shown(x, withDescr), f) = x.clauses[f]
           /\ \A f \in KeyFields \cup {"userlist", "addrlist"} :
                 At(Shown(x, withDescr), f) = At(x.clauses, f)
           /\ \A f : f # "descr" => At(Shown(x, withDescr), f) = At(Shown(x, TRUE), f)
           /\ (\A f \in DOMAIN x.clauses : IsText(x.clauses[f])) =>
                 \A f : IsText(At(Shown(x, withDescr), f))
<1> DEFINE shows == DOMAIN x.clauses \cup (ClausesOf(x.type) \cap {"chckclnt", "usersrc"})
           all == [f \in shows |->
                      IF f \in DOMAIN x.clauses THEN x.clauses[f] ELSE Word("default", {"caps"})]
<1>1. Shown(x, TRUE) = all
  BY DEF Shown
<1>2. Shown(x, withDescr) = all \/ Shown(x, withDescr) = Without(all, "descr")
  BY DEF Shown
<1>3. DOMAIN x.clauses \subseteq shows /\ shows \subseteq DOMAIN x.clauses \cup {"chckclnt", "usersrc"}
  OBVIOUS
<1>4. \A f : At(all, f) =
          IF f \in DOMAIN x.clauses THEN x.clauses[f]
          ELSE IF f \in shows THEN Word("default", {"caps"}) ELSE Empty
  BY <1>3 DEF At
<1>5. \A f : At(Without(all, "descr"), f) = IF f = "descr" THEN Empty ELSE At(all, f)
  BY DEF At, Without
<1> HIDE DEF all, shows
<1>6. \A f : f # "descr" => At(Shown(x, withDescr), f) = At(all, f)
  BY <1>2, <1>5
<1>7. \A f \in KeyFields \cup {"userlist", "addrlist"} : At(all, f) = At(x.clauses, f)
  BY <1>3, <1>4 DEF At, KeyFields
<1>8. ASSUME \A f \in DOMAIN x.clauses : IsText(x.clauses[f])
      PROVE  \A f : IsText(At(Shown(x, withDescr), f))
  <2>1. \A f : IsText(At(all, f))
    BY <1>4, <1>8, EmptyText
  <2>2. QED
    BY <1>2, <1>5, <2>1, EmptyText
<1>9. \A f \in KeyFields \cup {"userlist", "addrlist"} : f # "descr"
  BY DEF KeyFields
<1>10. QED
  BY <1>1, <1>4, <1>6, <1>7, <1>8, <1>9

\* The merged answer takes each attribute from one of the rules, and is the
\* rule's own when there is one.
LEMMA Merged ==
    ASSUME NEW V, IsFiniteSet(V), NEW answer \in Listings(V)
    PROVE  /\ \A f : \/ At(MergedAttributes(answer), f) = Empty
                     \/ \E v \in V : At(MergedAttributes(answer), f) = At(v, f)
           /\ \A v : V = {v} => \A f : At(MergedAttributes(answer), f) = At(v, f)
<1> DEFINE k == Cardinality(V)
           names == UNION {DOMAIN answer[i] : i \in DOMAIN answer}
           last(f) == Max({i \in DOMAIN answer : f \in DOMAIN answer[i]})
           attrs == MergedAttributes(answer)
<1>1. k \in Nat
  BY FS_CardinalityType
<1>2. /\ DOMAIN answer = 1 .. k /\ \A i \in 1 .. k : answer[i] \in V
      /\ \A v \in V : \E i \in 1 .. k : answer[i] = v
  <2> HIDE DEF k
  <2>1. answer \in [1 .. k -> V]
    BY Listed DEF k
  <2>2. \A v \in V : \E i \in 1 .. k : answer[i] = v
    <3>1. answer \in Surjection(1 .. k, V)
      BY DEF k, Listings, Bijection
    <3>2. QED
      BY <3>1 DEF Surjection
  <2>3. QED
    BY <2>1, <2>2
<1>3. ASSUME NEW f \in names
      PROVE  last(f) \in DOMAIN answer /\ f \in DOMAIN answer[last(f)]
  <2> DEFINE S == {i \in DOMAIN answer : f \in DOMAIN answer[i]}
  <2>1. S \subseteq 1 .. k /\ S # {}
    BY <1>2, <1>3
  <2> HIDE DEF S, k
  <2>2. Max(S) \in S
    BY <1>1, <2>1, GreatestNumber
  <2>3. QED
    BY <2>2 DEF S
<1>4. attrs = [f \in names |-> answer[last(f)][f]]
  BY DEF MergedAttributes
<1> HIDE DEF attrs, last, k
<1>5. DOMAIN attrs = names /\ \A f \in names : attrs[f] = answer[last(f)][f]
  BY <1>4
<1>6. \A f \in names : At(attrs, f) = At(answer[last(f)], f) /\ answer[last(f)] \in V
  BY <1>2, <1>3, <1>5 DEF At
<1>7. \A f : f \notin names => At(attrs, f) = Empty
  BY <1>5 DEF At
<1>8. ASSUME NEW v, V = {v}, NEW f
      PROVE  At(attrs, f) = At(v, f)
  <2>1. CASE f \in names
    BY <1>6, <1>8, <2>1
  <2>2. CASE f \notin names
    <3>1. PICK i \in 1 .. k : answer[i] = v
      BY <1>2, <1>8
    <3>2. f \notin DOMAIN v
      BY <1>2, <2>2, <3>1
    <3>3. QED
      BY <1>7, <2>2, <3>2 DEF At
  <2>3. QED
    BY <2>1, <2>2
<1>9. QED
  BY <1>6, <1>7, <1>8 DEF attrs

\* The state GET returns is made of the texts of the attributes.
LEMMA StateTexts ==
    ASSUME NEW s \in RuleSpecs, NEW attrs, \A f : IsText(At(attrs, f))
    PROVE  IsState(channelAuthStateFromAttributes(s, attrs))
<1>1. At(attrs, "addrlist") # Empty => attrs["addrlist"] = At(attrs, "addrlist")
  BY DEF At
<1>2. QED
  BY <1>1 DEF IsState, channelAuthStateFromAttributes

\* It depends on nothing else.
LEMMA StateOf ==
    ASSUME NEW s \in RuleSpecs, NEW a, NEW b, \A f : At(a, f) = At(b, f)
    PROVE  channelAuthStateFromAttributes(s, a) = channelAuthStateFromAttributes(s, b)
<1>1. /\ At(a, "addrlist") # Empty => a["addrlist"] = At(a, "addrlist")
      /\ At(b, "addrlist") # Empty => b["addrlist"] = At(b, "addrlist")
  BY DEF At
<1>2. QED
  BY <1>1 DEF channelAuthStateFromAttributes

\* A rule that was SET does what its spec says.
LEMMA SetTreats ==
    ASSUME NEW s \in RuleSpecs
    PROVE  Treats(Set(s), s)
<1> DEFINE rule == Set(s)
<1>1. \A f \in (DOMAIN rule.clauses \cup KeyFields) \ {"descr"} :
          At(Shown(rule, TRUE), f) = At(rule.clauses, f)
  BY ShownClauses DEF At
<1>2. QED
  BY <1>1 DEF Treats, Set, SameText, EqualFold

\* The description of a state is the only field that withDescr reaches, and a
\* BLOCKADDR's address is its ADDRLIST.
LEMMA StateFields ==
    ASSUME NEW s \in RuleSpecs, NEW x, NEW withDescr \in BOOLEAN
    PROVE  LET state == channelAuthStateFromAttributes(s, Shown(x, withDescr))
           IN  /\ \A f \in RuleFields \ {"address", "descr"} : state[f] = At(Shown(x, TRUE), f)
               /\ s.type # "BLOCKADDR" => state["address"] = At(Shown(x, TRUE), "address")
               /\ (s.type = "BLOCKADDR" /\ "address" \notin DOMAIN x.clauses) =>
                     state["address"] = At(Shown(x, TRUE), "addrlist")
<1> DEFINE attrs == Shown(x, withDescr)
           state == channelAuthStateFromAttributes(s, attrs)
<1>1. \A f : f # "descr" => At(attrs, f) = At(Shown(x, TRUE), f)
  BY ShownClauses
<1>2. At(attrs, "addrlist") # Empty => attrs["addrlist"] = At(attrs, "addrlist")
  BY DEF At
<1>3. At(attrs, "address") = At(x.clauses, "address")
  BY ShownClauses DEF KeyFields
<1>4. "address" \notin DOMAIN x.clauses => At(x.clauses, "address") = Empty
  BY DEF At
<1> HIDE DEF attrs
<1>5. \A f \in RuleFields :
          state[f] = IF f = "address" /\ s.type = "BLOCKADDR" /\ At(attrs, "addrlist") # Empty
                     THEN attrs["addrlist"] ELSE At(attrs, f)
  BY DEF channelAuthStateFromAttributes
<1>6. "address" \in RuleFields
  BY DEF RuleFields, KeyFields
<1> HIDE DEF state
<1>7. /\ \A f \in RuleFields \ {"address", "descr"} : state[f] = At(Shown(x, TRUE), f)
      /\ s.type # "BLOCKADDR" => state["address"] = At(Shown(x, TRUE), "address")
      /\ (s.type = "BLOCKADDR" /\ "address" \notin DOMAIN x.clauses) =>
            state["address"] = At(Shown(x, TRUE), "addrlist")
  BY <1>1, <1>2, <1>3, <1>4, <1>5, <1>6
<1>8. QED
  BY <1>7 DEF state, attrs

\* A rule whose state needs no update treats connections as the spec says,
\* though the comparison runs over fields and SET sends clauses: a field that
\* is not sent is not in the rule either.
LEMMA NoDriftTreats ==
    ASSUME NEW s \in RuleSpecs, NEW x, NEW withDescr \in BOOLEAN,
           NEW t \in RuleSpecs, x = Set(t), DOMAIN x.clauses \subseteq ClausesOf(x.type),
           x.type = s.type,
           ~ChannelAuthNeedsUpdate(s, channelAuthStateFromAttributes(s, Shown(x, withDescr)))
    PROVE  Treats(x, s)
<1> DEFINE state == channelAuthStateFromAttributes(s, Shown(x, withDescr))
           rule == Set(s)
           shown == Shown(x, TRUE)
<1>1. /\ \A f \in KeyFields \cup {"userlist"} : SameText(s.fields[f], state[f])
      /\ \A f \in Optional : TrimSpace(s.fields[f]) = Empty \/ SameText(s.fields[f], state[f])
  BY DEF ChannelAuthNeedsUpdate, Optional
<1>2. /\ \A f \in RuleFields \ {"address", "descr"} : state[f] = At(shown, f)
      /\ s.type # "BLOCKADDR" => state["address"] = At(shown, "address")
      /\ (s.type = "BLOCKADDR" /\ "address" \notin DOMAIN x.clauses) =>
            state["address"] = At(shown, "addrlist")
  BY StateFields, ZenonT(30)
<1>3. s.type = "BLOCKADDR" => "address" \notin DOMAIN x.clauses
  BY DEF ClausesOf
<1>4. t.type = s.type
  BY SetClauses
<1>5. /\ \A f \in RuleFields \ {"address"} :
            At(rule.clauses, f) =
                IF f \in KeyClauses(s) \/ f \notin KeyFields THEN s.fields[f] ELSE Empty
      /\ At(rule.clauses, "address") = IF s.type = "BLOCKADDR" THEN Empty ELSE s.fields["address"]
      /\ At(rule.clauses, "addrlist") = IF s.type = "BLOCKADDR" THEN s.fields["address"] ELSE Empty
      /\ DOMAIN rule.clauses \subseteq RuleFields \cup {"addrlist"} /\ rule.type = s.type
  BY SetClauses
<1>6. \A f \in KeyFields : At(shown, f) = At(x.clauses, f)
  BY ShownClauses
<1>7. s.type # "BLOCKADDR" => "addrlist" \notin DOMAIN rule.clauses
  BY Names DEF Set, buildSetChannelAuthMQSC, KeyClauses
<1> HIDE DEF state, shown, rule
<1>8. ASSUME NEW f \in KeyFields, f # "address", f \notin KeyClauses(s)
      PROVE  SameText(At(rule.clauses, f), At(shown, f))
  <2>1. At(rule.clauses, f) = Empty
    BY <1>8, <1>5, Names
  <2>2. CASE s.fields[f] = Empty
    BY <1>1, <1>2, <1>8, <2>1, <2>2, Names
  <2>3. CASE s.fields[f] # Empty
    <3>1. f \notin KeyClauses(t)
      BY <1>4, <1>8, <2>3 DEF KeyClauses, KeyFields
    <3>2. At(shown, f) = At(x.clauses, f)
      BY <1>6
    <3>3. At(x.clauses, f) = Empty
      BY <1>8, <3>1, SetClauses, Names
    <3>4. QED
      BY <2>1, <3>2, <3>3 DEF SameText, EqualFold
  <2>4. QED
    BY <2>2, <2>3
<1>9. ASSUME NEW f \in KeyFields, f # "address", f \in KeyClauses(s)
      PROVE  SameText(At(rule.clauses, f), At(shown, f))
  BY <1>1, <1>2, <1>9, <1>5, Names, SMTT(30)
<1>10. SameText(At(rule.clauses, "address"), At(shown, "address"))
  <2>1. CASE s.type # "BLOCKADDR"
    BY <1>1, <1>2, <2>1, <1>5, Names, SMTT(30)
  <2>2. CASE s.type = "BLOCKADDR"
    <3>1. At(shown, "address") = Empty
      BY <1>3, <1>6, <2>2, Names DEF At
    <3>2. At(rule.clauses, "address") = Empty
      BY <1>5, <2>2
    <3>3. QED
      BY <3>1, <3>2 DEF SameText, EqualFold
  <2>3. QED
    BY <2>1, <2>2
<1>11. "addrlist" \in DOMAIN rule.clauses =>
          SameText(At(rule.clauses, "addrlist"), At(shown, "addrlist"))
  <2>1. CASE s.type = "BLOCKADDR"
    BY <1>1, <1>2, <1>3, <1>5, <2>1, Names, SMTT(30)
  <2>2. CASE s.type # "BLOCKADDR"
    BY <1>7, <2>2
  <2>3. QED
    BY <2>1, <2>2
<1>12. SameText(At(rule.clauses, "userlist"), At(shown, "userlist"))
  BY <1>1, <1>2, <1>5, Names, SMTT(30)
<1>13. \A f \in Optional : \/ SameText(At(rule.clauses, f), At(shown, f))
                           \/ TrimSpace(s.fields[f]) = Empty
  <2> SUFFICES ASSUME NEW f \in Optional
               PROVE  \/ SameText(At(rule.clauses, f), At(shown, f))
                      \/ TrimSpace(s.fields[f]) = Empty
    OBVIOUS
  <2>1. f \in RuleFields /\ f \notin KeyFields /\ f # "address" /\ f # "descr"
    BY Names DEF Optional
  <2>2. At(rule.clauses, f) = s.fields[f] /\ state[f] = At(shown, f)
    BY <1>2, <1>5, <2>1
  <2>3. QED
    BY <1>1, <2>2
<1>14. \A f \in (DOMAIN rule.clauses \cup KeyFields) \ {"descr"} :
          \/ SameText(At(rule.clauses, f), At(shown, f))
          \/ f \in Optional /\ TrimSpace(s.fields[f]) = Empty
  BY <1>8, <1>9, <1>10, <1>11, <1>12, <1>13, <1>5, Names
<1>15. QED
  BY <1>5, <1>14 DEF Treats, Set, rule, shown, Optional

\* A rule that does what s says matches what the SET of s would match.
LEMMA TreatsMatches ==
    ASSUME NEW x, NEW s \in RuleSpecs, Treats(x, s)
    PROVE  SameMatch(Set(s), x)
<1>1. \A f \in KeyFields : SameText(At(Set(s).clauses, f), At(Shown(x, TRUE), f))
  BY DEF Treats, Set, KeyFields
<1>2. \A f \in KeyFields : At(Shown(x, TRUE), f) = At(x.clauses, f)
  BY ShownClauses
<1>3. x.type = Set(s).type
  BY DEF Treats, Set
<1>4. QED
  BY <1>1, <1>2, <1>3 DEF SameMatch

\* The rule a SET replaces matches the same as the rule it sets.
LEMMA ReplacedMatches ==
    ASSUME NEW a, NEW x, NEW rule, SameMatch(a, x), Identity(x) = Identity(rule)
    PROVE  SameMatch(a, rule)
<1>1. x.type = rule.type
  BY DEF Identity
<1>2. [f \in DOMAIN x.clauses \cap KeyFields |-> x.clauses[f]]
          = [f \in DOMAIN rule.clauses \cap KeyFields |-> rule.clauses[f]]
  BY DEF Identity
<1>3. DOMAIN x.clauses \cap KeyFields = DOMAIN rule.clauses \cap KeyFields
  BY <1>2
<1>4. \A f \in DOMAIN x.clauses \cap KeyFields : x.clauses[f] = rule.clauses[f]
  BY <1>2, <1>3
<1>5. \A f \in KeyFields : At(x.clauses, f) = At(rule.clauses, f)
  BY <1>3, <1>4 DEF At
<1>6. QED
  BY <1>1, <1>5 DEF SameMatch

\* So a SET takes nothing from the resources it does not disturb.
LEMMA SetKeeps ==
    ASSUME AuthInv, NEW rule, NEW d \in Rules,
           chlauth' = SetRule(chlauth, rule), spec' = spec,
           ~SameMatch(Set(spec[d]), rule), Held(d)
    PROVE  Held(d)'
<1>1. PICK x \in chlauth : Treats(x, spec[d])
  BY DEF Held
<1>2. spec[d] \in RuleSpecs
  BY DEF AuthInv, Frame
<1>3. Identity(x) # Identity(rule)
  BY <1>1, <1>2, TreatsMatches, ReplacedMatches
<1>4. x \in chlauth'
  BY <1>3 DEF SetRule
<1>5. QED
  BY <1>1, <1>4 DEF Held

-----------------------------------------------------------------------------
(***************************************************************************)
(* Every step preserves the invariant                                      *)
(***************************************************************************)

LEMMA InitHolds == Init => AuthInv
<1> SUFFICES ASSUME Init PROVE AuthInv
  OBVIOUS
<1>1. DOMAIN spec = Rules /\ \A c \in Rules : spec[c] \in RuleSpecs
  BY RuleSpecsAssumption DEF Init
<1>2. disturbed \in [Rules -> BOOLEAN] /\ mixed \in [Rules -> BOOLEAN] /\ IsFiniteSet(chlauth)
  BY FS_EmptySet DEF Init
<1>3. Frame
  BY <1>1, <1>2, BoundAssumption, SMTT(30) DEF Init, Frame, Rulebook, Reconciling
<1>4. \A c \in Rules : Reliable(c)
  BY DEF Init, Reliable, Idle
<1>5. QED
  BY <1>3, <1>4 DEF AuthInv

\* A resource whose reconcile, spec and status stay as they are, and that is
\* disturbed if its rule may be gone, may rely on what it relied on before.
LEMMA Bystander ==
    ASSUME NEW d \in Rules, Reliable(d),
           r'[d] = r[d], spec'[d] = spec[d], status'[d] = status[d],
           mixed'[d] = mixed[d],
           ~disturbed'[d] => ~disturbed[d] /\ (Held(d) => Held(d)')
    PROVE  Reliable(d)'
  BY DEF Reliable

\* What GET makes of an answer: texts, and, when a single rule was asked for and
\* needs no update, a rule that does what the spec says.
LEMMA AnswerMeans ==
    ASSUME Frame, NEW c \in Rules, NEW withDescr \in BOOLEAN,
           NEW answer \in Listings({Shown(x, withDescr) : x \in Matching(spec[c])})
    PROVE  LET state == channelAuthStateFromAttributes(spec[c], MergedAttributes(answer))
           IN  /\ IsState(state)
               /\ (/\ Matching(spec[c]) # {} /\ ~(\E x, y \in Matching(spec[c]) : x # y)
                   /\ ~ChannelAuthNeedsUpdate(spec[c], state)) => Held(c)
<1> DEFINE M == Matching(spec[c])
           V == {Shown(x, withDescr) : x \in M}
           attrs == MergedAttributes(answer)
           state == channelAuthStateFromAttributes(spec[c], attrs)
<1>1. spec[c] \in RuleSpecs
  BY DEF Frame
<1>2. M \subseteq chlauth /\ \A x \in M : x.type = spec[c].type
  BY DEF Matching
<1>3. \A x \in M : /\ \E t \in RuleSpecs : x = Set(t)
                   /\ DOMAIN x.clauses \subseteq ClausesOf(x.type)
  BY <1>2 DEF Frame, Rulebook
<1>4. IsFiniteSet(V)
  <2> DEFINE show == [x \in M |-> Shown(x, withDescr)]
  <2>1. IsFiniteSet(M)
    BY <1>2, FS_Subset DEF Frame, Rulebook
  <2>2. show \in Surjection(M, V)
    BY DEF Surjection
  <2> HIDE DEF M, V, show
  <2>3. QED
    BY <2>1, <2>2, FS_Surjection
<1>5. answer \in Listings(V)
  OBVIOUS
<1> HIDE DEF V, M
<1>6. /\ \A f : At(attrs, f) = Empty \/ \E v \in V : At(attrs, f) = At(v, f)
      /\ \A v : V = {v} => \A f : At(attrs, f) = At(v, f)
  BY <1>4, <1>5, Merged
<1> HIDE DEF attrs
<1>7. \A x \in M : \A f : IsText(At(Shown(x, withDescr), f))
  BY <1>3, SetClauses, ShownClauses
<1>8. IsState(state)
  <2>1. \A f : IsText(At(attrs, f))
    BY <1>6, <1>7, EmptyText DEF V
  <2>2. QED
    BY <1>1, <2>1, StateTexts
<1>9. ASSUME M # {}, ~(\E x, y \in M : x # y), ~ChannelAuthNeedsUpdate(spec[c], state)
      PROVE  Held(c)
  <2>1. PICK x \in M : V = {Shown(x, withDescr)}
    BY <1>9 DEF V
  <2>2. state = channelAuthStateFromAttributes(spec[c], Shown(x, withDescr))
    BY <1>1, <1>6, <2>1, StateOf
  <2>3. PICK t \in RuleSpecs : x = Set(t)
    BY <1>3
  <2>4. Treats(x, spec[c])
    BY <1>1, <1>2, <1>3, <1>9, <2>2, <2>3, NoDriftTreats
  <2>5. QED
    BY <1>2, <2>4 DEF Held
<1>10. QED
  BY <1>8, <1>9 DEF attrs, M

LEMMA GetKeeps ==
    ASSUME AuthInv, NEW c \in Rules, GetChannelAuth(c)
    PROVE  AuthInv'
<1>1. Frame /\ \A d \in Rules : Reliable(d)
  BY DEF AuthInv
<1>2. UNCHANGED <<world, spec, status, chlauth, authorityVars, changes>>
  BY DEF GetChannelAuth
<1>3. /\ disturbed' = [disturbed EXCEPT ![c] = FALSE]
      /\ mixed' = [mixed EXCEPT ![c] = \E x, y \in Matching(spec[c]) : x # y]
  BY DEF GetChannelAuth
<1>4. spec[c] \in RuleSpecs /\ DOMAIN r = Rules
  BY <1>1 DEF Frame
<1>5. /\ DOMAIN r' = Rules /\ \A d \in Rules \ {c} : r'[d] = r[d]
      /\ r'[c].pc = "ensure" /\ r'[c].want = spec[c]
      /\ \/ r'[c].seen.found = FALSE
         \/ /\ r'[c].seen.found = TRUE /\ IsState(r'[c].seen.state)
            /\ (~mixed'[c] /\ ~ChannelAuthNeedsUpdate(spec[c], r'[c].seen.state)) => Held(c)
  <2>1. CASE r' = [r EXCEPT ![c] = [pc |-> "ensure", want |-> spec[c], seen |-> NotFound]]
    BY <1>4, <2>1 DEF NotFound
  <2>2. CASE Matching(spec[c]) # {} /\ \E withDescr \in BOOLEAN :
               \E answer \in Listings({Shown(x, withDescr) : x \in Matching(spec[c])}) :
                  r' = [r EXCEPT ![c] =
                           [pc |-> "ensure", want |-> spec[c],
                            seen |-> [found |-> TRUE,
                                      state |-> channelAuthStateFromAttributes(
                                                    spec[c], MergedAttributes(answer))]]]
    <3> DEFINE next(answer) ==
                  [r EXCEPT ![c] =
                     [pc |-> "ensure", want |-> spec[c],
                      seen |-> [found |-> TRUE,
                                state |-> channelAuthStateFromAttributes(
                                              spec[c], MergedAttributes(answer))]]]
    <3>1. PICK withDescr \in BOOLEAN :
             \E answer \in Listings({Shown(x, withDescr) : x \in Matching(spec[c])}) :
                r' = next(answer)
      BY <2>2
    <3>2. PICK answer \in Listings({Shown(x, withDescr) : x \in Matching(spec[c])}) :
             r' = next(answer)
      BY <3>1
    <3> DEFINE state == channelAuthStateFromAttributes(spec[c], MergedAttributes(answer))
    <3>3. mixed'[c] <=> \E x, y \in Matching(spec[c]) : x # y
      BY <1>1, <1>3 DEF Frame
    <3>4. /\ IsState(state)
          /\ (~mixed'[c] /\ ~ChannelAuthNeedsUpdate(spec[c], state)) => Held(c)
      BY <1>1, <2>2, <3>3, AnswerMeans
    <3> HIDE DEF state
    <3>5. /\ DOMAIN r' = Rules /\ \A d \in Rules \ {c} : r'[d] = r[d]
          /\ r'[c] = [pc |-> "ensure", want |-> spec[c], seen |-> [found |-> TRUE, state |-> state]]
      BY <1>4, <3>2 DEF state
    <3>6. QED
      BY <3>4, <3>5, SMTT(30)
  <2>3. QED
    BY <2>1, <2>2 DEF GetChannelAuth
<1>6. Reconciling(r'[c])
  BY <1>4, <1>5 DEF Reconciling
<1>7. disturbed' \in [Rules -> BOOLEAN] /\ mixed' \in [Rules -> BOOLEAN]
  BY <1>1, <1>3, Zenon DEF Frame
<1>8. Frame'
  BY <1>1, <1>2, <1>5, <1>6, <1>7 DEF Frame, Rulebook, authorityVars
<1>9. \A d \in Rules : Held(d)' <=> Held(d)
  BY <1>2 DEF Held
<1>10. Reliable(c)'
  BY <1>2, <1>5, <1>9 DEF Reliable
<1>11. ASSUME NEW d \in Rules \ {c}
       PROVE  Reliable(d)'
  <2>1. disturbed'[d] = disturbed[d] /\ mixed'[d] = mixed[d]
    BY <1>1, <1>3 DEF Frame
  <2>2. QED
    BY <1>1, <1>2, <1>5, <1>9, <2>1, Bystander
<1>12. QED
  BY <1>8, <1>10, <1>11 DEF AuthInv

\* The end of a reconcile of c: c is idle, its condition is new, and either the
\* rule it wants was SET, disturbing others, or nothing else happened.
LEMMA EndKeeps ==
    ASSUME AuthInv, NEW c \in Rules, NEW condition \in {"Synced", "Error"},
           r[c].pc = "ensure" \/ chlauth' = chlauth,
           r' = [r EXCEPT ![c] = Idle], status' = [status EXCEPT ![c] = condition],
           UNCHANGED <<world, spec, authorityVars>>, changes' \in 0..MaxChanges,
           disturbed' \in [Rules -> BOOLEAN], \A d \in Rules : disturbed[d] => disturbed'[d],
           mixed' \in [Rules -> BOOLEAN], \A d \in Rules \ {c} : mixed'[d] = mixed[d],
           \/ chlauth' = chlauth
           \/ /\ chlauth' = SetRule(chlauth, Set(r[c].want))
              /\ DOMAIN Set(r[c].want).clauses \subseteq ClausesOf(Set(r[c].want).type)
              /\ \A d \in Rules \ {c} :
                    SameMatch(Set(spec[d]), Set(r[c].want)) => disturbed'[d],
           (condition = "Synced" /\ ~disturbed[c] /\ ~mixed'[c]) => Held(c)'
    PROVE  AuthInv'
<1>1. Frame /\ \A d \in Rules : Reliable(d)
  BY DEF AuthInv
<1>2. r[c].pc = "ensure" => r[c].want \in RuleSpecs
  BY <1>1, SMTT(30) DEF Frame, Reconciling, Idle
<1>3. Rulebook'
  <2>1. CASE chlauth' = chlauth
    BY <1>1, <2>1 DEF Frame, Rulebook
  <2>2. CASE chlauth' # chlauth
    <3> DEFINE others == {x \in chlauth : Identity(x) # Identity(Set(r[c].want))}
    <3>1. chlauth' = others \cup {Set(r[c].want)} /\ others \subseteq chlauth
      BY <2>2 DEF SetRule
    <3> HIDE DEF others
    <3>2. IsFiniteSet(chlauth')
      BY <1>1, <3>1, FS_Subset, FS_AddElement DEF Frame, Rulebook
    <3>3. QED
      BY <1>1, <1>2, <2>2, <3>1, <3>2 DEF Frame, Rulebook
  <2>3. QED
    BY <2>1, <2>2
<1>4. /\ DOMAIN r' = Rules /\ r'[c] = Idle /\ \A d \in Rules \ {c} : r'[d] = r[d]
      /\ DOMAIN status' = Rules /\ status'[c] = condition
      /\ \A d \in Rules \ {c} : status'[d] = status[d]
  BY <1>1 DEF Frame
<1>5. \A d \in Rules : Reconciling(r'[d]) /\ status'[d] \in {"none", "Synced", "Error"}
  BY <1>1, <1>4 DEF Frame, Reconciling
<1>6. Frame'
  BY <1>1, <1>3, <1>4, <1>5 DEF Frame, authorityVars
<1>7. Reliable(c)'
  BY <1>4 DEF Reliable, Idle
<1>8. ASSUME NEW d \in Rules \ {c}
      PROVE  Reliable(d)'
  <2>1. ASSUME ~disturbed'[d], Held(d)
        PROVE  Held(d)'
    <3>1. CASE chlauth' = chlauth
      BY <2>1, <3>1 DEF Held
    <3>2. CASE chlauth' # chlauth
      <4>1. ~SameMatch(Set(spec[d]), Set(r[c].want))
        BY <2>1, <3>2
      <4>2. QED
        BY <2>1, <3>2, <4>1, SetKeeps
    <3>3. QED
      BY <3>1, <3>2
  <2>2. QED
    BY <1>1, <1>4, <2>1, Bystander
<1>9. QED
  BY <1>6, <1>7, <1>8 DEF AuthInv

\* Disturb only adds, and it adds those that match the rule.
LEMMA DisturbAdds ==
    ASSUME disturbed \in [Rules -> BOOLEAN], NEW c, NEW set, NEW rule,
           disturbed' = Disturb(c, set, rule)
    PROVE  /\ disturbed' \in [Rules -> BOOLEAN]
           /\ \A d \in Rules : disturbed[d] => disturbed'[d]
           /\ set => \A d \in Rules \ {c} : SameMatch(Set(spec[d]), rule) => disturbed'[d]
  BY Zenon DEF Disturb, Set

LEMMA EnsureKeeps ==
    ASSUME AuthInv, NEW c \in Rules, ensureChannelAuth(c)
    PROVE  AuthInv'
<1> DEFINE needsUpdate == r[c].seen.found => ChannelAuthNeedsUpdate(r[c].want, r[c].seen.state)
           rule == Set(r[c].want)
           refused == needsUpdate /\ ~(DOMAIN rule.clauses \subseteq ClausesOf(rule.type))
           condition == IF refused THEN "Error" ELSE "Synced"
           changed == chlauth' # chlauth
<1>1. Frame /\ Reliable(c)
  BY DEF AuthInv
<1>2. /\ r[c].pc = "ensure"
      /\ chlauth' = IF needsUpdate /\ ~refused THEN SetRule(chlauth, rule) ELSE chlauth
      /\ status' = [status EXCEPT ![c] = condition]
      /\ disturbed' = Disturb(c, changed, rule)
      /\ mixed' = [mixed EXCEPT ![c] = @ /\ ~needsUpdate]
      /\ r' = [r EXCEPT ![c] = Idle]
      /\ UNCHANGED <<world, spec, authorityVars, changes>>
  BY DEF ensureChannelAuth, Set
<1>3. r[c].want \in RuleSpecs
  BY <1>1, <1>2, SMTT(30) DEF Frame, Reconciling, Idle
<1>4. condition \in {"Synced", "Error"}
  OBVIOUS
<1> HIDE DEF changed
<1>5. /\ disturbed' \in [Rules -> BOOLEAN]
      /\ \A d \in Rules : disturbed[d] => disturbed'[d]
      /\ changed => \A d \in Rules \ {c} : SameMatch(Set(spec[d]), rule) => disturbed'[d]
  <2>1. disturbed \in [Rules -> BOOLEAN]
    BY <1>1 DEF Frame
  <2> HIDE DEF rule
  <2>2. QED
    BY <1>2, <2>1, DisturbAdds, Zenon
<1>6. ASSUME condition = "Synced", ~disturbed[c], ~mixed'[c]
      PROVE  Held(c)'
  <2>1. r[c].want = spec[c]
    BY <1>1, <1>2, <1>6 DEF Reliable
  <2>2. CASE needsUpdate
    <3>1. rule \in chlauth'
      BY <1>2, <1>6, <2>2 DEF SetRule
    <3>2. Treats(rule, spec'[c])
      BY <1>2, <1>3, <2>1, SetTreats
    <3>3. QED
      BY <3>1, <3>2 DEF Held
  <2>3. CASE ~needsUpdate
    <3>1. ~mixed[c]
      BY <1>1, <1>2, <1>6, <2>3 DEF Frame
    <3>2. Held(c) /\ chlauth' = chlauth /\ spec' = spec
      BY <1>1, <1>2, <1>6, <2>3, <3>1 DEF Reliable
    <3>3. QED
      BY <3>2 DEF Held
  <2>4. QED
    BY <2>2, <2>3
<1>7. \/ chlauth' = chlauth
      \/ /\ chlauth' = SetRule(chlauth, rule)
         /\ DOMAIN rule.clauses \subseteq ClausesOf(rule.type)
         /\ \A d \in Rules \ {c} : SameMatch(Set(spec[d]), rule) => disturbed'[d]
  <2>1. CASE chlauth' = chlauth
    BY <2>1
  <2>2. CASE chlauth' # chlauth
    <3>1. needsUpdate /\ ~refused
      BY <1>2, <2>2
    <3>2. \A d \in Rules \ {c} : SameMatch(Set(spec[d]), rule) => disturbed'[d]
      BY <1>5, <2>2 DEF changed
    <3>3. QED
      BY <1>2, <3>1, <3>2
  <2>3. QED
    BY <2>1, <2>2
<1>8. changes' \in 0..MaxChanges
  BY <1>1, <1>2 DEF Frame
<1>9. mixed' \in [Rules -> BOOLEAN] /\ \A d \in Rules \ {c} : mixed'[d] = mixed[d]
  <2>1. mixed \in [Rules -> BOOLEAN]
    BY <1>1 DEF Frame
  <2>2. PICK b \in BOOLEAN : mixed' = [mixed EXCEPT ![c] = b]
    BY <1>2, <2>1
  <2>3. QED
    BY <2>1, <2>2
<1> HIDE DEF condition, refused, needsUpdate
<1>10. QED
  BY <1>2, <1>4, <1>5, <1>6, <1>7, <1>8, <1>9, EndKeeps

LEMMA InterfereBound ==
    ASSUME changes \in 0..MaxChanges, Interfere
    PROVE  changes' \in 0..MaxChanges
  BY BoundAssumption, SMTT(30) DEF Interfere

LEMMA FailKeeps ==
    ASSUME AuthInv, NEW c \in Rules, CommandFails(c)
    PROVE  AuthInv'
<1> DEFINE rule == Set(r[c].want)
<1>1. Frame
  BY DEF AuthInv
<1>2. changes' \in 0..MaxChanges
  BY <1>1, InterfereBound DEF CommandFails, Frame
<1>3. disturbed \in [Rules -> BOOLEAN] /\ mixed \in [Rules -> BOOLEAN]
  BY <1>1 DEF Frame
<1>4. /\ r' = [r EXCEPT ![c] = Idle] /\ status' = [status EXCEPT ![c] = "Error"]
      /\ UNCHANGED <<world, spec, mixed, authorityVars>>
  BY DEF CommandFails
<1>5. mixed' \in [Rules -> BOOLEAN] /\ \A d \in Rules \ {c} : mixed'[d] = mixed[d]
  BY <1>3, <1>4
<1>6. CASE UNCHANGED <<chlauth, disturbed>>
  BY <1>2, <1>3, <1>4, <1>5, <1>6, EndKeeps
<1>7. CASE /\ r[c].pc = "ensure" /\ DOMAIN rule.clauses \subseteq ClausesOf(rule.type)
           /\ chlauth' = SetRule(chlauth, rule)
           /\ disturbed' = Disturb(c, TRUE, rule)
  <2>1. /\ disturbed' \in [Rules -> BOOLEAN]
        /\ \A d \in Rules : disturbed[d] => disturbed'[d]
        /\ \A d \in Rules \ {c} : SameMatch(Set(spec[d]), rule) => disturbed'[d]
    BY <1>3, <1>7, DisturbAdds
  <2>2. QED
    BY <1>2, <1>4, <1>5, <1>7, <2>1, EndKeeps
<1>8. QED
  BY <1>6, <1>7 DEF CommandFails, Set

LEMMA EditKeeps ==
    ASSUME AuthInv, NEW c \in Rules, EditRule(c)
    PROVE  AuthInv'
<1>1. Frame /\ \A d \in Rules : Reliable(d)
  BY DEF AuthInv
<1>2. PICK s \in RuleSpecs : spec' = [spec EXCEPT ![c] = s]
  BY DEF EditRule
<1>3. /\ disturbed' = [disturbed EXCEPT ![c] = TRUE]
      /\ UNCHANGED <<world, status, r, chlauth, mixed, authorityVars>>
  BY DEF EditRule
<1>4. changes' \in 0..MaxChanges
  BY <1>1, InterfereBound DEF EditRule, Frame
<1>5. DOMAIN spec' = Rules /\ \A d \in Rules : spec'[d] \in RuleSpecs
  BY <1>1, <1>2 DEF Frame
<1>6. disturbed' \in [Rules -> BOOLEAN]
  BY <1>1, <1>3, Zenon DEF Frame
<1>7. Frame'
  BY <1>1, <1>3, <1>4, <1>5, <1>6 DEF Frame, Rulebook, authorityVars
<1>8. disturbed'[c] = TRUE
  BY <1>1, <1>3 DEF Frame
<1>9. Reliable(c)'
  BY <1>8 DEF Reliable
<1>10. ASSUME NEW d \in Rules \ {c}
       PROVE  Reliable(d)'
  <2>1. spec'[d] = spec[d] /\ disturbed'[d] = disturbed[d]
    BY <1>1, <1>2, <1>3 DEF Frame
  <2>2. Held(d) => Held(d)'
    BY <1>3, <2>1 DEF Held
  <2>3. QED
    BY <1>1, <1>3, <2>1, <2>2, Bystander
<1>11. QED
  BY <1>7, <1>9, <1>10 DEF AuthInv

LEMMA RemoveKeeps ==
    ASSUME AuthInv, RemoveRule
    PROVE  AuthInv'
<1>1. Frame
  BY DEF AuthInv
<1>2. /\ chlauth' \subseteq chlauth /\ disturbed' = [c \in Rules |-> TRUE]
      /\ UNCHANGED <<world, spec, status, r, mixed, authorityVars>>
  BY DEF RemoveRule
<1>3. changes' \in 0..MaxChanges
  BY <1>1, InterfereBound DEF RemoveRule, Frame
<1>4. disturbed' \in [Rules -> BOOLEAN]
  BY <1>2, Zenon
<1>5. Rulebook'
  BY <1>1, <1>2, FS_Subset DEF Frame, Rulebook
<1>6. Frame'
  BY <1>1, <1>2, <1>3, <1>4, <1>5 DEF Frame, authorityVars
<1>7. \A c \in Rules : Reliable(c)'
  BY <1>2 DEF Reliable
<1>8. QED
  BY <1>6, <1>7 DEF AuthInv

\* The steps of an authority record leave the rules alone.
LEMMA RulesAlone ==
    ASSUME AuthInv, UNCHANGED <<world, ruleVars>>, changes' \in 0..MaxChanges,
           DOMAIN record' = {"pc", "verdict", "seen"},
           record'.verdict \in {"none", "yes", "no", "panic"}
    PROVE  AuthInv'
<1>1. Frame'
  BY DEF AuthInv, Frame, Rulebook, ruleVars
<1>2. \A c \in Rules : Reliable(c)'
  BY DEF AuthInv, Reliable, Held, ruleVars
<1>3. QED
  BY <1>1, <1>2 DEF AuthInv

LEMMA AuthorityKeeps ==
    ASSUME AuthInv, GetAuthority \/ ensureAuthority \/ AlterAuthority
    PROVE  AuthInv'
<1>1. /\ changes \in 0..MaxChanges /\ DOMAIN record = {"pc", "verdict", "seen"}
      /\ record.verdict \in {"none", "yes", "no", "panic"}
  BY DEF AuthInv, Frame
<1>2. CASE GetAuthority
  <2>1. PICK answer : record' = [pc |-> "ensure", verdict |-> "none", seen |-> answer]
    BY <1>2 DEF GetAuthority
  <2>2. QED
    BY <1>1, <1>2, <2>1, RulesAlone DEF GetAuthority
<1>3. CASE ensureAuthority
  <2> DEFINE equal == IF record.seen.found
                      THEN authoritySetsEqual(list, record.seen.listed) ELSE "no"
  <2>1. \A a, b : authoritySetsEqual(a, b) \in {"yes", "no", "panic"}
    BY DEF authoritySetsEqual
  <2>2. equal \in {"yes", "no", "panic"}
    BY <2>1
  <2>3. record' = [record EXCEPT !.pc = "idle", !.verdict = equal]
    BY <1>3 DEF ensureAuthority
  <2> HIDE DEF equal
  <2>4. DOMAIN record' = {"pc", "verdict", "seen"} /\ record'.verdict = equal
    BY <1>1, <2>3
  <2>5. QED
    BY <1>1, <1>3, <2>2, <2>4, RulesAlone DEF ensureAuthority
<1>4. CASE AlterAuthority
  <2>1. changes' \in 0..MaxChanges
    BY <1>1, <1>4, InterfereBound DEF AlterAuthority
  <2>2. QED
    BY <1>1, <1>4, <2>1, RulesAlone DEF AlterAuthority
<1>5. QED
  BY <1>2, <1>3, <1>4

LEMMA StepKeeps == AuthInv /\ [Next]_vars => AuthInv'
<1> SUFFICES ASSUME AuthInv, [Next]_vars PROVE AuthInv'
  OBVIOUS
<1>1. ASSUME NEW c \in Rules, Reconcile(c) PROVE AuthInv'
  BY <1>1, GetKeeps, EnsureKeeps DEF Reconcile
<1>2. ASSUME NEW c \in Rules, CommandFails(c) PROVE AuthInv'
  BY <1>2, FailKeeps
<1>3. ASSUME NEW c \in Rules, EditRule(c) PROVE AuthInv'
  BY <1>3, EditKeeps
<1>4. CASE RemoveRule
  BY <1>4, RemoveKeeps
<1>5. CASE GetAuthority \/ ensureAuthority \/ AlterAuthority
  BY <1>5, AuthorityKeeps
<1>6. CASE UNCHANGED vars
  <2>1. UNCHANGED <<world, ruleVars, record, changes>>
    BY <1>6 DEF vars, authorityVars
  <2>2. QED
    BY <2>1, RulesAlone DEF AuthInv, Frame
<1>7. QED
  BY <1>1, <1>2, <1>3, <1>4, <1>5, <1>6 DEF Next

-----------------------------------------------------------------------------
(***************************************************************************)
(* The theorems                                                            *)
(***************************************************************************)

\* The invariant holds in every state that reconciles, administrators and
\* faults reach.
THEOREM AuthInvariant == Spec => []AuthInv
  BY InitHolds, StepKeeps, PTL DEF Spec

\* The reconciles of ensureChannelAuth and ensureAuthority keep to their types;
\* the queue manager holds only rules with clauses their type has.
THEOREM AuthTypes == Spec => []TypeOK
<1>1. AuthInv => TypeOK
  <2> SUFFICES ASSUME AuthInv PROVE TypeOK
    OBVIOUS
  <2>1. Frame
    BY DEF AuthInv
  <2>2. \A c \in Rules :
           /\ r[c] = Idle \/ (r[c].pc = "ensure" /\ r[c].want \in RuleSpecs)
           /\ r[c].seen.found => IsState(r[c].seen.state)
    BY <2>1, SMTT(30) DEF Frame, Reconciling, Idle, NotFound
  <2>3. ASSUME NEW x \in chlauth
        PROVE  x.type \in RuleTypes /\ DOMAIN x.clauses \subseteq ClausesOf(x.type)
    <3>1. PICK s \in RuleSpecs : x = Set(s)
      BY <2>1 DEF Frame, Rulebook
    <3>2. x.type \in RuleTypes
      BY <3>1, SetClauses, RuleSpecsAssumption
    <3>3. QED
      BY <2>1, <3>2 DEF Frame, Rulebook
  <2>4. QED
    BY <2>1, <2>2, <2>3 DEF Frame, TypeOK, IsState
<1>2. QED
  BY <1>1, AuthInvariant, PTL

\* Synced=True of a ChannelAuthRule that nobody disturbed since the GET means
\* that the queue manager has a rule that does what the spec says, although
\* ChannelAuthNeedsUpdate compares fields while SET sends clauses, and any number
\* of other resources SET rules of the channel between the GET and the SET and
\* afterwards.  When GET took several rules for one the theorem holds for the
\* reconciles that SET their rule; firstObjectAttributes leaves no more to prove.
THEOREM RuleSynced == Spec => []RuleSyncedMeansSet
<1>1. AuthInv => RuleSyncedMeansSet
  BY DEF AuthInv, Reliable, Held, RuleSyncedMeansSet
<1>2. QED
  BY <1>1, AuthInvariant, PTL

\* ATTRIBUTE_RECONCILIATION, "spec.authorities set must match observed set
\* (case-insensitive, order-independent)": for lists of any length that name no
\* authority twice, and any order of the answer, AuthorityNeedsUpdate decides as
\* a comparison of sets does, and its loop never indexes past the end of a list.
THEOREM AuthoritiesCompared == Spec => []AuthorityComparison
  BY RecordInit, RecordStep, RecordCompared, PTL DEF Spec
=============================================================================
