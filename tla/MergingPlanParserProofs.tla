----------------------- MODULE MergingPlanParserProofs -----------------------
(***************************************************************************)
(* Both parsers make the same tree of every text that is grammatical and   *)
(* has no section with one child; so a merging plan reaches the code       *)
(* generator as it was written, through either program and from any number *)
(* of files, and every crash has one of the known reasons.                 *)
(***************************************************************************)
EXTENDS PluginSessionProofs

-----------------------------------------------------------------------------
(***************************************************************************)
(* What the grammar accepts.                                               *)
(***************************************************************************)
LEMMA AcceptedEnds ==
  ASSUME NEW text, Len(text) \in Nat
  PROVE  /\ Accepted(text) \in 0 .. Len(text)
         /\ \A j \in 1 .. Accepted(text) : Fits(text, j)
         /\ Accepted(text) < Len(text) => ~Fits(text, Accepted(text) + 1)
<1> DEFINE W == {k \in 0 .. Len(text) : k < Len(text) => ~Fits(text, k + 1)}
<1>1. PICK m \in W : \A k \in W : m <= k
  <2>1. Len(text) \in W /\ W \in SUBSET Nat
    OBVIOUS
  <2>2. QED
    BY <2>1, LeastOf
<1>2. m \in 0 .. Len(text) /\ (m < Len(text) => ~Fits(text, m + 1))
  BY <1>1
<1>3. ASSUME NEW j \in 1 .. m
      PROVE  Fits(text, j)
  <2>1. j - 1 \in 0 .. Len(text) /\ j - 1 < Len(text) /\ ~(m <= j - 1) /\ j - 1 + 1 = j
    BY <1>2
  <2>2. j - 1 \notin W
    BY <1>1, <2>1
  <2>3. QED
    BY <2>1, <2>2
<1>4. \E k \in 0 .. Len(text) :
        /\ \A j \in 1 .. k : Fits(text, j)
        /\ k < Len(text) => ~Fits(text, k + 1)
  BY <1>2, <1>3
<1>5. QED
  BY <1>4 DEF Accepted

LEMMA AllFits ==
  ASSUME NEW text, Len(text) \in Nat, Grammatical(text), NEW k \in 1 .. Len(text)
  PROVE  Fits(text, k)
  BY AcceptedEnds DEF Grammatical

\* What is accepted is a program.
LEMMA AcceptedFits ==
  ASSUME NEW S, NEW text \in Seq(S)
  PROVE  SubSeq(text, 1, Accepted(text)) \in Seq(S)
<1>1. Len(text) \in Nat
  BY LenProperties
<1>2. Accepted(text) \in 0 .. Len(text)
  BY <1>1, AcceptedEnds
<1>3. 1 \in 1 .. Len(text) + 1 /\ Accepted(text) \in 1 - 1 .. Len(text)
  BY <1>1, <1>2
<1>4. QED
  BY <1>3, Slice

-----------------------------------------------------------------------------
(***************************************************************************)
(* The children of a header: the items of a type that follow it.           *)
(***************************************************************************)
IsLastChild(text, h, t, k) ==
  /\ \A j \in h + 1 .. k : text[j].t = t
  /\ k < Len(text) => text[k + 1].t # t

LEMMA LastChildIs ==
  ASSUME NEW text, Len(text) \in Nat, NEW h \in 0 .. Len(text), NEW t
  PROVE  LastChild(text, h, t) \in h .. Len(text) /\ IsLastChild(text, h, t, LastChild(text, h, t))
<1> DEFINE W == {k \in h .. Len(text) : k < Len(text) => text[k + 1].t # t}
<1>1. PICK m \in W : \A k \in W : m <= k
  <2>1. Len(text) \in W /\ W \in SUBSET Nat
    OBVIOUS
  <2>2. QED
    BY <2>1, LeastOf
<1>2. m \in h .. Len(text) /\ (m < Len(text) => text[m + 1].t # t)
  BY <1>1
<1>3. ASSUME NEW j \in h + 1 .. m
      PROVE  text[j].t = t
  <2>1. j - 1 \in h .. Len(text) /\ j - 1 < Len(text) /\ ~(m <= j - 1) /\ j - 1 + 1 = j
    BY <1>2
  <2>2. j - 1 \notin W
    BY <1>1, <2>1
  <2>3. QED
    BY <2>1, <2>2
<1>4. \E k \in h .. Len(text) : IsLastChild(text, h, t, k)
  BY <1>2, <1>3 DEF IsLastChild
<1>5. LastChild(text, h, t) = CHOOSE k \in h .. Len(text) : IsLastChild(text, h, t, k)
  BY DEF LastChild, IsLastChild
<1>6. QED
  BY <1>4, <1>5

LEMMA LastChildOnly ==
  ASSUME NEW text, Len(text) \in Nat, NEW h \in 0 .. Len(text), NEW t,
         NEW k \in h .. Len(text), IsLastChild(text, h, t, k)
  PROVE  LastChild(text, h, t) = k
<1>1. PICK m : m = LastChild(text, h, t)
  OBVIOUS
<1>2. m \in h .. Len(text) /\ IsLastChild(text, h, t, m)
  BY <1>1, LastChildIs
<1>3. ~(k < m)
  <2>1. k < m => k + 1 \in h + 1 .. m /\ k < Len(text)
    BY <1>2
  <2>2. QED
    BY <1>2, <2>1 DEF IsLastChild
<1>4. ~(m < k)
  <2>1. m < k => m + 1 \in h + 1 .. k /\ m < Len(text)
    BY <1>2
  <2>2. QED
    BY <1>2, <2>1 DEF IsLastChild
<1>5. QED
  BY <1>1, <1>2, <1>3, <1>4

LEMMA ChildrenTyped ==
  ASSUME NEW S, NEW text \in Seq(S), NEW h \in 0 .. Len(text), NEW t
  PROVE  /\ ChildrenOf(text, h, t) \in Seq(S)
         /\ \A i \in 1 .. Len(ChildrenOf(text, h, t)) : ChildrenOf(text, h, t)[i].t = t
<1>1. Len(text) \in Nat
  BY LenProperties
<1>2. PICK e : e = LastChild(text, h, t)
  OBVIOUS
<1>3. e \in h .. Len(text) /\ \A j \in h + 1 .. e : text[j].t = t
  BY <1>1, <1>2, LastChildIs DEF IsLastChild
<1>4. h + 1 \in 1 .. Len(text) + 1 /\ e \in h + 1 - 1 .. Len(text) /\ h + 1 \in Int /\ e \in Int
  BY <1>1, <1>3
<1>5. \A i \in h + 1 .. e : text[i] \in S
  <2>1. \A i \in h + 1 .. e : i \in 1 .. Len(text)
    BY <1>1, <1>3
  <2>2. QED
    BY <2>1, ElementOfSeq
<1>6. PICK c : c = SubSeq(text, h + 1, e)
  OBVIOUS
<1>7. c \in Seq(S) /\ Len(c) = e - (h + 1) + 1
  BY <1>4, <1>6, Slice
<1>8. \A i \in 1 .. e - (h + 1) + 1 : c[i] = text[h + 1 + i - 1]
  BY <1>4, <1>5, <1>6, SubSeqProperties
<1>9. \A i \in 1 .. Len(c) : h + 1 + i - 1 \in h + 1 .. e
  BY <1>1, <1>3, <1>7
<1>10. \A i \in 1 .. Len(c) : c[i].t = t
  BY <1>3, <1>7, <1>8, <1>9
<1>11. QED
  BY <1>2, <1>6, <1>7, <1>10 DEF ChildrenOf

LEMMA NoChildren ==
  ASSUME NEW S, NEW text \in Seq(S), NEW h \in 0 .. Len(text), NEW t,
         h < Len(text) => text[h + 1].t # t
  PROVE  ChildrenOf(text, h, t) = <<>>
<1>1. Len(text) \in Nat
  BY LenProperties
<1>2. h \in h .. Len(text) /\ h + 1 .. h = {} /\ h < h + 1 /\ h \in Int /\ h + 1 \in Int
  BY <1>1
<1>3. IsLastChild(text, h, t, h)
  BY <1>2 DEF IsLastChild
<1>4. LastChild(text, h, t) = h
  BY <1>1, <1>2, <1>3, LastChildOnly
<1>5. SubSeq(text, h + 1, h) = <<>>
  BY <1>2, SubSeqEmpty
<1>6. QED
  BY <1>4, <1>5 DEF ChildrenOf

LEMMA FirstChild ==
  ASSUME NEW S, NEW text \in Seq(S), NEW h \in 1 .. Len(text), NEW t, text[h].t = t
  PROVE  ChildrenOf(text, h - 1, t) = <<text[h]>> \o ChildrenOf(text, h, t)
<1>1. Len(text) \in Nat /\ h \in 0 .. Len(text) /\ h - 1 \in 0 .. Len(text) /\ h - 1 + 1 = h
  BY LenProperties
<1>2. PICK e : e = LastChild(text, h, t)
  OBVIOUS
<1>3. e \in h .. Len(text) /\ IsLastChild(text, h, t, e)
  BY <1>1, <1>2, LastChildIs
<1>4. \A j \in h - 1 + 1 .. e : j = h \/ j \in h + 1 .. e
  BY <1>1, <1>3
<1>5. IsLastChild(text, h - 1, t, e) /\ e \in h - 1 .. Len(text)
  BY <1>1, <1>3, <1>4 DEF IsLastChild
<1>6. LastChild(text, h - 1, t) = e
  BY <1>1, <1>5, LastChildOnly
<1>7. SubSeq(text, h, e) = <<text[h]>> \o SubSeq(text, h + 1, e)
  BY <1>3, SubSeqRecursiveFirst
<1>8. QED
  BY <1>1, <1>2, <1>6, <1>7 DEF ChildrenOf

-----------------------------------------------------------------------------
(***************************************************************************)
(* Key-value pairs and predicates, item by item.                           *)
(***************************************************************************)
Predicates == [pred : STRING, arity : Nat]

LEMMA ItemFields ==
  ASSUME NEW i \in Items
  PROVE  /\ i.t = "pair" => KeyValue(i) \in KeyValuePairs
         /\ i.t = "predicate" => Declared(i) \in Predicates
         /\ i.t = "plan" => i.nodes \in Seq(Braces)
  BY DEF Items, KeyValue, Declared, KeyValuePairs, Predicates

PairsOf(text, h) ==
  LET pairs == ChildrenOf(text, h, "pair") IN [i \in DOMAIN pairs |-> KeyValue(pairs[i])]

PredicatesOf(text, h) == {Declared(i) : i \in ToSet(ChildrenOf(text, h, "predicate"))}

LEMMA PairsTyped ==
  ASSUME NEW text \in Seq(Items), NEW h \in 0 .. Len(text)
  PROVE  PairsOf(text, h) \in Seq(KeyValuePairs)
<1>1. PICK c : c = ChildrenOf(text, h, "pair")
  OBVIOUS
<1>2. c \in Seq(Items) /\ \A i \in 1 .. Len(c) : c[i].t = "pair"
  BY <1>1, ChildrenTyped
<1>3. Len(c) \in Nat /\ DOMAIN c = 1 .. Len(c)
  BY <1>2, LenProperties
<1>4. \A i \in 1 .. Len(c) : KeyValue(c[i]) \in KeyValuePairs
  <2>1. \A i \in 1 .. Len(c) : c[i] \in Items
    BY <1>2, ElementOfSeq
  <2>2. QED
    BY <1>2, <2>1, ItemFields
<1>5. PICK p : p = [i \in 1 .. Len(c) |-> KeyValue(c[i])]
  OBVIOUS
<1>6. p \in [1 .. Len(c) -> KeyValuePairs]
  BY <1>4, <1>5
<1>7. p \in Seq(KeyValuePairs)
  BY <1>3, <1>6
<1>8. QED
  BY <1>1, <1>3, <1>5, <1>7 DEF PairsOf

LEMMA PredicatesTyped ==
  ASSUME NEW text \in Seq(Items), NEW h \in 0 .. Len(text)
  PROVE  PredicatesOf(text, h) \in SUBSET Predicates
<1>1. PICK c : c = ChildrenOf(text, h, "predicate")
  OBVIOUS
<1>2. c \in Seq(Items) /\ \A i \in 1 .. Len(c) : c[i].t = "predicate"
  BY <1>1, ChildrenTyped
<1>3. \A i \in 1 .. Len(c) : c[i] \in Items /\ Declared(c[i]) \in Predicates
  <2>1. \A i \in 1 .. Len(c) : c[i] \in Items
    BY <1>2, ElementOfSeq
  <2>2. QED
    BY <1>2, <2>1, ItemFields
<1>4. DOMAIN c = 1 .. Len(c)
  BY <1>2, LenProperties
<1>5. QED
  BY <1>1, <1>3, <1>4 DEF PredicatesOf, ToSet

\* An element in front of others.
LEMMA InFront ==
  ASSUME NEW S, NEW x \in S, NEW c \in Seq(S)
  PROVE  /\ <<x>> \o c \in Seq(S)
         /\ DOMAIN (<<x>> \o c) = 1 .. Len(c) + 1
         /\ (<<x>> \o c)[1] = x
         /\ \A i \in 1 .. Len(c) : (<<x>> \o c)[i + 1] = c[i]
<1>1. <<x>> \in Seq(S) /\ Len(<<x>>) = 1 /\ <<x>>[1] = x
  OBVIOUS
<1>2. PICK d : d = <<x>> \o c
  OBVIOUS
<1>3. Len(c) \in Nat
  BY LenProperties
<1>4. d \in Seq(S) /\ Len(d) = Len(c) + 1
  BY <1>1, <1>2, <1>3
<1>5. d[1] = x /\ \A i \in 1 .. Len(c) : d[i + 1] = c[i]
  BY <1>1, <1>2, <1>3
<1>6. DOMAIN d = 1 .. Len(c) + 1
  BY <1>4, LenProperties
<1>7. QED
  BY <1>2, <1>4, <1>5, <1>6

LEMMA FirstPair ==
  ASSUME NEW text \in Seq(Items), NEW h \in 1 .. Len(text), text[h].t = "pair"
  PROVE  PairsOf(text, h - 1) = <<KeyValue(text[h])>> \o PairsOf(text, h)
<1>0. Len(text) \in Nat /\ h \in 0 .. Len(text) /\ text[h] \in Items
  BY LenProperties, ElementOfSeq
<1>1. PICK x, c, d : x = text[h] /\ c = ChildrenOf(text, h, "pair") /\ d = <<x>> \o c
  OBVIOUS
<1>2. x \in Items /\ c \in Seq(Items)
  BY <1>0, <1>1, ChildrenTyped
<1>3. ChildrenOf(text, h - 1, "pair") = d
  BY <1>1, FirstChild
<1>4. /\ DOMAIN d = 1 .. Len(c) + 1 /\ d[1] = x
      /\ \A i \in 1 .. Len(c) : d[i + 1] = c[i]
  BY <1>1, <1>2, InFront
<1>5. Len(c) \in Nat /\ DOMAIN c = 1 .. Len(c)
  BY <1>2, LenProperties
<1>6. PICK p, q : p = PairsOf(text, h) /\ q = PairsOf(text, h - 1)
  OBVIOUS
<1>7. p = [i \in 1 .. Len(c) |-> KeyValue(c[i])] /\ q = [i \in 1 .. Len(c) + 1 |-> KeyValue(d[i])]
  BY <1>1, <1>3, <1>4, <1>5, <1>6 DEF PairsOf
<1>8. p \in Seq(KeyValuePairs) /\ KeyValue(x) \in KeyValuePairs
  BY <1>0, <1>1, <1>6, PairsTyped, ItemFields
<1>9. PICK r : r = <<KeyValue(x)>> \o p
  OBVIOUS
<1>10. Len(p) = Len(c)
  BY <1>5, <1>7, <1>8
<1>11. /\ r \in Seq(KeyValuePairs) /\ DOMAIN r = 1 .. Len(c) + 1 /\ r[1] = KeyValue(x)
       /\ \A i \in 1 .. Len(c) : r[i + 1] = p[i]
  BY <1>8, <1>9, <1>10, InFront
<1>12. ASSUME NEW i \in 1 .. Len(c) + 1
       PROVE  r[i] = q[i]
  <2>1. CASE i = 1
    BY <1>4, <1>7, <1>11, <2>1
  <2>2. CASE i # 1
    <3>1. PICK j : j = i - 1
      OBVIOUS
    <3>2. j \in 1 .. Len(c) /\ i = j + 1
      BY <1>5, <2>2, <3>1
    <3>3. r[i] = KeyValue(c[j]) /\ q[i] = KeyValue(d[i]) /\ d[i] = c[j]
      BY <1>4, <1>7, <1>11, <3>2
    <3>4. QED
      BY <3>3
  <2>3. QED
    BY <2>1, <2>2
<1>13. Len(r) = Len(c) + 1
  BY <1>5, <1>11, LenProperties
<1>14. r = [i \in 1 .. Len(c) + 1 |-> r[i]]
  BY <1>11, <1>13
<1>15. r = q
  BY <1>7, <1>12, <1>14
<1>16. QED
  BY <1>1, <1>6, <1>9, <1>15

LEMMA FirstPredicate ==
  ASSUME NEW text \in Seq(Items), NEW h \in 1 .. Len(text), text[h].t = "predicate"
  PROVE  PredicatesOf(text, h - 1) = {Declared(text[h])} \cup PredicatesOf(text, h)
<1>0. Len(text) \in Nat /\ h \in 0 .. Len(text) /\ text[h] \in Items
  BY LenProperties, ElementOfSeq
<1>1. PICK x, c, d : x = text[h] /\ c = ChildrenOf(text, h, "predicate") /\ d = <<x>> \o c
  OBVIOUS
<1>2. x \in Items /\ c \in Seq(Items)
  BY <1>0, <1>1, ChildrenTyped
<1>3. ChildrenOf(text, h - 1, "predicate") = d
  BY <1>1, FirstChild
<1>4. /\ DOMAIN d = 1 .. Len(c) + 1 /\ d[1] = x
      /\ \A i \in 1 .. Len(c) : d[i + 1] = c[i]
  BY <1>1, <1>2, InFront
<1>5. Len(c) \in Nat /\ DOMAIN c = 1 .. Len(c)
  BY <1>2, LenProperties
<1>6. ToSet(d) = {x} \cup ToSet(c)
  <2>1. \A i \in 1 .. Len(c) + 1 : i = 1 \/ (i - 1 \in 1 .. Len(c) /\ d[i] = c[i - 1])
    <3>1. \A i \in 1 .. Len(c) + 1 : i # 1 => i - 1 \in 1 .. Len(c) /\ i - 1 + 1 = i
      BY <1>5
    <3>2. QED
      BY <1>4, <3>1
  <2>2. \A i \in 1 .. Len(c) : i + 1 \in 1 .. Len(c) + 1
    BY <1>5
  <2>3. 1 \in 1 .. Len(c) + 1
    BY <1>5
  <2>4. ToSet(d) \subseteq {x} \cup ToSet(c)
    <3>1. ASSUME NEW i \in DOMAIN d
          PROVE  d[i] \in {x} \cup ToSet(c)
      <4>1. i = 1 \/ (i - 1 \in DOMAIN c /\ d[i] = c[i - 1])
        BY <1>4, <1>5, <2>1
      <4>2. QED
        BY <1>4, <4>1 DEF ToSet
    <3>2. QED
      BY <3>1 DEF ToSet
  <2>5. {x} \cup ToSet(c) \subseteq ToSet(d)
    <3>1. x \in ToSet(d)
      BY <1>4, <2>3 DEF ToSet
    <3>2. ToSet(c) \subseteq ToSet(d)
      BY <1>4, <1>5, <2>2 DEF ToSet
    <3>3. QED
      BY <3>1, <3>2
  <2>6. QED
    BY <2>4, <2>5
<1>7. QED
  BY <1>1, <1>3, <1>6 DEF PredicatesOf

LEMMA NoPairs ==
  ASSUME NEW text \in Seq(Items), NEW h \in 0 .. Len(text),
         h < Len(text) => text[h + 1].t # "pair"
  PROVE  PairsOf(text, h) = <<>>
<1>1. ChildrenOf(text, h, "pair") = <<>>
  BY NoChildren
<1>2. DOMAIN <<>> = {}
  OBVIOUS
<1>3. PICK p : p = PairsOf(text, h)
  OBVIOUS
<1>4. p = [i \in {} |-> KeyValue(<<>>[i])]
  BY <1>1, <1>2, <1>3 DEF PairsOf
<1>5. p \in Seq(KeyValuePairs)
  BY <1>3, PairsTyped
<1>6. DOMAIN p = {}
  BY <1>4
<1>7. QED
  BY <1>3, <1>5, <1>6

LEMMA NoPredicates ==
  ASSUME NEW text \in Seq(Items), NEW h \in 0 .. Len(text),
         h < Len(text) => text[h + 1].t # "predicate"
  PROVE  PredicatesOf(text, h) = {}
<1>1. ChildrenOf(text, h, "predicate") = <<>>
  BY NoChildren
<1>2. ToSet(<<>>) = {}
  BY DEF ToSet
<1>3. QED
  BY <1>1, <1>2 DEF PredicatesOf

-----------------------------------------------------------------------------
(***************************************************************************)
(* The sections of one plan behind those of others.                        *)
(***************************************************************************)
Sources == [kind : {"datasource"}, name : STRING \cup {Damaged}]
Sections ==
  [kind : {"revisionplansection"}, pairs : Seq(KeyValuePairs), sources : Seq(Nat)]
TreeNodes == Sources \cup Sections

Raised(numbers, by) == [i \in DOMAIN numbers |-> numbers[i] + by]

LEMMA RaisedTyped ==
  ASSUME NEW s \in Seq(Nat), NEW a \in Nat
  PROVE  Raised(s, a) \in Seq(Nat) /\ DOMAIN Raised(s, a) = DOMAIN s
<1>1. Len(s) \in Nat /\ DOMAIN s = 1 .. Len(s) /\ \A i \in 1 .. Len(s) : s[i] \in Nat
  BY LenProperties, ElementOfSeq
<1>2. PICK r : r = [i \in 1 .. Len(s) |-> s[i] + a]
  OBVIOUS
<1>3. r \in [1 .. Len(s) -> Nat]
  BY <1>1, <1>2
<1>4. r \in Seq(Nat)
  BY <1>1, <1>3
<1>5. QED
  BY <1>1, <1>2, <1>4 DEF Raised

LEMMA RaisedTwice ==
  ASSUME NEW s \in Seq(Nat), NEW a \in Nat, NEW b \in Nat
  PROVE  /\ Raised(Raised(s, a), b) = Raised(s, a + b)
         /\ Raised(s, 0) = s
<1>1. Len(s) \in Nat /\ DOMAIN s = 1 .. Len(s) /\ \A i \in 1 .. Len(s) : s[i] \in Nat
  BY LenProperties, ElementOfSeq
<1>2. s = [i \in 1 .. Len(s) |-> s[i]]
  BY LenProperties
<1>3. \A i \in 1 .. Len(s) : s[i] + 0 = s[i] /\ (s[i] + a) + b = s[i] + (a + b)
  BY <1>1
<1>4. Raised(s, 0) = s
  BY <1>1, <1>2, <1>3 DEF Raised
<1>5. PICK r : r = [i \in 1 .. Len(s) |-> s[i] + a]
  OBVIOUS
<1>6. [i \in 1 .. Len(s) |-> r[i] + b] = [i \in 1 .. Len(s) |-> s[i] + (a + b)]
  BY <1>3, <1>5
<1>7. DOMAIN r = 1 .. Len(s) /\ Raised(s, a) = r
  BY <1>1, <1>5 DEF Raised
<1>8. Raised(Raised(s, a), b) = Raised(s, a + b)
  BY <1>1, <1>6, <1>7 DEF Raised
<1>9. QED
  BY <1>4, <1>8

LEMMA ShiftedForm ==
  ASSUME NEW node \in TreeNodes, NEW a \in Nat
  PROVE  /\ Shifted(node, a) \in TreeNodes
         /\ node \in Sources => Shifted(node, a) = node
         /\ node \in Sections =>
              Shifted(node, a) = [kind |-> node.kind, pairs |-> node.pairs,
                                  sources |-> Raised(node.sources, a)]
<1>1. CASE node \in Sources
  <2>1. node.kind = "datasource" /\ node \notin Sections
    BY <1>1 DEF Sources, Sections
  <2>2. QED
    BY <1>1, <2>1 DEF Shifted, TreeNodes
<1>2. CASE node \in Sections
  <2>1. node.kind = "revisionplansection" /\ node \notin Sources /\ node.sources \in Seq(Nat)
    BY <1>2 DEF Sources, Sections
  <2>2. PICK r : r = Raised(node.sources, a)
    OBVIOUS
  <2>3. r \in Seq(Nat)
    BY <2>1, <2>2, RaisedTyped
  <2>4. Shifted(node, a) = [node EXCEPT !.sources = r]
    BY <2>1, <2>2 DEF Shifted, Raised
  <2>5. [node EXCEPT !.sources = r] = [kind |-> node.kind, pairs |-> node.pairs, sources |-> r]
    BY <1>2 DEF Sections
  <2>6. [kind |-> node.kind, pairs |-> node.pairs, sources |-> r] \in Sections
    BY <1>2, <2>3 DEF Sections
  <2>7. QED
    BY <2>1, <2>2, <2>4, <2>5, <2>6 DEF TreeNodes
<1>3. QED
  BY <1>1, <1>2 DEF TreeNodes

LEMMA ShiftedTwice ==
  ASSUME NEW node \in TreeNodes, NEW a \in Nat, NEW b \in Nat
  PROVE  /\ Shifted(Shifted(node, a), b) = Shifted(node, a + b)
         /\ Shifted(node, 0) = node
<1>1. a + b \in Nat /\ 0 \in Nat
  OBVIOUS
<1>2. CASE node \in Sources
  BY <1>1, <1>2, ShiftedForm
<1>3. CASE node \in Sections
  <2>1. PICK k, p, s : k = node.kind /\ p = node.pairs /\ s = node.sources
    OBVIOUS
  <2>2. /\ node = [kind |-> k, pairs |-> p, sources |-> s]
        /\ k = "revisionplansection" /\ p \in Seq(KeyValuePairs) /\ s \in Seq(Nat)
    BY <1>3, <2>1 DEF Sections
  <2>3. PICK r : r = Raised(s, a)
    OBVIOUS
  <2>4. r \in Seq(Nat)
    BY <2>2, <2>3, RaisedTyped
  <2>5. PICK m : m = [kind |-> k, pairs |-> p, sources |-> r]
    OBVIOUS
  <2>6. m \in Sections /\ m.kind = k /\ m.pairs = p /\ m.sources = r
    BY <2>2, <2>4, <2>5 DEF Sections
  <2>7. Shifted(node, a) = m
    BY <1>3, <2>1, <2>3, <2>5, ShiftedForm
  <2>8. Shifted(m, b) = [kind |-> k, pairs |-> p, sources |-> Raised(r, b)]
    BY <2>6, ShiftedForm DEF TreeNodes
  <2>9. Raised(r, b) = Raised(s, a + b) /\ Raised(s, 0) = s
    BY <2>2, <2>3, RaisedTwice
  <2>10. Shifted(node, a + b) = [kind |-> k, pairs |-> p, sources |-> Raised(s, a + b)]
    BY <1>1, <1>3, <2>1, ShiftedForm
  <2>11. Shifted(node, 0) = [kind |-> k, pairs |-> p, sources |-> Raised(s, 0)]
    BY <1>1, <1>3, <2>1, ShiftedForm
  <2>12. QED
    BY <2>2, <2>7, <2>8, <2>9, <2>10, <2>11
<1>4. QED
  BY <1>2, <1>3 DEF TreeNodes

AllShifted(nodes, by) == [i \in DOMAIN nodes |-> Shifted(nodes[i], by)]

LEMMA AllShiftedTyped ==
  ASSUME NEW s \in Seq(TreeNodes), NEW a \in Nat
  PROVE  /\ AllShifted(s, a) \in Seq(TreeNodes)
         /\ Len(AllShifted(s, a)) = Len(s)
         /\ \A i \in 1 .. Len(s) : AllShifted(s, a)[i] = Shifted(s[i], a)
<1>1. Len(s) \in Nat /\ DOMAIN s = 1 .. Len(s) /\ \A i \in 1 .. Len(s) : s[i] \in TreeNodes
  BY LenProperties, ElementOfSeq
<1>2. PICK r : r = [i \in 1 .. Len(s) |-> Shifted(s[i], a)]
  OBVIOUS
<1>3. r \in [1 .. Len(s) -> TreeNodes]
  BY <1>1, <1>2, ShiftedForm
<1>4. r \in Seq(TreeNodes) /\ Len(r) = Len(s)
  BY <1>1, <1>3
<1>5. AllShifted(s, a) = r
  BY <1>1, <1>2 DEF AllShifted
<1>6. QED
  BY <1>2, <1>4, <1>5

LEMMA AllShiftedTwice ==
  ASSUME NEW s \in Seq(TreeNodes), NEW a \in Nat, NEW b \in Nat
  PROVE  /\ AllShifted(AllShifted(s, a), b) = AllShifted(s, a + b)
         /\ AllShifted(s, 0) = s
<1>1. a + b \in Nat /\ 0 \in Nat /\ Len(s) \in Nat
  BY LenProperties
<1>2. \A i \in 1 .. Len(s) : s[i] \in TreeNodes
  BY ElementOfSeq
<1>3. PICK r, t, u, z : /\ r = AllShifted(s, a) /\ t = AllShifted(r, b)
                        /\ u = AllShifted(s, a + b) /\ z = AllShifted(s, 0)
  OBVIOUS
<1>4. /\ r \in Seq(TreeNodes) /\ Len(r) = Len(s)
      /\ \A i \in 1 .. Len(s) : r[i] = Shifted(s[i], a)
  BY <1>3, AllShiftedTyped
<1>5. /\ t \in Seq(TreeNodes) /\ Len(t) = Len(s)
      /\ \A i \in 1 .. Len(s) : t[i] = Shifted(r[i], b)
  BY <1>3, <1>4, AllShiftedTyped
<1>6. /\ u \in Seq(TreeNodes) /\ Len(u) = Len(s)
      /\ \A i \in 1 .. Len(s) : u[i] = Shifted(s[i], a + b)
  BY <1>1, <1>3, AllShiftedTyped
<1>7. /\ z \in Seq(TreeNodes) /\ Len(z) = Len(s)
      /\ \A i \in 1 .. Len(s) : z[i] = Shifted(s[i], 0)
  BY <1>1, <1>3, AllShiftedTyped
<1>8. ASSUME NEW i \in 1 .. Len(s)
      PROVE  t[i] = u[i] /\ z[i] = s[i]
  <2>1. s[i] \in TreeNodes
    BY <1>2
  <2>2. t[i] = Shifted(r[i], b) /\ r[i] = Shifted(s[i], a)
    BY <1>4, <1>5
  <2>3. u[i] = Shifted(s[i], a + b) /\ z[i] = Shifted(s[i], 0)
    BY <1>6, <1>7
  <2>4. /\ Shifted(Shifted(s[i], a), b) = Shifted(s[i], a + b)
        /\ Shifted(s[i], 0) = s[i]
    BY <2>1, ShiftedTwice
  <2>5. QED
    BY <2>2, <2>3, <2>4
<1>9. t = u
  BY <1>5, <1>6, <1>8, SeqEqual
<1>10. z = s
  BY <1>7, <1>8, SeqEqual
<1>11. QED
  BY <1>3, <1>9, <1>10

JoinOf(g, s, t) ==
  /\ Len(g) = Len(s) + Len(t)
  /\ \A i \in 1 .. Len(g) : g[i] = IF i <= Len(s) THEN s[i] ELSE t[i - Len(s)]

LEMMA JoinedElements ==
  ASSUME NEW S, NEW s \in Seq(S), NEW t \in Seq(S), NEW g, g = s \o t
  PROVE  g \in Seq(S) /\ JoinOf(g, s, t)
  BY ConcatProperties DEF JoinOf

LEMMA AllShiftedJoined ==
  ASSUME NEW s \in Seq(TreeNodes), NEW t \in Seq(TreeNodes), NEW a \in Nat
  PROVE  AllShifted(s \o t, a) = AllShifted(s, a) \o AllShifted(t, a)
<1>1. PICK c, d, e, f, g : /\ c = s \o t /\ d = AllShifted(c, a) /\ e = AllShifted(s, a)
                           /\ f = AllShifted(t, a) /\ g = e \o f
  OBVIOUS
<1>2. Len(s) \in Nat /\ Len(t) \in Nat
  BY LenProperties
<1>3. /\ c \in Seq(TreeNodes) /\ Len(c) = Len(s) + Len(t)
      /\ \A i \in 1 .. Len(c) : c[i] = IF i <= Len(s) THEN s[i] ELSE t[i - Len(s)]
  BY <1>1, ConcatProperties
<1>4. /\ d \in Seq(TreeNodes) /\ Len(d) = Len(c)
      /\ \A i \in 1 .. Len(c) : d[i] = Shifted(c[i], a)
  BY <1>1, <1>3, AllShiftedTyped
<1>5. /\ e \in Seq(TreeNodes) /\ Len(e) = Len(s)
      /\ \A i \in 1 .. Len(s) : e[i] = Shifted(s[i], a)
  BY <1>1, AllShiftedTyped
<1>6. /\ f \in Seq(TreeNodes) /\ Len(f) = Len(t)
      /\ \A i \in 1 .. Len(t) : f[i] = Shifted(t[i], a)
  BY <1>1, AllShiftedTyped
<1>7. /\ g \in Seq(TreeNodes) /\ Len(g) = Len(e) + Len(f)
      /\ \A i \in 1 .. Len(g) : g[i] = IF i <= Len(e) THEN e[i] ELSE f[i - Len(e)]
  <2>1. e \in Seq(TreeNodes) /\ f \in Seq(TreeNodes)
    BY <1>5, <1>6
  <2>2. g \in Seq(TreeNodes) /\ JoinOf(g, e, f)
    BY <1>1, <2>1, JoinedElements, Zenon
  <2>3. QED
    BY <2>2, Zenon DEF JoinOf
<1>8. Len(d) = Len(g)
  BY <1>3, <1>4, <1>5, <1>6, <1>7
<1>9. ASSUME NEW i \in 1 .. Len(d)
      PROVE  d[i] = g[i]
  <2>1. d[i] = Shifted(c[i], a) /\ i \in Nat /\ i \in 1 .. Len(c) /\ i \in 1 .. Len(g)
    BY <1>4, <1>8
  <2>2. CASE i <= Len(s)
    <3>1. i \in 1 .. Len(s)
      BY <1>2, <2>1, <2>2
    <3>2. c[i] = s[i] /\ g[i] = e[i] /\ e[i] = Shifted(s[i], a)
      BY <1>3, <1>5, <1>7, <2>1, <2>2, <3>1
    <3>3. QED
      BY <2>1, <3>2
  <2>3. CASE ~(i <= Len(s))
    <3>1. i - Len(s) \in 1 .. Len(t)
      BY <1>2, <1>3, <2>1, <2>3
    <3>2. c[i] = t[i - Len(s)] /\ g[i] = f[i - Len(s)]
      BY <1>3, <1>5, <1>7, <2>1, <2>3
    <3>3. f[i - Len(s)] = Shifted(t[i - Len(s)], a)
      BY <1>6, <3>1
    <3>4. QED
      BY <2>1, <3>2, <3>3
  <2>4. QED
    BY <2>2, <2>3
<1>10. d = g
  BY <1>4, <1>7, <1>8, <1>9, SeqEqual
<1>11. QED
  BY <1>1, <1>10

LEMMA BehindForm ==
  ASSUME NEW s \in Seq(TreeNodes), NEW t \in Seq(TreeNodes)
  PROVE  /\ Behind(s, t) = s \o AllShifted(t, Len(s))
         /\ Behind(s, t) \in Seq(TreeNodes)
         /\ Len(Behind(s, t)) = Len(s) + Len(t)
<1>1. Len(s) \in Nat /\ Len(t) \in Nat
  BY LenProperties
<1>2. Behind(s, t) = s \o AllShifted(t, Len(s))
  BY DEF Behind, AllShifted
<1>3. PICK u : u = AllShifted(t, Len(s))
  OBVIOUS
<1>4. u \in Seq(TreeNodes) /\ Len(u) = Len(t)
  BY <1>1, <1>3, AllShiftedTyped
<1>5. s \o u \in Seq(TreeNodes) /\ Len(s \o u) = Len(s) + Len(u)
  BY <1>4, ConcatProperties
<1>6. QED
  BY <1>2, <1>3, <1>4, <1>5

LEMMA BehindAssociates ==
  ASSUME NEW a \in Seq(TreeNodes), NEW b \in Seq(TreeNodes), NEW c \in Seq(TreeNodes)
  PROVE  Behind(Behind(a, b), c) = Behind(a, Behind(b, c))
<1>1. Len(a) \in Nat /\ Len(b) \in Nat /\ Len(a) + Len(b) \in Nat /\ Len(b) + Len(a) = Len(a) + Len(b)
  BY LenProperties
<1>2. PICK p, q, r, s : /\ p = AllShifted(b, Len(a)) /\ q = AllShifted(c, Len(b))
                        /\ r = AllShifted(c, Len(a) + Len(b)) /\ s = b \o q
  OBVIOUS
<1>3. p \in Seq(TreeNodes) /\ q \in Seq(TreeNodes) /\ r \in Seq(TreeNodes)
  BY <1>1, <1>2, AllShiftedTyped
<1>4. Behind(a, b) = a \o p /\ Behind(b, c) = s /\ s \in Seq(TreeNodes)
  BY <1>2, BehindForm
<1>5. Behind(Behind(a, b), c) = (a \o p) \o r
  <2>1. Behind(a, b) \in Seq(TreeNodes) /\ Len(Behind(a, b)) = Len(a) + Len(b)
    BY BehindForm
  <2>2. QED
    BY <1>2, <1>4, <2>1, BehindForm
<1>6. AllShifted(s, Len(a)) = p \o r
  <2>1. AllShifted(s, Len(a)) = p \o AllShifted(q, Len(a))
    BY <1>1, <1>2, <1>3, AllShiftedJoined
  <2>2. AllShifted(q, Len(a)) = AllShifted(c, Len(b) + Len(a))
    BY <1>1, <1>2, AllShiftedTwice
  <2>3. AllShifted(c, Len(b) + Len(a)) = r
    BY <1>1, <1>2, Zenon
  <2>4. QED
    BY <2>1, <2>2, <2>3, Zenon
<1>7. Behind(a, Behind(b, c)) = a \o (p \o r)
  <2>1. Behind(a, s) = a \o AllShifted(s, Len(a))
    BY <1>4, BehindForm
  <2>2. QED
    BY <1>4, <1>6, <2>1, Zenon
<1>8. (a \o p) \o r = a \o (p \o r)
  <2>1. Associates(a, p, r)
    BY <1>3, Associating, Zenon
  <2>2. QED
    BY <2>1, Zenon DEF Associates
<1>9. QED
  BY <1>5, <1>7, <1>8

LEMMA BehindNothing ==
  ASSUME NEW a \in Seq(TreeNodes)
  PROVE  Behind(a, <<>>) = a /\ Behind(<<>>, a) = a
<1>1. <<>> \in Seq(TreeNodes) /\ Len(<<>>) = 0 /\ Len(a) \in Nat
  BY EmptySeq, LenProperties
<1>2. AllShifted(<<>>, Len(a)) = <<>>
  <2>1. PICK u : u = AllShifted(<<>>, Len(a))
    OBVIOUS
  <2>2. u \in Seq(TreeNodes) /\ Len(u) = 0
    BY <1>1, <2>1, AllShiftedTyped
  <2>3. QED
    BY <2>1, <2>2, EmptySeq
<1>3. AllShifted(a, 0) = a
  BY AllShiftedTwice
<1>4. a \o <<>> = a /\ <<>> \o a = a
  BY ConcatEmptySeq
<1>5. QED
  BY <1>1, <1>2, <1>3, <1>4, BehindForm

-----------------------------------------------------------------------------
(***************************************************************************)
(* The sections of a plan as both parsers read them.                       *)
(***************************************************************************)
LoneChild(written) ==
  \E n \in DOMAIN written :
    "name" \notin DOMAIN written[n] /\ Len(written[n].pairs) + Len(written[n].sources) = 1

LEMMA LoneChildren ==
  ASSUME NEW text
  PROVE  HasLoneChild(text) <=> \E k \in DOMAIN text : text[k].t = "plan" /\ LoneChild(text[k].nodes)
  BY DEF HasLoneChild, LoneChild

SpiritNodes(written) == [n \in DOMAIN written |-> NodeOfChildren(written[n])]
BisonNodes(written) == [n \in DOMAIN written |-> NodeOfBraces(written[n])]

Wrong(node) == node.kind = "datasource" /\ node.name = Damaged

LEMMA NodeRead ==
  ASSUME NEW w \in Braces
  PROVE  /\ NodeOfChildren(w) \in TreeNodes
         /\ NodeOfBraces(w) \in TreeNodes /\ ~Wrong(NodeOfBraces(w))
         /\ \/ NodeOfChildren(w) = NodeOfBraces(w)
            \/ "name" \notin DOMAIN w /\ Len(w.pairs) + Len(w.sources) = 1
<1>1. CASE w \in [name : STRING \ {Damaged}]
  <2>1. "name" \in DOMAIN w /\ w.name \in STRING /\ w.name # Damaged
    BY <1>1
  <2>2. PICK node : node = [kind |-> "datasource", name |-> w.name]
    OBVIOUS
  <2>3. NodeOfChildren(w) = node /\ NodeOfBraces(w) = node
    BY <2>1, <2>2 DEF NodeOfChildren, NodeOfBraces
  <2>4. node \in Sources /\ node.name = w.name
    BY <2>1, <2>2 DEF Sources
  <2>5. QED
    BY <2>1, <2>3, <2>4 DEF TreeNodes, Wrong
<1>2. CASE w \in [pairs : Seq(KeyValuePairs), sources : Seq(Nat)]
  <2>1. /\ DOMAIN w = {"pairs", "sources"}
        /\ w.pairs \in Seq(KeyValuePairs) /\ w.sources \in Seq(Nat)
    BY <1>2
  <2>2. "name" \notin DOMAIN w
    BY <2>1
  <2>3. PICK node : node = [kind |-> "revisionplansection", pairs |-> w.pairs, sources |-> w.sources]
    OBVIOUS
  <2>4. node \in Sections /\ node.kind = "revisionplansection"
    BY <2>1, <2>3 DEF Sections
  <2>5. NodeOfBraces(w) = node
    BY <2>2, <2>3 DEF NodeOfBraces
  <2>6. PICK damaged : damaged = [kind |-> "datasource", name |-> Damaged]
    OBVIOUS
  <2>7. damaged \in Sources
    BY <2>6 DEF Sources
  <2>8. Len(w.pairs) \in Nat /\ Len(w.sources) \in Nat
    BY <2>1, LenProperties
  <2>9. NodeOfChildren(w) = IF Len(w.pairs) + Len(w.sources) = 1 THEN damaged ELSE node
    <3>1. \A x, y \in Nat : x + y + 2 = 3 <=> x + y = 1
      OBVIOUS
    <3>2. Len(w.pairs) + Len(w.sources) + 2 = 3 <=> Len(w.pairs) + Len(w.sources) = 1
      BY <2>8, <3>1, Zenon
    <3>3. QED
      BY <2>2, <2>3, <2>6, <3>2, Zenon DEF NodeOfChildren
  <2>10. QED
    BY <2>2, <2>4, <2>5, <2>7, <2>9 DEF TreeNodes, Wrong
<1>3. QED
  BY <1>1, <1>2 DEF Braces

LEMMA NodesRead ==
  ASSUME NEW written \in Seq(Braces)
  PROVE  /\ SpiritNodes(written) \in Seq(TreeNodes) /\ Len(SpiritNodes(written)) = Len(written)
         /\ BisonNodes(written) \in Seq(TreeNodes) /\ Len(BisonNodes(written)) = Len(written)
         /\ \A n \in 1 .. Len(written) : ~Wrong(BisonNodes(written)[n])
         /\ LoneChild(written) \/ SpiritNodes(written) = BisonNodes(written)
<1>1. /\ Len(written) \in Nat /\ DOMAIN written = 1 .. Len(written)
      /\ \A n \in 1 .. Len(written) : written[n] \in Braces
  BY LenProperties, ElementOfSeq
<1>2. PICK s, b : /\ s = [n \in 1 .. Len(written) |-> NodeOfChildren(written[n])]
                  /\ b = [n \in 1 .. Len(written) |-> NodeOfBraces(written[n])]
  OBVIOUS
<1>3. s \in [1 .. Len(written) -> TreeNodes] /\ b \in [1 .. Len(written) -> TreeNodes]
  BY <1>1, <1>2, NodeRead
<1>4. s \in Seq(TreeNodes) /\ Len(s) = Len(written) /\ b \in Seq(TreeNodes) /\ Len(b) = Len(written)
  BY <1>1, <1>3
<1>5. SpiritNodes(written) = s /\ BisonNodes(written) = b
  BY <1>1, <1>2 DEF SpiritNodes, BisonNodes
<1>6. \A n \in 1 .. Len(written) : ~Wrong(b[n])
  <2>1. SUFFICES ASSUME NEW n \in 1 .. Len(written)
                 PROVE  ~Wrong(b[n])
    OBVIOUS
  <2>2. b[n] = NodeOfBraces(written[n]) /\ written[n] \in Braces
    BY <1>1, <1>2
  <2>3. QED
    BY <2>2, NodeRead
<1>7. ASSUME ~LoneChild(written)
      PROVE  s = b
  <2>1. ASSUME NEW n \in 1 .. Len(written)
        PROVE  NodeOfChildren(written[n]) = NodeOfBraces(written[n])
    <3>1. written[n] \in Braces /\ n \in DOMAIN written
      BY <1>1
    <3>2. QED
      BY <1>7, <3>1, NodeRead DEF LoneChild
  <2>2. QED
    BY <1>2, <2>1
<1>8. QED
  BY <1>4, <1>5, <1>6, <1>7

-----------------------------------------------------------------------------
(***************************************************************************)
(* One step of either parser.                                              *)
(***************************************************************************)
Bases == Seq(Seq(KeyValuePairs))

Trees ==
  [bases : Bases, nodes : Seq(TreeNodes), roots : SUBSET Nat, signature : SUBSET Predicates]

ListsOfBison ==
  [pairs : Seq(KeyValuePairs), predicates : SUBSET Predicates, bases : Bases,
   signature : SUBSET Predicates, nodes : Seq(TreeNodes), roots : SUBSET Nat]

Tree(bases, nodes, roots, signature) ==
  [bases |-> bases, nodes |-> nodes, roots |-> roots, signature |-> signature]

LEMMA TreeOf ==
  ASSUME NEW tree \in Trees
  PROVE  /\ tree = Tree(tree.bases, tree.nodes, tree.roots, tree.signature)
         /\ tree.bases \in Bases /\ tree.nodes \in Seq(TreeNodes)
         /\ tree.roots \in SUBSET Nat /\ tree.signature \in SUBSET Predicates
  BY DEF Trees, Tree

LEMMA TreeTyped ==
  ASSUME NEW b \in Bases, NEW n \in Seq(TreeNodes), NEW r \in SUBSET Nat,
         NEW s \in SUBSET Predicates
  PROVE  /\ Tree(b, n, r, s) \in Trees
         /\ Tree(b, n, r, s).bases = b /\ Tree(b, n, r, s).nodes = n
         /\ Tree(b, n, r, s).roots = r /\ Tree(b, n, r, s).signature = s
  BY DEF Trees, Tree

\* What AddSection makes of the section at place k.
Added(tree, text, k, new) ==
  /\ text[k].t = "bb" =>
       new = Tree(Append(tree.bases, PairsOf(text, k)), tree.nodes, tree.roots, tree.signature)
  /\ text[k].t = "cs" =>
       new = Tree(tree.bases, tree.nodes, tree.roots, tree.signature \cup PredicatesOf(text, k))
  /\ text[k].t = "plan" =>
       new = Tree(tree.bases, Behind(tree.nodes, SpiritNodes(text[k].nodes)),
                  tree.roots \cup {Len(tree.nodes) + Len(text[k].nodes)}, tree.signature)
  /\ text[k].t \notin {"bb", "cs", "plan"} => new = tree

LEMMA SectionAdded ==
  ASSUME NEW tree \in Trees, NEW text \in Seq(Items), NEW k \in 1 .. Len(text)
  PROVE  /\ AddSection(tree, text, k) \in Trees
         /\ Added(tree, text, k, AddSection(tree, text, k))
<1>0. /\ tree.bases \in Bases /\ tree.nodes \in Seq(TreeNodes)
      /\ tree.roots \in SUBSET Nat /\ tree.signature \in SUBSET Predicates
      /\ tree = Tree(tree.bases, tree.nodes, tree.roots, tree.signature)
  BY TreeOf
<1>1. Len(text) \in Nat /\ k \in 0 .. Len(text) /\ text[k] \in Items
  BY LenProperties, ElementOfSeq
<1>2. PICK b, n, r, s : /\ b = tree.bases /\ n = tree.nodes /\ r = tree.roots
                        /\ s = tree.signature
  OBVIOUS
<1>3. PICK new : new = AddSection(tree, text, k)
  OBVIOUS
<1>4. CASE text[k].t = "bb"
  <2>1. PICK p : p = PairsOf(text, k)
    OBVIOUS
  <2>2. p \in Seq(KeyValuePairs)
    BY <1>1, <2>1, PairsTyped
  <2>3. Append(b, p) \in Bases
    BY <1>0, <1>2, <2>2, AppendProperties DEF Bases
  <2>4. new = [tree EXCEPT !.bases = Append(b, p)]
    BY <1>2, <1>3, <1>4, <2>1 DEF AddSection, PairsOf
  <2>5. new = Tree(Append(b, p), n, r, s)
    BY <1>0, <1>2, <2>4 DEF Tree
  <2>6. new \in Trees
    BY <1>0, <1>2, <2>3, <2>5, TreeTyped
  <2>7. QED
    BY <1>2, <1>3, <1>4, <2>1, <2>5, <2>6 DEF Added
<1>5. CASE text[k].t = "cs"
  <2>1. PICK p : p = PredicatesOf(text, k)
    OBVIOUS
  <2>2. s \cup p \in SUBSET Predicates
    <3>1. p \in SUBSET Predicates
      BY <1>1, <2>1, PredicatesTyped
    <3>2. QED
      BY <1>0, <1>2, <3>1
  <2>3. new = [tree EXCEPT !.signature = s \cup p]
    BY <1>2, <1>3, <1>5, <2>1 DEF AddSection, PredicatesOf
  <2>4. new = Tree(b, n, r, s \cup p)
    BY <1>0, <1>2, <2>3 DEF Tree
  <2>5. new \in Trees
    BY <1>0, <1>2, <2>2, <2>4, TreeTyped
  <2>6. QED
    BY <1>2, <1>3, <1>5, <2>1, <2>4, <2>5 DEF Added
<1>6. CASE text[k].t = "plan"
  <2>1. PICK w, m : w = text[k].nodes /\ m = Behind(n, SpiritNodes(w))
    OBVIOUS
  <2>2. w \in Seq(Braces)
    BY <1>1, <1>6, <2>1, ItemFields
  <2>3. SpiritNodes(w) \in Seq(TreeNodes) /\ Len(SpiritNodes(w)) = Len(w) /\ Len(w) \in Nat
    BY <2>2, NodesRead, LenProperties
  <2>4. m \in Seq(TreeNodes) /\ Len(m) = Len(n) + Len(w) /\ Len(n) \in Nat
    BY <1>0, <1>2, <2>1, <2>3, BehindForm, LenProperties
  <2>5. r \cup {Len(m)} \in SUBSET Nat
    BY <1>0, <1>2, <2>3, <2>4
  <2>6. new = [tree EXCEPT !.nodes = m, !.roots = r \cup {Len(m)}]
    BY <1>2, <1>3, <1>6, <2>1 DEF AddSection, SpiritNodes
  <2>7. new = Tree(b, m, r \cup {Len(m)}, s)
    BY <1>0, <1>2, <2>6 DEF Tree
  <2>8. new \in Trees
    BY <1>0, <1>2, <2>4, <2>5, <2>7, TreeTyped
  <2>9. QED
    BY <1>2, <1>3, <1>6, <2>1, <2>4, <2>7, <2>8 DEF Added
<1>7. CASE text[k].t \notin {"bb", "cs", "plan"}
  <2>1. new = tree
    BY <1>3, <1>7 DEF AddSection
  <2>2. QED
    BY <1>3, <1>7, <2>1 DEF Added
<1>8. QED
  BY <1>4, <1>5, <1>6, <1>7

\* What Reduce makes of an item.
ReducedTo(i, lists, new) ==
  /\ i.t = "pair" =>
       /\ new.pairs = <<KeyValue(i)>> \o lists.pairs
       /\ new.predicates = lists.predicates
  /\ i.t = "predicate" =>
       /\ new.predicates = lists.predicates \cup {Declared(i)}
       /\ new.pairs = lists.pairs
  /\ i.t = "bb" =>
       /\ new.bases = <<lists.pairs>> \o lists.bases
       /\ new.pairs = <<>> /\ new.predicates = lists.predicates
  /\ i.t = "cs" =>
       /\ new.signature = lists.signature \cup lists.predicates
       /\ new.predicates = {} /\ new.pairs = lists.pairs
  /\ i.t = "plan" =>
       /\ new.nodes = Behind(BisonNodes(i.nodes), lists.nodes)
       /\ new.roots = {Len(i.nodes)} \cup {r + Len(i.nodes) : r \in lists.roots}
       /\ new.pairs = lists.pairs /\ new.predicates = lists.predicates
  /\ i.t # "bb" => new.bases = lists.bases
  /\ i.t # "cs" => new.signature = lists.signature
  /\ i.t # "plan" => new.nodes = lists.nodes /\ new.roots = lists.roots

LEMMA ItemReduced ==
  ASSUME NEW i \in Items, i.t # "bad", NEW lists \in ListsOfBison
  PROVE  /\ Reduce(i, lists) \in ListsOfBison
         /\ ReducedTo(i, lists, Reduce(i, lists))
<1>0. /\ lists.pairs \in Seq(KeyValuePairs) /\ lists.predicates \in SUBSET Predicates
      /\ lists.bases \in Bases /\ lists.signature \in SUBSET Predicates
      /\ lists.nodes \in Seq(TreeNodes) /\ lists.roots \in SUBSET Nat
  BY DEF ListsOfBison
<1>1. PICK new : new = Reduce(i, lists)
  OBVIOUS
<1>2. CASE i.t = "pair"
  <2>1. PICK p : p = <<KeyValue(i)>> \o lists.pairs
    OBVIOUS
  <2>2. p \in Seq(KeyValuePairs)
    BY <1>0, <1>2, <2>1, ItemFields, InFront
  <2>3. new = [lists EXCEPT !.pairs = p]
    BY <1>1, <1>2, <2>1 DEF Reduce
  <2>4. new \in ListsOfBison
    BY <2>2, <2>3 DEF ListsOfBison
  <2>5. ReducedTo(i, lists, new)
    BY <1>2, <2>1, <2>3 DEF ReducedTo, ListsOfBison
  <2>6. QED
    BY <1>1, <2>4, <2>5
<1>3. CASE i.t = "predicate"
  <2>1. PICK p : p = lists.predicates \cup {Declared(i)}
    OBVIOUS
  <2>2. p \in SUBSET Predicates
    <3>1. Declared(i) \in Predicates
      BY <1>3, ItemFields
    <3>2. QED
      BY <1>0, <2>1, <3>1
  <2>3. new = [lists EXCEPT !.predicates = p]
    BY <1>1, <1>3, <2>1 DEF Reduce
  <2>4. new \in ListsOfBison
    BY <2>2, <2>3 DEF ListsOfBison
  <2>5. ReducedTo(i, lists, new)
    BY <1>3, <2>1, <2>3 DEF ReducedTo, ListsOfBison
  <2>6. QED
    BY <1>1, <2>4, <2>5
<1>4. CASE i.t = "bb"
  <2>1. PICK b : b = <<lists.pairs>> \o lists.bases
    OBVIOUS
  <2>2. b \in Bases
    BY <1>0, <2>1, InFront DEF Bases
  <2>3. new = [lists EXCEPT !.bases = b, !.pairs = <<>>]
    BY <1>1, <1>4, <2>1 DEF Reduce
  <2>4. <<>> \in Seq(KeyValuePairs)
    BY EmptySeq
  <2>5. new \in ListsOfBison
    BY <2>2, <2>3, <2>4 DEF ListsOfBison
  <2>6. ReducedTo(i, lists, new)
    BY <1>4, <2>1, <2>3 DEF ReducedTo, ListsOfBison
  <2>7. QED
    BY <1>1, <2>5, <2>6
<1>5. CASE i.t = "cs"
  <2>1. PICK s : s = lists.signature \cup lists.predicates
    OBVIOUS
  <2>2. s \in SUBSET Predicates /\ {} \in SUBSET Predicates
    BY <1>0, <2>1
  <2>3. new = [lists EXCEPT !.signature = s, !.predicates = {}]
    BY <1>1, <1>5, <2>1 DEF Reduce
  <2>4. new \in ListsOfBison
    BY <2>2, <2>3 DEF ListsOfBison
  <2>5. ReducedTo(i, lists, new)
    BY <1>5, <2>1, <2>3 DEF ReducedTo, ListsOfBison
  <2>6. QED
    BY <1>1, <2>4, <2>5
<1>6. CASE i.t = "plan"
  <2>0. PICK w, b : w = i.nodes /\ b = BisonNodes(w)
    OBVIOUS
  <2>1. PICK m, r : /\ w = i.nodes /\ b = BisonNodes(w) /\ m = Behind(b, lists.nodes)
                    /\ r = {Len(b)} \cup {q + Len(b) : q \in lists.roots}
    <3>1. \E m : m = Behind(b, lists.nodes)
      OBVIOUS
    <3>2. \E r : r = {Len(b)} \cup {q + Len(b) : q \in lists.roots}
      OBVIOUS
    <3>3. QED
      BY <2>0, <3>1, <3>2
  <2>2. w \in Seq(Braces)
    BY <1>6, <2>1, ItemFields
  <2>3. b \in Seq(TreeNodes) /\ Len(b) = Len(w) /\ Len(w) \in Nat
    BY <2>1, <2>2, NodesRead, LenProperties
  <2>4. m \in Seq(TreeNodes)
    BY <1>0, <2>1, <2>3, BehindForm
  <2>5. r \in SUBSET Nat
    BY <1>0, <2>1, <2>3
  <2>6. new = [lists EXCEPT !.nodes = m, !.roots = r]
    BY <1>1, <1>6, <2>1 DEF Reduce, BisonNodes
  <2>7. new \in ListsOfBison
    BY <2>4, <2>5, <2>6 DEF ListsOfBison
  <2>8. ReducedTo(i, lists, new)
    BY <1>6, <2>1, <2>3, <2>6 DEF ReducedTo, ListsOfBison
  <2>9. QED
    BY <1>1, <2>7, <2>8
<1>7. i.t \in {"pair", "predicate", "bb", "cs", "plan"}
  BY DEF Items
<1>8. QED
  BY <1>2, <1>3, <1>4, <1>5, <1>6, <1>7

-----------------------------------------------------------------------------
(***************************************************************************)
(* The whole text: a tree of the items up to some place, and lists of the  *)
(* items behind it, make the same tree together wherever this place is.    *)
(***************************************************************************)
Joined(tree, lists) ==
  Tree(tree.bases \o lists.bases, Behind(tree.nodes, lists.nodes),
       tree.roots \cup {r + Len(tree.nodes) : r \in lists.roots},
       tree.signature \cup lists.signature)

RaisedTogether(old, m, n, back) ==
  {r + m : r \in back} = {m + n} \cup {r + (m + n) : r \in old}

LEMMA RootsRaised ==
  ASSUME NEW old \in SUBSET Nat, NEW m \in Nat, NEW n \in Nat,
         NEW back, back = {n} \cup {r + n : r \in old}
  PROVE  RaisedTogether(old, m, n, back)
<1>1. \A r \in old : r \in Nat /\ (r + n) + m = r + (m + n)
  OBVIOUS
<1>2. n + m = m + n
  OBVIOUS
<1>3. ASSUME NEW x \in {r + m : r \in back}
      PROVE  x \in {m + n} \cup {r + (m + n) : r \in old}
  <2>1. PICK q \in back : x = q + m
    OBVIOUS
  <2>2. q = n \/ \E r \in old : q = r + n
    OBVIOUS
  <2>3. QED
    BY <1>1, <1>2, <2>1, <2>2
<1>4. ASSUME NEW x \in {m + n} \cup {r + (m + n) : r \in old}
      PROVE  x \in {r + m : r \in back}
  <2>1. CASE x = m + n
    BY <1>2, <2>1
  <2>2. CASE x # m + n
    <3>1. PICK r \in old : x = r + (m + n)
      BY <2>2
    <3>2. r + n \in back /\ x = (r + n) + m
      BY <1>1, <3>1
    <3>3. QED
      BY <3>2
  <2>3. QED
    BY <2>1, <2>2
<1>5. QED
  BY <1>3, <1>4 DEF RaisedTogether

LEMMA JoinedStep ==
  ASSUME NEW tree \in Trees, NEW lists \in ListsOfBison, NEW text \in Seq(Items),
         NEW k \in 1 .. Len(text), text[k].t # "bad",
         text[k].t = "plan" => ~LoneChild(text[k].nodes),
         text[k].t = "bb" => PairsOf(text, k) = lists.pairs,
         text[k].t = "cs" => PredicatesOf(text, k) = lists.predicates
  PROVE  Joined(AddSection(tree, text, k), lists) = Joined(tree, Reduce(text[k], lists))
<1>0. /\ lists.pairs \in Seq(KeyValuePairs) /\ lists.predicates \in SUBSET Predicates
      /\ lists.bases \in Bases /\ lists.signature \in SUBSET Predicates
      /\ lists.nodes \in Seq(TreeNodes) /\ lists.roots \in SUBSET Nat
  BY DEF ListsOfBison
<1>1. /\ tree.bases \in Bases /\ tree.nodes \in Seq(TreeNodes)
      /\ tree.roots \in SUBSET Nat /\ tree.signature \in SUBSET Predicates
  BY TreeOf
<1>2. text[k] \in Items
  BY ElementOfSeq
<1>3. PICK new, less, i : /\ new = AddSection(tree, text, k) /\ i = text[k]
                          /\ less = Reduce(i, lists)
  OBVIOUS
<1>4. new \in Trees /\ Added(tree, text, k, new)
  BY <1>3, SectionAdded
<1>5. less \in ListsOfBison /\ ReducedTo(i, lists, less)
  BY <1>2, <1>3, ItemReduced
<1>6. CASE i.t = "bb"
  <2>1. new = Tree(Append(tree.bases, lists.pairs), tree.nodes, tree.roots, tree.signature)
    BY <1>3, <1>4, <1>6 DEF Added
  <2>2. /\ less.bases = <<lists.pairs>> \o lists.bases /\ less.signature = lists.signature
        /\ less.nodes = lists.nodes /\ less.roots = lists.roots
    BY <1>5, <1>6 DEF ReducedTo
  <2>3. Append(tree.bases, lists.pairs) \o lists.bases = tree.bases \o less.bases
    <3>1. tree.bases \in Seq(Seq(KeyValuePairs)) /\ lists.bases \in Seq(Seq(KeyValuePairs))
      BY <1>0, <1>1 DEF Bases
    <3>2. Appends(tree.bases, lists.pairs, lists.bases)
      BY <1>0, <3>1, AppendJoins, Zenon
    <3>3. QED
      BY <2>2, <3>2, Zenon DEF Appends
  <2>4. /\ new.bases = Append(tree.bases, lists.pairs) /\ new.nodes = tree.nodes
        /\ new.roots = tree.roots /\ new.signature = tree.signature
    BY <2>1 DEF Tree
  <2>5. QED
    BY <1>3, <2>2, <2>3, <2>4 DEF Joined
<1>7. CASE i.t = "cs"
  <2>1. new = Tree(tree.bases, tree.nodes, tree.roots, tree.signature \cup lists.predicates)
    BY <1>3, <1>4, <1>7 DEF Added
  <2>2. /\ less.signature = lists.signature \cup lists.predicates /\ less.bases = lists.bases
        /\ less.nodes = lists.nodes /\ less.roots = lists.roots
    BY <1>5, <1>7 DEF ReducedTo
  <2>3. /\ new.bases = tree.bases /\ new.nodes = tree.nodes
        /\ new.roots = tree.roots /\ new.signature = tree.signature \cup lists.predicates
    BY <2>1 DEF Tree
  <2>4. new.signature \cup lists.signature = tree.signature \cup less.signature
    BY <2>2, <2>3
  <2>5. QED
    BY <1>3, <2>2, <2>3, <2>4 DEF Joined
<1>8. CASE i.t = "plan"
  <2>1. PICK w, b : w = i.nodes /\ b = BisonNodes(w)
    OBVIOUS
  <2>2. w \in Seq(Braces) /\ ~LoneChild(w)
    BY <1>2, <1>3, <1>8, <2>1, ItemFields
  <2>3. /\ b \in Seq(TreeNodes) /\ Len(b) = Len(w) /\ Len(w) \in Nat
        /\ SpiritNodes(w) = b
    BY <2>1, <2>2, NodesRead, LenProperties
  <2>4. new = Tree(tree.bases, Behind(tree.nodes, b),
                   tree.roots \cup {Len(tree.nodes) + Len(w)}, tree.signature)
    BY <1>3, <1>4, <1>8, <2>1, <2>3 DEF Added
  <2>5. /\ less.nodes = Behind(b, lists.nodes) /\ less.bases = lists.bases
        /\ less.roots = {Len(w)} \cup {r + Len(w) : r \in lists.roots}
        /\ less.signature = lists.signature
    BY <1>5, <1>8, <2>1 DEF ReducedTo
  <2>6. /\ new.bases = tree.bases /\ new.nodes = Behind(tree.nodes, b)
        /\ new.roots = tree.roots \cup {Len(tree.nodes) + Len(w)}
        /\ new.signature = tree.signature
    BY <2>4 DEF Tree
  <2>7. Behind(new.nodes, lists.nodes) = Behind(tree.nodes, less.nodes)
    BY <1>0, <1>1, <2>3, <2>5, <2>6, BehindAssociates
  <2>8. Len(new.nodes) = Len(tree.nodes) + Len(w) /\ Len(tree.nodes) \in Nat
    BY <1>1, <2>3, <2>6, BehindForm, LenProperties
  <2>9. new.roots \cup {r + Len(new.nodes) : r \in lists.roots}
          = tree.roots \cup {r + Len(tree.nodes) : r \in less.roots}
    <3>1. PICK m, n : m = Len(tree.nodes) /\ n = Len(w)
      OBVIOUS
    <3>2. m \in Nat /\ n \in Nat
      BY <2>3, <2>8, <3>1
    <3>3. PICK old, back : old = lists.roots /\ back = less.roots
      OBVIOUS
    <3>4. back = {n} \cup {r + n : r \in old}
      BY <2>5, <3>1, <3>3
    <3>5. {r + m : r \in back} = {m + n} \cup {r + (m + n) : r \in old}
      <4>1. old \in SUBSET Nat
        BY <1>0, <3>3
      <4>2. RaisedTogether(old, m, n, back)
        BY <3>2, <3>4, <4>1, RootsRaised, Zenon
      <4>3. QED
        BY <4>2, Zenon DEF RaisedTogether
    <3>6. /\ new.roots = tree.roots \cup {m + n} /\ Len(new.nodes) = m + n
          /\ Len(tree.nodes) = m
      BY <2>6, <2>8, <3>1
    <3>7. (tree.roots \cup {m + n}) \cup {r + (m + n) : r \in old}
            = tree.roots \cup {r + m : r \in back}
      BY <3>5
    <3>8. QED
      BY <3>3, <3>6, <3>7
  <2>10. QED
    BY <1>3, <2>5, <2>6, <2>7, <2>9 DEF Joined
<1>9. CASE i.t \notin {"bb", "cs", "plan"}
  <2>1. new = tree
    BY <1>3, <1>4, <1>9 DEF Added
  <2>2. /\ less.bases = lists.bases /\ less.signature = lists.signature
        /\ less.nodes = lists.nodes /\ less.roots = lists.roots
    BY <1>5, <1>9 DEF ReducedTo
  <2>3. QED
    BY <1>3, <2>1, <2>2 DEF Joined
<1>10. QED
  BY <1>6, <1>7, <1>8, <1>9

\* f[k] is the tree of the first k items.
SpiritUpTo(f, text, n) ==
  f = [k \in 0 .. n |-> IF k = 0 THEN NoSections ELSE AddSection(f[k - 1], text, k)]

LEMMA SpiritAt ==
  ASSUME NEW f, NEW text, NEW n, SpiritUpTo(f, text, n), NEW k \in 0 .. n
  PROVE  f[k] = IF k = 0 THEN NoSections ELSE AddSection(f[k - 1], text, k)
<1> DEFINE e(j) == IF j = 0 THEN NoSections ELSE AddSection(f[j - 1], text, j)
<1>1. f = [j \in 0 .. n |-> e(j)]
  BY DEF SpiritUpTo
<1> HIDE DEF e
<1>2. f[k] = e(k)
  BY <1>1
<1>3. QED
  BY <1>2 DEF e

LEMMA SpiritExists ==
  ASSUME NEW text, NEW n \in Nat
  PROVE  \E f : SpiritUpTo(f, text, n)
<1> DEFINE W == {k \in Nat : ~ \E f : SpiritUpTo(f, text, k)}
<1>1. ASSUME W # {}
      PROVE  FALSE
  <2>1. W \in SUBSET Nat
    OBVIOUS
  <2>2. PICK m \in W : \A q \in W : m <= q
    BY <1>1, <2>1, LeastOf
  <2>3. m \in Nat /\ ~ \E f : SpiritUpTo(f, text, m)
    BY <2>2
  <2>4. CASE m = 0
    <3>1. PICK f : f = [k \in 0 .. 0 |-> NoSections]
      OBVIOUS
    <3>2. f = [k \in 0 .. 0 |-> IF k = 0 THEN NoSections ELSE AddSection(f[k - 1], text, k)]
      BY <3>1
    <3>3. QED
      BY <2>3, <2>4, <3>2 DEF SpiritUpTo
  <2>5. CASE m # 0
    <3>1. m - 1 \in Nat /\ ~(m <= m - 1)
      BY <2>3, <2>5
    <3>2. m - 1 \notin W
      BY <2>2, <3>1
    <3>3. PICK g : SpiritUpTo(g, text, m - 1)
      BY <3>1, <3>2
    <3>4. PICK f : f = [k \in 0 .. m |-> IF k = 0 THEN NoSections
                                        ELSE AddSection(g[k - 1], text, k)]
      OBVIOUS
    <3>5. \A k \in 0 .. m - 1 : f[k] = g[k]
      <4>1. SUFFICES ASSUME NEW k \in 0 .. m - 1
                     PROVE  f[k] = g[k]
        OBVIOUS
      <4>2. g[k] = IF k = 0 THEN NoSections ELSE AddSection(g[k - 1], text, k)
        BY <3>3, SpiritAt
      <4>3. k \in 0 .. m
        BY <2>3
      <4>4. f[k] = IF k = 0 THEN NoSections ELSE AddSection(g[k - 1], text, k)
        BY <3>4, <4>3
      <4>5. QED
        BY <4>2, <4>4
    <3>6. \A k \in 0 .. m : k # 0 => f[k - 1] = g[k - 1]
      <4>1. \A k \in 0 .. m : k # 0 => k - 1 \in 0 .. m - 1
        BY <2>3
      <4>2. QED
        BY <3>5, <4>1
    <3>7. f = [k \in 0 .. m |-> IF k = 0 THEN NoSections ELSE AddSection(f[k - 1], text, k)]
      BY <3>4, <3>6
    <3>8. QED
      BY <2>3, <3>7 DEF SpiritUpTo
  <2>6. QED
    BY <2>4, <2>5
<1>2. QED
  BY <1>1

LEMMA SpiritTreeIs ==
  ASSUME NEW text, Len(text) \in Nat
  PROVE  \E f : SpiritUpTo(f, text, Len(text)) /\ SpiritTree(text) = f[Len(text)]
<1>1. PICK f : f = CHOOSE g : SpiritUpTo(g, text, Len(text))
  OBVIOUS
<1>2. SpiritUpTo(f, text, Len(text))
  BY <1>1, SpiritExists
<1>3. SpiritTree(text) = f[Len(text)]
  BY <1>1 DEF SpiritTree, SpiritUpTo
<1>4. QED
  BY <1>2, <1>3

\* f[k] is what the items from place k on are reduced to.
BisonFrom(f, text, m) ==
  f = [k \in m .. Len(text) + 1 |->
         IF k > Len(text) THEN NoLists ELSE Reduce(text[k], f[k + 1])]

LEMMA BisonAt ==
  ASSUME NEW f, NEW text, NEW m, BisonFrom(f, text, m), NEW k \in m .. Len(text) + 1
  PROVE  f[k] = IF k > Len(text) THEN NoLists ELSE Reduce(text[k], f[k + 1])
<1> DEFINE e(j) == IF j > Len(text) THEN NoLists ELSE Reduce(text[j], f[j + 1])
<1>1. f = [j \in m .. Len(text) + 1 |-> e(j)]
  BY DEF BisonFrom
<1> HIDE DEF e
<1>2. f[k] = e(k)
  BY <1>1
<1>3. QED
  BY <1>2 DEF e

LEMMA BisonExists ==
  ASSUME NEW text, Len(text) \in Nat, NEW n \in 0 .. Len(text)
  PROVE  \E f : BisonFrom(f, text, Len(text) + 1 - n)
<1>0. PICK z : z = Len(text) + 1
  OBVIOUS
<1> DEFINE W == {k \in 0 .. Len(text) : ~ \E f : BisonFrom(f, text, z - k)}
<1>1. ASSUME W # {}
      PROVE  FALSE
  <2>1. W \in SUBSET Nat
    OBVIOUS
  <2>2. PICK d \in W : \A q \in W : d <= q
    BY <1>1, <2>1, LeastOf
  <2>3. d \in 0 .. Len(text) /\ ~ \E f : BisonFrom(f, text, z - d)
    BY <2>2
  <2>4. CASE d = 0
    <3>1. PICK f : f = [k \in z - 0 .. z |-> NoLists]
      OBVIOUS
    <3>2. \A k \in z - 0 .. z : k > Len(text)
      BY <1>0
    <3>3. f = [k \in z - 0 .. z |-> IF k > Len(text) THEN NoLists ELSE Reduce(text[k], f[k + 1])]
      BY <3>1, <3>2
    <3>4. QED
      BY <1>0, <2>3, <2>4, <3>3 DEF BisonFrom
  <2>5. CASE d # 0
    <3>0. PICK m : m = z - d
      OBVIOUS
    <3>1. /\ d - 1 \in 0 .. Len(text) /\ ~(d <= d - 1) /\ z - (d - 1) = m + 1
          /\ m \in Nat /\ m <= Len(text) /\ z \in Nat
      BY <1>0, <2>3, <2>5, <3>0
    <3>2. d - 1 \notin W
      BY <2>2, <3>1
    <3>3. PICK g : BisonFrom(g, text, m + 1)
      BY <3>1, <3>2
    <3>4. PICK f : f = [k \in m .. z |-> IF k > Len(text) THEN NoLists
                                        ELSE Reduce(text[k], g[k + 1])]
      OBVIOUS
    <3>5. \A k \in m + 1 .. z : f[k] = g[k]
      <4>1. SUFFICES ASSUME NEW k \in m + 1 .. z
                     PROVE  f[k] = g[k]
        OBVIOUS
      <4>2. g[k] = IF k > Len(text) THEN NoLists ELSE Reduce(text[k], g[k + 1])
        BY <1>0, <3>3, BisonAt
      <4>3. k \in m .. z
        BY <3>1
      <4>4. f[k] = IF k > Len(text) THEN NoLists ELSE Reduce(text[k], g[k + 1])
        BY <3>4, <4>3
      <4>5. QED
        BY <4>2, <4>4
    <3>6. \A k \in m .. z : k > Len(text) \/ f[k + 1] = g[k + 1]
      <4>1. \A k \in m .. z : k > Len(text) \/ k + 1 \in m + 1 .. z
        BY <1>0, <3>1
      <4>2. QED
        BY <3>5, <4>1
    <3>7. f = [k \in m .. z |-> IF k > Len(text) THEN NoLists ELSE Reduce(text[k], f[k + 1])]
      BY <3>4, <3>6
    <3>8. QED
      BY <1>0, <2>3, <3>0, <3>7 DEF BisonFrom
  <2>6. QED
    BY <2>4, <2>5
<1>2. QED
  BY <1>0, <1>1

LEMMA BisonTreeIs ==
  ASSUME NEW text, Len(text) \in Nat
  PROVE  \E f : /\ BisonFrom(f, text, 1)
                /\ BisonTree(text) = Tree(f[1].bases, f[1].nodes, f[1].roots, f[1].signature)
<1>1. PICK f : f = CHOOSE g : BisonFrom(g, text, 1)
  OBVIOUS
<1>2. BisonFrom(f, text, 1)
  <2>1. Len(text) \in 0 .. Len(text) /\ Len(text) + 1 - Len(text) = 1
    OBVIOUS
  <2>2. QED
    BY <1>1, <2>1, BisonExists
<1>3. BisonTree(text) = Tree(f[1].bases, f[1].nodes, f[1].roots, f[1].signature)
  BY <1>1 DEF BisonTree, BisonFrom, Tree
<1>4. QED
  BY <1>2, <1>3

LEMMA NothingRead ==
  /\ NoSections \in Trees /\ NoLists \in ListsOfBison
  /\ NoSections = Tree(<<>>, <<>>, {}, {})
<1>1. <<>> \in Bases /\ <<>> \in Seq(TreeNodes) /\ <<>> \in Seq(KeyValuePairs)
  BY EmptySeq DEF Bases
<1>2. {} \in SUBSET Nat /\ {} \in SUBSET Predicates
  OBVIOUS
<1>3. QED
  BY <1>1, <1>2 DEF NoSections, NoLists, Trees, ListsOfBison, Tree

\* The trees of all beginnings of a text.
LEMMA SpiritTyped ==
  ASSUME NEW text \in Seq(Items), NEW f, SpiritUpTo(f, text, Len(text)),
         NEW k \in 0 .. Len(text)
  PROVE  f[k] \in Trees
<1>0. Len(text) \in Nat
  BY LenProperties
<1> DEFINE W == {j \in 0 .. Len(text) : f[j] \notin Trees}
<1>1. ASSUME W # {}
      PROVE  FALSE
  <2>1. PICK m \in W : \A q \in W : m <= q
    <3>1. W \in SUBSET Nat
      OBVIOUS
    <3>2. QED
      BY <1>1, <3>1, LeastOf
  <2>2. m \in 0 .. Len(text) /\ f[m] \notin Trees
    BY <2>1
  <2>3. f[m] = IF m = 0 THEN NoSections ELSE AddSection(f[m - 1], text, m)
    BY <2>2, SpiritAt
  <2>4. CASE m = 0
    BY <2>2, <2>3, <2>4, NothingRead
  <2>5. CASE m # 0
    <3>1. m \in 1 .. Len(text) /\ m - 1 \in 0 .. Len(text) /\ ~(m <= m - 1)
      BY <1>0, <2>2, <2>5
    <3>2. f[m - 1] \in Trees
      BY <2>1, <3>1
    <3>3. QED
      BY <2>2, <2>3, <2>5, <3>1, <3>2, SectionAdded
  <2>6. QED
    BY <2>4, <2>5
<1>2. QED
  BY <1>1

\* In a program, a pair follows the header of a belief base or another pair, and
\* a predicate that of a signature or another predicate.
LEMMA WhatFollows ==
  ASSUME NEW text \in Seq(Items), Grammatical(text), NEW k \in 1 .. Len(text)
  PROVE  /\ text[k].t \in {"pair", "predicate", "bb", "cs", "plan"}
         /\ text[k].t = "pair" => k > 1 /\ text[k - 1].t \in {"bb", "pair"}
         /\ text[k].t = "predicate" => k > 1 /\ text[k - 1].t \in {"cs", "predicate"}
<1>1. Len(text) \in Nat /\ text[k] \in Items
  BY LenProperties, ElementOfSeq
<1>2. Fits(text, k)
  BY <1>1, AllFits
<1>3. text[k].t \in {"pair", "predicate", "bb", "cs", "plan", "bad"}
  BY <1>1 DEF Items
<1>4. QED
  BY <1>2, <1>3 DEF Fits, IsHeader, Continues

\* The lists from place k on, and what a header in front of them gets of them.
Gathered(f, text, k) ==
  /\ f[k] \in ListsOfBison
  /\ f[k].pairs = PairsOf(text, k - 1)
  /\ f[k].predicates = PredicatesOf(text, k - 1)

LEMMA GatheredStep ==
  ASSUME NEW text \in Seq(Items), Grammatical(text), NEW k \in 1 .. Len(text), NEW f,
         Gathered(f, text, k + 1), f[k] = Reduce(text[k], f[k + 1])
  PROVE  Gathered(f, text, k)
<1>1. /\ Len(text) \in Nat /\ text[k] \in Items /\ k \in 0 .. Len(text)
      /\ k - 1 \in 0 .. Len(text) /\ k - 1 + 1 = k /\ k + 1 - 1 = k
  BY LenProperties, ElementOfSeq
<1>2. PICK i, old, new : i = text[k] /\ old = f[k + 1] /\ new = f[k]
  OBVIOUS
<1>3. i.t \in {"pair", "predicate", "bb", "cs", "plan"}
  BY <1>2, WhatFollows
<1>4. /\ old \in ListsOfBison /\ old.pairs = PairsOf(text, k)
      /\ old.predicates = PredicatesOf(text, k)
  BY <1>1, <1>2 DEF Gathered
<1>5. new \in ListsOfBison /\ ReducedTo(i, old, new)
  BY <1>1, <1>2, <1>3, <1>4, ItemReduced
<1>6. ASSUME k < Len(text)
      PROVE  /\ text[k + 1].t = "pair" => i.t \in {"bb", "pair"}
             /\ text[k + 1].t = "predicate" => i.t \in {"cs", "predicate"}
  <2>1. k + 1 \in 1 .. Len(text)
    BY <1>1, <1>6
  <2>2. QED
    BY <1>1, <1>2, <2>1, WhatFollows
<1>7. i.t \notin {"bb", "pair"} => PairsOf(text, k) = <<>>
  BY <1>1, <1>6, NoPairs
<1>8. i.t \notin {"cs", "predicate"} => PredicatesOf(text, k) = {}
  BY <1>1, <1>6, NoPredicates
<1>9. i.t # "pair" => PairsOf(text, k - 1) = <<>>
  BY <1>1, <1>2, NoPairs
<1>10. i.t # "predicate" => PredicatesOf(text, k - 1) = {}
  BY <1>1, <1>2, NoPredicates
<1>11. new.pairs = PairsOf(text, k - 1)
  <2>1. CASE i.t = "pair"
    <3>1. new.pairs = <<KeyValue(i)>> \o PairsOf(text, k)
      BY <1>4, <1>5, <2>1 DEF ReducedTo
    <3>2. QED
      BY <1>2, <2>1, <3>1, FirstPair
  <2>2. CASE i.t = "bb"
    BY <1>5, <1>9, <2>2 DEF ReducedTo
  <2>3. CASE i.t \in {"predicate", "cs", "plan"}
    BY <1>4, <1>5, <1>7, <1>9, <2>3 DEF ReducedTo
  <2>4. QED
    BY <1>3, <2>1, <2>2, <2>3
<1>12. new.predicates = PredicatesOf(text, k - 1)
  <2>1. CASE i.t = "predicate"
    <3>1. new.predicates = PredicatesOf(text, k) \cup {Declared(i)}
      BY <1>4, <1>5, <2>1 DEF ReducedTo
    <3>2. PredicatesOf(text, k - 1) = {Declared(i)} \cup PredicatesOf(text, k)
      BY <1>2, <2>1, FirstPredicate
    <3>3. QED
      BY <3>1, <3>2
  <2>2. CASE i.t = "cs"
    BY <1>5, <1>10, <2>2 DEF ReducedTo
  <2>3. CASE i.t \in {"pair", "bb", "plan"}
    BY <1>4, <1>5, <1>8, <1>10, <2>3 DEF ReducedTo
  <2>4. QED
    BY <1>3, <2>1, <2>2, <2>3
<1>13. QED
  BY <1>2, <1>5, <1>11, <1>12 DEF Gathered

LEMMA GatheredAlways ==
  ASSUME NEW text \in Seq(Items), Grammatical(text), NEW f, BisonFrom(f, text, 1),
         NEW k \in 1 .. Len(text) + 1
  PROVE  Gathered(f, text, k)
<1>0. PICK z : z = Len(text) + 1
  OBVIOUS
<1>1. Len(text) \in Nat /\ z \in Nat /\ Len(text) \in 0 .. Len(text) /\ z - 1 = Len(text)
  BY <1>0, LenProperties
<1> DEFINE W == {d \in 0 .. Len(text) : ~Gathered(f, text, z - d)}
<1>2. ASSUME W # {}
      PROVE  FALSE
  <2>1. PICK d \in W : \A q \in W : d <= q
    <3>1. W \in SUBSET Nat
      OBVIOUS
    <3>2. QED
      BY <1>2, <3>1, LeastOf
  <2>2. d \in 0 .. Len(text) /\ ~Gathered(f, text, z - d)
    BY <2>1
  <2>3. CASE d = 0
    <3>1. z - d = z /\ z \in 1 .. Len(text) + 1 /\ z > Len(text)
      BY <1>0, <1>1, <2>3
    <3>2. f[z] = NoLists
      BY <3>1, BisonAt
    <3>3. PairsOf(text, z - 1) = <<>> /\ PredicatesOf(text, z - 1) = {}
      BY <1>1, NoPairs, NoPredicates
    <3>4. Gathered(f, text, z)
      BY <3>2, <3>3, NothingRead DEF Gathered, NoLists
    <3>5. QED
      BY <2>2, <3>1, <3>4
  <2>4. CASE d # 0
    <3>1. PICK m : m = z - d
      OBVIOUS
    <3>2. /\ m \in 1 .. Len(text) /\ m \in 1 .. Len(text) + 1 /\ ~(m > Len(text))
          /\ d - 1 \in 0 .. Len(text) /\ ~(d <= d - 1) /\ z - (d - 1) = m + 1
      BY <1>0, <1>1, <2>2, <2>4, <3>1
    <3>3. Gathered(f, text, m + 1)
      BY <2>1, <3>2
    <3>4. f[m] = Reduce(text[m], f[m + 1])
      BY <3>2, BisonAt
    <3>5. Gathered(f, text, m)
      BY <3>2, <3>3, <3>4, GatheredStep
    <3>6. QED
      BY <2>2, <3>1, <3>5
  <2>5. QED
    BY <2>3, <2>4
<1>3. z - k \in 0 .. Len(text) /\ z - (z - k) = k
  BY <1>0, <1>1
<1>4. z - k \notin W
  BY <1>2
<1>5. QED
  BY <1>3, <1>4

LEMMA JoinedAlways ==
  ASSUME NEW text \in Seq(Items), Grammatical(text), ~HasLoneChild(text),
         NEW f, SpiritUpTo(f, text, Len(text)), NEW g, BisonFrom(g, text, 1),
         NEW k \in 0 .. Len(text)
  PROVE  Joined(f[k], g[k + 1]) = Joined(f[0], g[1])
<1>0. Len(text) \in Nat /\ DOMAIN text = 1 .. Len(text)
  BY LenProperties
<1> DEFINE W == {j \in 0 .. Len(text) : Joined(f[j], g[j + 1]) # Joined(f[0], g[1])}
<1>1. ASSUME W # {}
      PROVE  FALSE
  <2>1. PICK m \in W : \A q \in W : m <= q
    <3>1. W \in SUBSET Nat
      OBVIOUS
    <3>2. QED
      BY <1>1, <3>1, LeastOf
  <2>2. m \in 0 .. Len(text) /\ Joined(f[m], g[m + 1]) # Joined(f[0], g[1])
    BY <2>1
  <2>3. m # 0
    <3>1. 0 + 1 = 1
      OBVIOUS
    <3>2. QED
      BY <2>2, <3>1
  <2>4. /\ m \in 1 .. Len(text) /\ m - 1 \in 0 .. Len(text) /\ ~(m <= m - 1)
        /\ m \in 1 .. Len(text) + 1 /\ m + 1 \in 1 .. Len(text) + 1 /\ ~(m > Len(text))
        /\ m - 1 + 1 = m /\ m + 1 - 1 = m
    BY <1>0, <2>2, <2>3
  <2>5. Joined(f[m - 1], g[m]) = Joined(f[0], g[1])
    BY <2>1, <2>4
  <2>6. f[m] = AddSection(f[m - 1], text, m)
    BY <2>2, <2>3, SpiritAt
  <2>7. g[m] = Reduce(text[m], g[m + 1])
    BY <2>4, BisonAt
  <2>8. f[m - 1] \in Trees
    BY <2>4, SpiritTyped
  <2>9. /\ g[m + 1] \in ListsOfBison /\ PairsOf(text, m) = g[m + 1].pairs
        /\ PredicatesOf(text, m) = g[m + 1].predicates
    BY <2>4, GatheredAlways DEF Gathered
  <2>10. text[m].t # "bad" /\ (text[m].t = "plan" => ~LoneChild(text[m].nodes))
    BY <1>0, <2>4, WhatFollows, LoneChildren
  <2>11. Joined(AddSection(f[m - 1], text, m), g[m + 1])
           = Joined(f[m - 1], Reduce(text[m], g[m + 1]))
    BY <2>4, <2>8, <2>9, <2>10, JoinedStep
  <2>12. QED
    BY <2>2, <2>5, <2>6, <2>7, <2>11
<1>2. QED
  BY <1>1

\* The part of a tree that a parser has not read yet may be empty at both ends.
LEMMA JoinedEnds ==
  /\ \A tree \in Trees : Joined(tree, NoLists) = tree
  /\ \A lists \in ListsOfBison : Joined(NoSections, lists)
       = Tree(lists.bases, lists.nodes, lists.roots, lists.signature)
<1>1. ASSUME NEW tree \in Trees
      PROVE  Joined(tree, NoLists) = tree
  <2>1. /\ tree.bases \in Bases /\ tree.nodes \in Seq(TreeNodes)
        /\ tree.roots \in SUBSET Nat /\ tree.signature \in SUBSET Predicates
        /\ tree = Tree(tree.bases, tree.nodes, tree.roots, tree.signature)
    BY TreeOf
  <2>2. /\ NoLists.bases = <<>> /\ NoLists.nodes = <<>> /\ NoLists.roots = {}
        /\ NoLists.signature = {}
    BY DEF NoLists
  <2>3. tree.bases \o <<>> = tree.bases
    BY <2>1, ConcatEmptySeq DEF Bases
  <2>4. Behind(tree.nodes, <<>>) = tree.nodes
    BY <2>1, BehindNothing
  <2>5. {r + Len(tree.nodes) : r \in {}} = {}
    OBVIOUS
  <2>6. tree.roots \cup {} = tree.roots /\ tree.signature \cup {} = tree.signature
    OBVIOUS
  <2>7. QED
    BY <2>1, <2>2, <2>3, <2>4, <2>5, <2>6 DEF Joined
<1>2. ASSUME NEW lists \in ListsOfBison
      PROVE  Joined(NoSections, lists)
               = Tree(lists.bases, lists.nodes, lists.roots, lists.signature)
  <2>1. /\ lists.bases \in Bases /\ lists.nodes \in Seq(TreeNodes)
        /\ lists.roots \in SUBSET Nat /\ lists.signature \in SUBSET Predicates
    BY DEF ListsOfBison
  <2>2. /\ NoSections.bases = <<>> /\ NoSections.nodes = <<>> /\ NoSections.roots = {}
        /\ NoSections.signature = {}
    BY DEF NoSections
  <2>3. <<>> \o lists.bases = lists.bases
    BY <2>1, ConcatEmptySeq DEF Bases
  <2>4. Behind(<<>>, lists.nodes) = lists.nodes
    BY <2>1, BehindNothing
  <2>5. {r + Len(<<>>) : r \in lists.roots} = lists.roots
    <3>1. Len(<<>>) = 0 /\ \A r \in lists.roots : r + 0 = r
      BY <2>1
    <3>2. QED
      BY <3>1
  <2>6. {} \cup lists.roots = lists.roots /\ {} \cup lists.signature = lists.signature
    OBVIOUS
  <2>7. QED
    BY <2>2, <2>3, <2>4, <2>5, <2>6 DEF Joined
<1>3. QED
  BY <1>1, <1>2

\* SpiritParser.cpp:105 and BisonParserImpl.ypp:86: both parsers make the same tree
\* of a program without a section with one child.
THEOREM TreesAgree ==
  ASSUME NEW text \in Seq(Items), Grammatical(text), ~HasLoneChild(text)
  PROVE  SpiritTree(text) = BisonTree(text)
<1>1. Len(text) \in Nat /\ Len(text) \in 0 .. Len(text) /\ 0 \in 0 .. Len(text)
      /\ Len(text) + 1 > Len(text) /\ 1 \in 1 .. Len(text) + 1
      /\ Len(text) + 1 \in 1 .. Len(text) + 1
  BY LenProperties
<1>2. PICK f : SpiritUpTo(f, text, Len(text)) /\ SpiritTree(text) = f[Len(text)]
  BY <1>1, SpiritTreeIs
<1>3. PICK g : /\ BisonFrom(g, text, 1)
               /\ BisonTree(text) = Tree(g[1].bases, g[1].nodes, g[1].roots, g[1].signature)
  BY <1>1, BisonTreeIs
<1>4. Joined(f[Len(text)], g[Len(text) + 1]) = Joined(f[0], g[1])
  BY <1>1, <1>2, <1>3, JoinedAlways
<1>5. f[0] = NoSections /\ g[Len(text) + 1] = NoLists
  BY <1>1, <1>2, <1>3, SpiritAt, BisonAt
<1>6. f[Len(text)] \in Trees
  BY <1>1, <1>2, SpiritTyped
<1>7. g[1] \in ListsOfBison
  BY <1>1, <1>3, GatheredAlways DEF Gathered
<1>8. QED
  BY <1>2, <1>3, <1>4, <1>5, <1>6, <1>7, JoinedEnds

\* A tree is not mistaken for none.
LEMMA TreeIsSome ==
  ASSUME NEW tree \in Trees
  PROVE  tree # NoTree
<1>1. "bases" \in DOMAIN tree
  BY DEF Trees
<1>2. "bases" \notin DOMAIN NoTree
  BY DEF NoTree
<1>3. QED
  BY <1>1, <1>2

LEMMA SpiritMakesTree ==
  ASSUME NEW text \in Seq(Items)
  PROVE  SpiritTree(text) \in Trees
<1>1. Len(text) \in Nat /\ Len(text) \in 0 .. Len(text)
  BY LenProperties
<1>2. PICK f : SpiritUpTo(f, text, Len(text)) /\ SpiritTree(text) = f[Len(text)]
  BY <1>1, SpiritTreeIs
<1>3. QED
  BY <1>1, <1>2, SpiritTyped

LEMMA BisonMakesTree ==
  ASSUME NEW text \in Seq(Items), Grammatical(text)
  PROVE  BisonTree(text) \in Trees
<1>1. Len(text) \in Nat /\ 1 \in 1 .. Len(text) + 1
  BY LenProperties
<1>2. PICK g : /\ BisonFrom(g, text, 1)
               /\ BisonTree(text) = Tree(g[1].bases, g[1].nodes, g[1].roots, g[1].signature)
  BY <1>1, BisonTreeIs
<1>3. g[1] \in ListsOfBison
  BY <1>1, <1>2, GatheredAlways DEF Gathered
<1>4. QED
  BY <1>2, <1>3, TreeTyped DEF ListsOfBison

-----------------------------------------------------------------------------
(***************************************************************************)
(* A name is read through a wrong pointer only in a section with one       *)
(* child.                                                                  *)
(***************************************************************************)
NoneWrong(nodes) == \A n \in 1 .. Len(nodes) : ~Wrong(nodes[n])

LEMMA DamagedIs ==
  ASSUME NEW tree \in Trees
  PROVE  IsDamaged(tree) <=> ~NoneWrong(tree.nodes)
<1>1. DOMAIN tree.nodes = 1 .. Len(tree.nodes)
  BY TreeOf, LenProperties
<1>2. QED
  BY <1>1 DEF IsDamaged, NoneWrong, Wrong

LEMMA ShiftedWrong ==
  ASSUME NEW node \in TreeNodes, NEW a \in Nat
  PROVE  Wrong(Shifted(node, a)) <=> Wrong(node)
<1>1. CASE node \in Sources
  BY <1>1, ShiftedForm
<1>2. CASE node \in Sections
  BY <1>2, ShiftedForm DEF Sections, Wrong
<1>3. QED
  BY <1>1, <1>2 DEF TreeNodes

LEMMA BehindWrong ==
  ASSUME NEW s \in Seq(TreeNodes), NEW t \in Seq(TreeNodes), NoneWrong(s), NoneWrong(t)
  PROVE  NoneWrong(Behind(s, t))
<1>1. Len(s) \in Nat /\ Len(t) \in Nat
  BY LenProperties
<1>2. PICK u, g : u = AllShifted(t, Len(s)) /\ g = s \o u
  OBVIOUS
<1>3. /\ u \in Seq(TreeNodes) /\ Len(u) = Len(t)
      /\ \A i \in 1 .. Len(t) : u[i] = Shifted(t[i], Len(s))
  BY <1>1, <1>2, AllShiftedTyped
<1>4. JoinOf(g, s, u)
  BY <1>2, <1>3, JoinedElements, Zenon
<1>5. ASSUME NEW i \in 1 .. Len(g)
      PROVE  ~Wrong(g[i])
  <2>1. CASE i <= Len(s)
    <3>1. g[i] = s[i] /\ i \in 1 .. Len(s)
      BY <1>1, <1>4, <2>1 DEF JoinOf
    <3>2. QED
      BY <3>1 DEF NoneWrong
  <2>2. CASE ~(i <= Len(s))
    <3>1. PICK j : j = i - Len(s)
      OBVIOUS
    <3>2. g[i] = u[j] /\ j \in 1 .. Len(t)
      BY <1>1, <1>3, <1>4, <2>2, <3>1 DEF JoinOf
    <3>3. t[j] \in TreeNodes /\ ~Wrong(t[j])
      BY <3>2, ElementOfSeq DEF NoneWrong
    <3>4. QED
      BY <1>1, <1>3, <3>2, <3>3, ShiftedWrong
  <2>3. QED
    BY <2>1, <2>2
<1>6. QED
  BY <1>2, <1>5, BehindForm DEF NoneWrong

LEMMA SpiritUndamaged ==
  ASSUME NEW text \in Seq(Items), ~HasLoneChild(text)
  PROVE  ~IsDamaged(SpiritTree(text))
<1>0. Len(text) \in Nat /\ DOMAIN text = 1 .. Len(text) /\ Len(text) \in 0 .. Len(text)
  BY LenProperties
<1>1. PICK f : SpiritUpTo(f, text, Len(text)) /\ SpiritTree(text) = f[Len(text)]
  BY <1>0, SpiritTreeIs
<1> DEFINE W == {k \in 0 .. Len(text) : ~NoneWrong(f[k].nodes)}
<1>2. ASSUME W # {}
      PROVE  FALSE
  <2>1. PICK m \in W : \A q \in W : m <= q
    <3>1. W \in SUBSET Nat
      OBVIOUS
    <3>2. QED
      BY <1>2, <3>1, LeastOf
  <2>2. m \in 0 .. Len(text) /\ ~NoneWrong(f[m].nodes)
    BY <2>1
  <2>3. m # 0
    <3>1. m = 0 => f[m].nodes = <<>>
      BY <1>1, <2>2, SpiritAt DEF NoSections
    <3>2. NoneWrong(<<>>)
      BY DEF NoneWrong
    <3>3. QED
      BY <2>2, <3>1, <3>2
  <2>4. m \in 1 .. Len(text) /\ m - 1 \in 0 .. Len(text) /\ ~(m <= m - 1)
    BY <1>0, <2>2, <2>3
  <2>5. PICK old, new, i : old = f[m - 1] /\ new = f[m] /\ i = text[m]
    OBVIOUS
  <2>6. old \in Trees /\ NoneWrong(old.nodes) /\ i \in Items
    BY <1>1, <2>1, <2>4, <2>5, SpiritTyped, ElementOfSeq
  <2>7. new = AddSection(old, text, m)
    BY <1>1, <2>2, <2>3, <2>5, SpiritAt
  <2>8. Added(old, text, m, new)
    BY <2>4, <2>6, <2>7, SectionAdded
  <2>9. CASE i.t = "plan"
    <3>1. PICK w, b : w = i.nodes /\ b = SpiritNodes(w)
      OBVIOUS
    <3>2. w \in Seq(Braces) /\ ~LoneChild(w)
      BY <1>0, <2>4, <2>5, <2>6, <2>9, <3>1, ItemFields, LoneChildren
    <3>3. b \in Seq(TreeNodes) /\ b = BisonNodes(w) /\ Len(b) = Len(w)
          /\ \A n \in 1 .. Len(w) : ~Wrong(BisonNodes(w)[n])
      BY <3>1, <3>2, NodesRead
    <3>4. NoneWrong(b)
      BY <3>3 DEF NoneWrong
    <3>5. old.nodes \in Seq(TreeNodes)
      BY <2>6, TreeOf
    <3>6. new.nodes = Behind(old.nodes, b)
      BY <2>5, <2>8, <2>9, <3>1 DEF Added, Tree
    <3>7. QED
      BY <2>2, <2>5, <2>6, <3>3, <3>4, <3>5, <3>6, BehindWrong
  <2>10. CASE i.t # "plan"
    <3>1. new.nodes = old.nodes
      BY <2>5, <2>8, <2>10 DEF Added, Tree
    <3>2. QED
      BY <2>2, <2>5, <2>6, <3>1
  <2>11. QED
    BY <2>9, <2>10
<1>3. NoneWrong(SpiritTree(text).nodes)
  BY <1>0, <1>1, <1>2
<1>4. QED
  BY <1>3, SpiritMakesTree, DamagedIs

LEMMA BisonUndamaged ==
  ASSUME NEW text \in Seq(Items), Grammatical(text)
  PROVE  ~IsDamaged(BisonTree(text))
<1>0. PICK z : z = Len(text) + 1
  OBVIOUS
<1>1. Len(text) \in Nat /\ z \in Nat /\ Len(text) \in 0 .. Len(text) /\ z - Len(text) = 1
  BY <1>0, LenProperties
<1>2. PICK g : /\ BisonFrom(g, text, 1)
               /\ BisonTree(text) = Tree(g[1].bases, g[1].nodes, g[1].roots, g[1].signature)
  BY <1>1, BisonTreeIs
<1> DEFINE W == {d \in 0 .. Len(text) : ~NoneWrong(g[z - d].nodes)}
<1>3. ASSUME W # {}
      PROVE  FALSE
  <2>1. PICK d \in W : \A q \in W : d <= q
    <3>1. W \in SUBSET Nat
      OBVIOUS
    <3>2. QED
      BY <1>3, <3>1, LeastOf
  <2>2. d \in 0 .. Len(text) /\ ~NoneWrong(g[z - d].nodes)
    BY <2>1
  <2>3. CASE d = 0
    <3>1. z - d = z /\ z \in 1 .. Len(text) + 1 /\ z > Len(text)
      BY <1>0, <1>1, <2>3
    <3>2. g[z] = NoLists
      BY <1>2, <3>1, BisonAt
    <3>3. NoLists.nodes = <<>> /\ NoneWrong(<<>>)
      BY DEF NoLists, NoneWrong
    <3>4. QED
      BY <2>2, <3>1, <3>2, <3>3
  <2>4. CASE d # 0
    <3>1. PICK m : m = z - d
      OBVIOUS
    <3>2. /\ m \in 1 .. Len(text) /\ m \in 1 .. Len(text) + 1 /\ ~(m > Len(text))
          /\ m + 1 \in 1 .. Len(text) + 1
          /\ d - 1 \in 0 .. Len(text) /\ ~(d <= d - 1) /\ z - (d - 1) = m + 1
      BY <1>0, <1>1, <2>2, <2>4, <3>1
    <3>3. PICK old, new, i : old = g[m + 1] /\ new = g[m] /\ i = text[m]
      OBVIOUS
    <3>4. NoneWrong(old.nodes) /\ i \in Items /\ i.t # "bad"
      BY <2>1, <3>2, <3>3, WhatFollows, ElementOfSeq
    <3>5. old \in ListsOfBison
      BY <1>2, <3>2, <3>3, GatheredAlways DEF Gathered
    <3>6. ReducedTo(i, old, new)
      <4>1. new = Reduce(i, old)
        BY <1>2, <3>2, <3>3, BisonAt
      <4>2. QED
        BY <3>4, <3>5, <4>1, ItemReduced
    <3>7. CASE i.t = "plan"
      <4>1. PICK w, b : w = i.nodes /\ b = BisonNodes(w)
        OBVIOUS
      <4>2. w \in Seq(Braces)
        BY <3>4, <3>7, <4>1, ItemFields
      <4>3. b \in Seq(TreeNodes) /\ Len(b) = Len(w) /\ \A n \in 1 .. Len(w) : ~Wrong(b[n])
        BY <4>1, <4>2, NodesRead
      <4>4. NoneWrong(b)
        BY <4>3 DEF NoneWrong
      <4>5. new.nodes = Behind(b, old.nodes) /\ old.nodes \in Seq(TreeNodes)
        BY <3>5, <3>6, <3>7, <4>1 DEF ReducedTo, ListsOfBison
      <4>6. QED
        BY <2>2, <3>1, <3>3, <3>4, <4>3, <4>4, <4>5, BehindWrong
    <3>8. CASE i.t # "plan"
      BY <2>2, <3>1, <3>3, <3>4, <3>6, <3>8 DEF ReducedTo
    <3>9. QED
      BY <3>7, <3>8
  <2>5. QED
    BY <2>3, <2>4
<1>4. NoneWrong(g[1].nodes)
  BY <1>1, <1>3
<1>5. BisonTree(text).nodes = g[1].nodes
  BY <1>2 DEF Tree
<1>6. QED
  BY <1>4, <1>5, BisonMakesTree, DamagedIs

-----------------------------------------------------------------------------
(***************************************************************************)
(* Sections with one child in parts of a text.                             *)
(***************************************************************************)
Occurs(x, text) == \E i \in 1 .. Len(text) : text[i] = x

LEMMA OccursJoined ==
  ASSUME NEW S, NEW a \in Seq(S), NEW b \in Seq(S), NEW x, Occurs(x, a) \/ Occurs(x, b)
  PROVE  Occurs(x, a \o b)
<1>1. PICK g : g = a \o b
  OBVIOUS
<1>2. Len(a) \in Nat /\ Len(b) \in Nat /\ JoinOf(g, a, b)
  BY <1>1, JoinedElements, LenProperties
<1>3. CASE Occurs(x, a)
  <2>1. PICK i \in 1 .. Len(a) : a[i] = x
    BY <1>3 DEF Occurs
  <2>2. i \in 1 .. Len(g) /\ g[i] = x
    BY <1>2, <2>1 DEF JoinOf
  <2>3. QED
    BY <1>1, <2>2 DEF Occurs
<1>4. CASE Occurs(x, b)
  <2>1. PICK i \in 1 .. Len(b) : b[i] = x
    BY <1>4 DEF Occurs
  <2>2. PICK j : j = Len(a) + i
    OBVIOUS
  <2>3. j \in 1 .. Len(g) /\ ~(j <= Len(a)) /\ j - Len(a) = i
    BY <1>2, <2>2 DEF JoinOf
  <2>4. g[j] = x
    BY <1>2, <2>1, <2>3 DEF JoinOf
  <2>5. QED
    BY <1>1, <2>3, <2>4 DEF Occurs
<1>5. QED
  BY <1>3, <1>4

\* What stands in one of several texts stands in all of them together.
LEMMA OccursFlattened ==
  ASSUME NEW S, NEW s \in Seq(Seq(S)), NEW k \in 1 .. Len(s), NEW x, Occurs(x, s[k])
  PROVE  Occurs(x, FlattenSeq(s))
<1> DEFINE Fails(q) == \E j \in 1 .. Len(q) : Occurs(x, q[j]) /\ ~Occurs(x, FlattenSeq(q))
           W == {n \in Nat : \E q \in Seq(Seq(S)) : Len(q) = n /\ Fails(q)}
<1>1. ASSUME W # {}
      PROVE  FALSE
  <2>1. PICK n \in W : \A m \in W : n <= m
    <3>1. W \in SUBSET Nat
      OBVIOUS
    <3>2. QED
      BY <1>1, <3>1, LeastOf
  <2>2. PICK q \in Seq(Seq(S)) : Len(q) = n /\ Fails(q)
    BY <2>1
  <2>3. PICK j \in 1 .. Len(q) : Occurs(x, q[j]) /\ ~Occurs(x, FlattenSeq(q))
    BY <2>2
  <2>4. q # <<>> /\ n \in Nat \ {0}
    BY <2>1, <2>2, <2>3, EmptySeq
  <2>5. PICK h, t : h = Head(q) /\ t = Tail(q)
    OBVIOUS
  <2>6. /\ h \in Seq(S) /\ h = q[1] /\ t \in Seq(Seq(S)) /\ Len(t) = n - 1
        /\ \A i \in 1 .. Len(t) : t[i] = q[i + 1]
    BY <2>2, <2>4, <2>5, HeadTailProperties
  <2>7. FlattenSeq(q) = h \o FlattenSeq(t) /\ FlattenSeq(t) \in Seq(S)
    BY <2>4, <2>5, <2>6, FlattenCons, FlattenType
  <2>8. Occurs(x, h) \/ Occurs(x, FlattenSeq(t))
    <3>1. CASE j = 1
      BY <2>3, <2>6, <3>1
    <3>2. CASE j # 1
      <4>1. PICK i : i = j - 1
        OBVIOUS
      <4>2. i \in 1 .. Len(t) /\ t[i] = q[j]
        <5>1. i \in 1 .. Len(t) /\ i + 1 = j
          BY <2>2, <2>4, <2>6, <3>2, <4>1
        <5>2. QED
          BY <2>6, <5>1
      <4>3. n - 1 \in Nat /\ ~(n <= n - 1)
        BY <2>4
      <4>4. n - 1 \notin W
        BY <2>1, <4>3
      <4>5. ~Fails(t)
        BY <2>6, <4>3, <4>4
      <4>6. QED
        BY <2>3, <4>2, <4>5
    <3>3. QED
      BY <3>1, <3>2
  <2>9. QED
    BY <2>3, <2>6, <2>7, <2>8, OccursJoined
<1>2. Len(s) \in Nat
  BY LenProperties
<1>3. Len(s) \notin W
  BY <1>1
<1>4. ~Fails(s)
  BY <1>2, <1>3
<1>5. QED
  BY <1>4

LEMMA LoneOccurs ==
  ASSUME NEW text \in Seq(Items)
  PROVE  HasLoneChild(text) <=> \E i : Occurs(i, text) /\ i.t = "plan" /\ LoneChild(i.nodes)
<1>1. DOMAIN text = 1 .. Len(text)
  BY LenProperties
<1>2. QED
  BY <1>1, LoneChildren DEF Occurs

LEMMA LoneInWhole ==
  ASSUME NEW s \in Seq(Seq(Items)), NEW k \in 1 .. Len(s), HasLoneChild(s[k])
  PROVE  HasLoneChild(FlattenSeq(s))
<1>1. s[k] \in Seq(Items) /\ FlattenSeq(s) \in Seq(Items)
  BY ElementOfSeq, FlattenType
<1>2. PICK i : Occurs(i, s[k]) /\ i.t = "plan" /\ LoneChild(i.nodes)
  BY <1>1, LoneOccurs
<1>3. Occurs(i, FlattenSeq(s))
  BY <1>2, OccursFlattened
<1>4. QED
  BY <1>1, <1>2, <1>3, LoneOccurs

LEMMA LoneInBeginning ==
  ASSUME NEW text \in Seq(Items), NEW n \in 0 .. Len(text), HasLoneChild(SubSeq(text, 1, n))
  PROVE  HasLoneChild(text)
<1>1. Len(text) \in Nat
  BY LenProperties
<1>2. 1 \in 1 .. Len(text) + 1 /\ n \in 1 - 1 .. Len(text)
  BY <1>1
<1>3. PICK b : b = SubSeq(text, 1, n)
  OBVIOUS
<1>4. /\ b \in Seq(Items) /\ Len(b) = n - 1 + 1
      /\ \A i \in 1 .. n - 1 + 1 : b[i] = text[1 + i - 1]
  BY <1>2, <1>3, Slice
<1>5. PICK i : Occurs(i, b) /\ i.t = "plan" /\ LoneChild(i.nodes)
  BY <1>3, <1>4, LoneOccurs
<1>6. PICK j \in 1 .. Len(b) : b[j] = i
  BY <1>5 DEF Occurs
<1>7. j \in 1 .. Len(text) /\ 1 + j - 1 = j /\ j \in 1 .. n - 1 + 1
  BY <1>1, <1>4, <1>6
<1>8. Occurs(i, text)
  BY <1>4, <1>6, <1>7 DEF Occurs
<1>9. QED
  BY <1>5, <1>8, LoneOccurs

\* A text that is a program is accepted as a whole.
LEMMA AllAccepted ==
  ASSUME NEW text \in Seq(Items), Grammatical(text)
  PROVE  SubSeq(text, 1, Accepted(text)) = text
  BY SubSeqFull DEF Grammatical

\* One text alone.
LEMMA FlattenOne ==
  ASSUME NEW S, NEW t \in Seq(S)
  PROVE  FlattenSeq(<<t>>) = t
<1>1. <<>> \in Seq(Seq(S)) /\ Append(<<>>, t) = <<t>>
  OBVIOUS
<1>2. FlattenSeq(Append(<<>>, t)) = <<>> \o t
  BY <1>1, FlattenAppend, FlattenEmpty
<1>3. <<>> \o t = t
  BY ConcatEmptySeq
<1>4. QED
  BY <1>1, <1>2, <1>3

-----------------------------------------------------------------------------
(***************************************************************************)
(* Both programs, from the text of a plan to what they end with.           *)
(***************************************************************************)
\* The text that a file name stands for.
TextOf(f) == IF f = "--" THEN StandardInput ELSE Files[f]

ReadTexts(n) == [k \in 1 .. n |-> TextOf(inputFiles[k])]

Opened(n) == \A k \in 1 .. n : inputFiles[k] = "--" \/ inputFiles[k] \in DOMAIN Files

\* Standard input can be read once.
Twice(files) == \E j, k \in DOMAIN files : j # k /\ files[j] = "--" /\ files[k] = "--"

PlanKinds == {"merging", "mergingdump"}

\* Which of the two programs runs, and how far it is.
ProgramInv ==
  /\ session \in {"mpcompiler", "ended"} => stage = "options"
  /\ session \in {"converting", "running"} => stage = "started"
  /\ session # "starting" => stage \in {"options", "started"}
  /\ stage = "options" /\ session # "starting" => converter = NoConverter
  /\ session = "starting" => parsing = "idle"
  /\ parsing = "idle" => errorCount = 0 /\ parseTree = NoTree /\ fileContent = <<>>
                         /\ fileCounter = 0

\* The text that dlvhex was given is a merging plan, and its tree is that of the
\* accepted part.
PlanRead ==
  /\ errorCount = 0
  /\ parsing \in {"idle", "string", "parsed"}
  /\ parsing # "idle" => converter.kind \in PlanKinds /\ program \in Seq(Items)
  /\ parsing = "parsed" => parseTree = SpiritTree(SubSeq(program, 1, Accepted(program)))

PlanGenerated ==
  /\ parsing = "parsed"
  /\ (IF converter.kind = "merging" THEN output ELSE stdout) = Code(parseTree)
  /\ session = "failed" <=> Errors(parseTree)
  /\ converter.kind = "mergingdump" /\ session = "running" => output = Inconsistent

PlanInv ==
  stage = "started" /\ session # "starting" =>
    /\ PlanRead
    /\ session \in {"running", "failed"} /\ converter.kind \in PlanKinds => PlanGenerated

\* Of the files read so far, spirit has parsed each, and the tree is that of the
\* last.
SpiritRead ==
  /\ parsing \in {"spirit", "parsed", "crashed"}
  /\ ~Twice(inputFiles) /\ errorCount = 0 =>
       /\ \A k \in 1 .. fileCounter : Grammatical(TextOf(inputFiles[k]))
       /\ parseTree = IF fileCounter = 0 THEN NoTree
                      ELSE SpiritTree(TextOf(inputFiles[fileCounter]))

\* For bison they are one text, which is parsed at the end.
BisonRead ==
  /\ parsing \in {"bison", "parsed", "crashed"}
  /\ ~Twice(inputFiles) => fileContent = FlattenSeq(ReadTexts(fileCounter))
  /\ parsing = "bison" => parseTree = NoTree /\ errorCount = 0
  /\ parsing = "parsed" =>
       IF Grammatical(Scanned)
         THEN parseTree = BisonTree(Scanned)
         ELSE /\ parseTree = NoTree
              /\ errorCount = 0 => ~Counted(Scanned, Accepted(Scanned) + 1)

\* A file that cannot be read, or an empty list.
ParserCrashed ==
  \/ \E k \in DOMAIN inputFiles :
       IF inputFiles[k] = "--" THEN \E j \in 1 .. k - 1 : inputFiles[j] = "--"
                               ELSE inputFiles[k] \notin DOMAIN Files
  \/ Bison /\ FlattensNull(Scanned)

FilesParsed ==
  /\ inputFiles = InputFiles
  /\ errorCount \in Nat
  /\ parsing = "parsed" => fileCounter = Len(inputFiles)
  /\ parsing = "crashed" => ParserCrashed
  /\ ~Twice(inputFiles) => Opened(fileCounter)
  /\ IF Bison THEN BisonRead ELSE SpiritRead

CompilerInv == stage = "options" /\ session # "starting" /\ parsing # "idle" => FilesParsed

\* How either program ends.
OutcomeInv ==
  /\ session = "ended" /\ stdout.kind = "code" =>
       Succeeded /\ parseTree # NoTree /\ stdout = Code(parseTree)
  /\ session = "crashed" =>
       parsing = "crashed" \/ (Succeeded /\ (parseTree = NoTree \/ IsDamaged(parseTree)))

PlansInv == ProgramInv /\ PlanInv /\ CompilerInv /\ OutcomeInv

\* The parsers stay as they are.
LEMMA FilesStay ==
  ASSUME FilesParsed, UNCHANGED parserVars, arguments' = arguments
  PROVE  FilesParsed'
<1>1. /\ inputFiles' = inputFiles /\ fileCounter' = fileCounter /\ fileContent' = fileContent
      /\ parseTree' = parseTree /\ errorCount' = errorCount /\ parsing' = parsing
  BY DEF parserVars
<1>2. InputFiles' = InputFiles /\ Bison' = Bison
  BY DEF InputFiles, Bison
<1>3. Scanned' = Scanned /\ ReadTexts(fileCounter)' = ReadTexts(fileCounter)
      /\ Opened(fileCounter)' = Opened(fileCounter)
  BY <1>1 DEF Scanned, ReadTexts, Opened
<1>4. SpiritRead => SpiritRead'
  BY <1>1 DEF SpiritRead
<1>5. BisonRead => BisonRead'
  BY <1>1, <1>3 DEF BisonRead
<1>6. ParserCrashed => ParserCrashed'
  BY <1>1, <1>2, <1>3 DEF ParserCrashed
<1>7. QED
  BY <1>1, <1>2, <1>3, <1>4, <1>5, <1>6 DEF FilesParsed

LEMMA CompilerStays ==
  ASSUME CompilerInv, UNCHANGED parserVars, arguments' = arguments,
         stage' = "options" /\ session' # "starting" =>
           stage = "options" /\ session # "starting"
  PROVE  CompilerInv'
<1>1. parsing' = parsing
  BY DEF parserVars
<1>2. QED
  BY <1>1, FilesStay DEF CompilerInv

LEMMA PlanReadStays ==
  ASSUME PlanRead, UNCHANGED parserVars, program' = program, converter' = converter
  PROVE  PlanRead'
  BY DEF PlanRead, parserVars

\* A file is read as it is, unless it is standard input once more.
LEMMA NextRead ==
  ASSUME FilesInv, ~Twice(inputFiles), NEW text, Reads(text)
  PROVE  /\ text = TextOf(inputFiles[fileCounter + 1])
         /\ Opened(fileCounter) => Opened(fileCounter + 1)
<1>1. /\ fileCounter \in Nat /\ fileCounter < Len(inputFiles) /\ Len(inputFiles) \in Nat
      /\ DOMAIN inputFiles = 1 .. Len(inputFiles)
  BY LenProperties DEF FilesInv, Reads
<1>2. PICK n : n = fileCounter + 1
  OBVIOUS
<1>3. n \in DOMAIN inputFiles /\ \A k \in 1 .. fileCounter : k # n /\ k \in DOMAIN inputFiles
  BY <1>1, <1>2
<1>4. NextFile = inputFiles[n]
  BY <1>2 DEF NextFile
<1>5. CASE NextFile = "--"
  <2>1. ~StdinClosed
    BY <1>3, <1>4, <1>5 DEF StdinClosed, Twice
  <2>2. text = StandardInput
    BY <1>5, <2>1 DEF Reads
  <2>3. \A k \in 1 .. n : k \in 1 .. fileCounter \/ k = n
    BY <1>1, <1>2
  <2>4. QED
    BY <1>2, <1>4, <1>5, <2>2, <2>3 DEF TextOf, Opened
<1>6. CASE NextFile # "--"
  <2>1. text = Files[NextFile] /\ NextFile \in DOMAIN Files
    BY <1>6 DEF Reads
  <2>2. \A k \in 1 .. n : k \in 1 .. fileCounter \/ k = n
    BY <1>1, <1>2
  <2>3. QED
    BY <1>2, <1>4, <1>6, <2>1, <2>2 DEF TextOf, Opened
<1>7. QED
  BY <1>5, <1>6

LEMMA TextsRead ==
  ASSUME NEW n \in Nat, Opened(n)
  PROVE  /\ ReadTexts(n) \in Seq(Seq(Items)) /\ Len(ReadTexts(n)) = n
         /\ \A k \in 1 .. n : ReadTexts(n)[k] = TextOf(inputFiles[k])
<1>1. \A k \in 1 .. n : TextOf(inputFiles[k]) \in Seq(Items)
  BY TextsAssumption DEF Opened, TextOf
<1>2. PICK r : r = [k \in 1 .. n |-> TextOf(inputFiles[k])]
  OBVIOUS
<1>3. r \in [1 .. n -> Seq(Items)]
  BY <1>1, <1>2
<1>4. r \in Seq(Seq(Items)) /\ Len(r) = n
  BY <1>3
<1>5. QED
  BY <1>2, <1>4 DEF ReadTexts

LEMMA OneMoreText ==
  ASSUME NEW n \in Nat, Opened(n + 1)
  PROVE  /\ Opened(n)
         /\ ReadTexts(n + 1) = Append(ReadTexts(n), TextOf(inputFiles[n + 1]))
<1>1. n + 1 \in Nat /\ n + 1 \in 1 .. n + 1 /\ \A k \in 1 .. n : k \in 1 .. n + 1
  OBVIOUS
<1>2. Opened(n)
  BY <1>1 DEF Opened
<1>3. PICK a, b, x : a = ReadTexts(n) /\ b = ReadTexts(n + 1) /\ x = TextOf(inputFiles[n + 1])
  OBVIOUS
<1>4. /\ a \in Seq(Seq(Items)) /\ Len(a) = n
      /\ \A k \in 1 .. n : a[k] = TextOf(inputFiles[k])
  BY <1>2, <1>3, TextsRead
<1>5. /\ b \in Seq(Seq(Items)) /\ Len(b) = n + 1
      /\ \A k \in 1 .. n + 1 : b[k] = TextOf(inputFiles[k])
  BY <1>1, <1>3, TextsRead
<1>6. x \in Seq(Items)
  BY <1>1, <1>3, <1>5, ElementOfSeq
<1>7. PICK c : c = Append(a, x)
  OBVIOUS
<1>8. /\ c \in Seq(Seq(Items)) /\ Len(c) = n + 1 /\ c[n + 1] = x
      /\ \A k \in 1 .. n : c[k] = a[k]
  BY <1>4, <1>6, <1>7, AppendProperties
<1>9. ASSUME NEW k \in 1 .. Len(b)
      PROVE  b[k] = c[k]
  <2>1. k = n + 1 \/ k \in 1 .. n
    BY <1>5
  <2>2. QED
    BY <1>1, <1>3, <1>4, <1>5, <1>8, <2>1
<1>10. b = c
  BY <1>5, <1>8, <1>9, SeqEqual
<1>11. QED
  BY <1>2, <1>3, <1>7, <1>10

LEMMA SpiritFileKept ==
  ASSUME FilesParsed, FilesInv, SpiritFile, arguments' = arguments
  PROVE  FilesParsed'
<1>1. PICK text : /\ Reads(text)
                  /\ IF Grammatical(text)
                       THEN parseTree' = SpiritTree(text) /\ errorCount' = errorCount
                       ELSE errorCount' = errorCount + 1 /\ parseTree' = parseTree
  BY DEF SpiritFile
<1>2. PICK n : n = fileCounter
  OBVIOUS
<1>3. /\ parsing = "spirit" /\ parsing' = "spirit" /\ inputFiles' = inputFiles
      /\ fileCounter' = n + 1 /\ n \in Nat
  BY <1>1, <1>2, LenProperties DEF SpiritFile, Reads, FilesInv
<1>4. InputFiles' = InputFiles /\ Bison' = Bison
  BY DEF InputFiles, Bison
<1>5. ~Bison /\ SpiritRead /\ errorCount \in Nat /\ inputFiles = InputFiles
  BY <1>3 DEF FilesParsed, BisonRead
<1>6. errorCount' \in Nat /\ (errorCount' = 0 => errorCount = 0 /\ Grammatical(text))
  BY <1>1, <1>5
<1>7. ASSUME ~Twice(inputFiles)
      PROVE  text = TextOf(inputFiles[n + 1]) /\ Opened(n + 1)
  BY <1>1, <1>2, <1>7, NextRead DEF FilesParsed
<1>8. Opened(fileCounter)' = Opened(n + 1)
  BY <1>3 DEF Opened
<1>9. ASSUME ~Twice(inputFiles), errorCount' = 0
      PROVE  /\ \A k \in 1 .. n + 1 : Grammatical(TextOf(inputFiles[k]))
             /\ parseTree' = SpiritTree(TextOf(inputFiles[n + 1]))
  <2>1. \A k \in 1 .. n : Grammatical(TextOf(inputFiles[k]))
    BY <1>2, <1>5, <1>6, <1>9 DEF SpiritRead
  <2>2. \A k \in 1 .. n + 1 : k \in 1 .. n \/ k = n + 1
    BY <1>3
  <2>3. QED
    BY <1>1, <1>6, <1>7, <1>9, <2>1, <2>2
<1>10. SpiritRead'
  <2>1. n + 1 # 0
    BY <1>3
  <2>2. QED
    BY <1>3, <1>9, <2>1 DEF SpiritRead
<1>11. QED
  BY <1>3, <1>4, <1>5, <1>6, <1>7, <1>8, <1>10 DEF FilesParsed

LEMMA BisonFileKept ==
  ASSUME FilesParsed, FilesInv, BisonFile, arguments' = arguments
  PROVE  FilesParsed'
<1>1. PICK text : Reads(text) /\ fileContent' = fileContent \o text
  BY DEF BisonFile
<1>2. PICK n : n = fileCounter
  OBVIOUS
<1>3. /\ parsing = "bison" /\ parsing' = "bison" /\ inputFiles' = inputFiles
      /\ fileCounter' = n + 1 /\ n \in Nat /\ parseTree' = parseTree /\ errorCount' = errorCount
  BY <1>1, <1>2, LenProperties DEF BisonFile, Reads, FilesInv
<1>4. InputFiles' = InputFiles /\ Bison' = Bison
  BY DEF InputFiles, Bison
<1>5. Bison /\ BisonRead /\ inputFiles = InputFiles
  BY <1>3 DEF FilesParsed, SpiritRead
<1>6. ASSUME ~Twice(inputFiles)
      PROVE  text = TextOf(inputFiles[n + 1]) /\ Opened(n + 1)
  BY <1>1, <1>2, <1>6, NextRead DEF FilesParsed
<1>7. Opened(fileCounter)' = Opened(n + 1) /\ ReadTexts(fileCounter)' = ReadTexts(n + 1)
  BY <1>3 DEF Opened, ReadTexts
<1>8. ASSUME ~Twice(inputFiles)
      PROVE  fileContent' = FlattenSeq(ReadTexts(n + 1))
  <2>1. fileContent = FlattenSeq(ReadTexts(n))
    BY <1>2, <1>5, <1>8 DEF BisonRead
  <2>2. ReadTexts(n + 1) = Append(ReadTexts(n), text) /\ Opened(n)
    BY <1>3, <1>6, <1>8, OneMoreText
  <2>3. ReadTexts(n) \in Seq(Seq(Items))
    BY <1>3, <2>2, TextsRead
  <2>4. text \in Seq(Items)
    <3>1. n + 1 \in Nat /\ n + 1 \in 1 .. n + 1
      BY <1>3
    <3>2. ReadTexts(n + 1) \in Seq(Seq(Items)) /\ Len(ReadTexts(n + 1)) = n + 1
          /\ ReadTexts(n + 1)[n + 1] = text
      BY <1>6, <1>8, <3>1, TextsRead
    <3>3. QED
      BY <3>1, <3>2, ElementOfSeq
  <2>5. FlattenSeq(Append(ReadTexts(n), text)) = FlattenSeq(ReadTexts(n)) \o text
    BY <2>3, <2>4, FlattenAppend
  <2>6. QED
    BY <1>1, <2>1, <2>2, <2>5
<1>9. BisonRead'
  BY <1>3, <1>5, <1>7, <1>8 DEF BisonRead
<1>10. QED
  BY <1>3, <1>4, <1>5, <1>6, <1>7, <1>9 DEF FilesParsed

LEMMA SpiritDoneKept ==
  ASSUME FilesParsed, SpiritDone, arguments' = arguments
  PROVE  FilesParsed'
<1>1. /\ parsing = "spirit" /\ parsing' = "parsed" /\ inputFiles' = inputFiles
      /\ fileCounter' = fileCounter /\ fileCounter = Len(inputFiles)
      /\ parseTree' = parseTree /\ errorCount' = errorCount
  BY DEF SpiritDone
<1>2. InputFiles' = InputFiles /\ Bison' = Bison
  BY DEF InputFiles, Bison
<1>3. ~Bison /\ SpiritRead
  BY <1>1 DEF FilesParsed, BisonRead
<1>4. SpiritRead'
  BY <1>1, <1>3 DEF SpiritRead
<1>5. Opened(fileCounter)' = Opened(fileCounter)
  BY <1>1 DEF Opened
<1>6. QED
  BY <1>1, <1>2, <1>3, <1>4, <1>5 DEF FilesParsed

LEMMA BisonDoneKept ==
  ASSUME FilesParsed, BisonDone, arguments' = arguments
  PROVE  FilesParsed'
<1>1. /\ parsing = "bison" /\ parsing' = "parsed" /\ inputFiles' = inputFiles
      /\ fileCounter' = fileCounter /\ fileCounter = Len(inputFiles)
      /\ fileContent' = fileContent
  BY DEF BisonDone
<1>2. InputFiles' = InputFiles /\ Bison' = Bison
  BY DEF InputFiles, Bison
<1>3. Bison /\ BisonRead
  BY <1>1 DEF FilesParsed, SpiritRead
<1>4. Scanned' = Scanned /\ ReadTexts(fileCounter)' = ReadTexts(fileCounter)
      /\ Opened(fileCounter)' = Opened(fileCounter)
  BY <1>1 DEF Scanned, ReadTexts, Opened
<1>5. parseTree = NoTree /\ errorCount = 0
  BY <1>1, <1>3 DEF BisonRead
<1>6. /\ errorCount' \in Nat
      /\ IF Grammatical(Scanned)
           THEN parseTree' = BisonTree(Scanned)
           ELSE /\ parseTree' = NoTree
                /\ errorCount' = 0 => ~Counted(Scanned, Accepted(Scanned) + 1)
  <2>1. CASE Grammatical(Scanned)
    BY <1>5, <2>1 DEF BisonDone
  <2>2. CASE ~Grammatical(Scanned)
    BY <1>5, <2>2 DEF BisonDone
  <2>3. QED
    BY <2>1, <2>2
<1>7. BisonRead'
  BY <1>1, <1>3, <1>4, <1>6 DEF BisonRead
<1>8. QED
  BY <1>1, <1>2, <1>3, <1>4, <1>6, <1>7 DEF FilesParsed

\* The parsers end the program for a reason.
LEMMA ParserEnds ==
  ASSUME FilesParsed, FilesInv, OpenFails \/ BisonCrashes, arguments' = arguments
  PROVE  FilesParsed'
<1>1. /\ parsing \in {"spirit", "bison"} /\ parsing' = "crashed" /\ inputFiles' = inputFiles
      /\ fileCounter' = fileCounter /\ fileContent' = fileContent
      /\ parseTree' = parseTree /\ errorCount' = errorCount
  BY DEF OpenFails, BisonCrashes
<1>2. InputFiles' = InputFiles /\ Bison' = Bison
  BY DEF InputFiles, Bison
<1>3. Scanned' = Scanned /\ ReadTexts(fileCounter)' = ReadTexts(fileCounter)
      /\ Opened(fileCounter)' = Opened(fileCounter)
  BY <1>1 DEF Scanned, ReadTexts, Opened
<1>4. ParserCrashed
  <2>1. CASE OpenFails
    <3>1. /\ fileCounter \in Nat /\ fileCounter < Len(inputFiles) /\ Len(inputFiles) \in Nat
          /\ DOMAIN inputFiles = 1 .. Len(inputFiles)
      BY <2>1, LenProperties DEF FilesInv, OpenFails
    <3>2. PICK n : n = fileCounter + 1
      OBVIOUS
    <3>3. n \in DOMAIN inputFiles /\ n - 1 = fileCounter /\ NextFile = inputFiles[n]
      BY <3>1, <3>2 DEF NextFile
    <3>4. IF inputFiles[n] = "--" THEN StdinClosed ELSE inputFiles[n] \notin DOMAIN Files
      BY <2>1, <3>3 DEF OpenFails
    <3>5. StdinClosed => \E j \in 1 .. n - 1 : inputFiles[j] = "--"
      BY <3>3 DEF StdinClosed
    <3>6. QED
      BY <3>3, <3>4, <3>5 DEF ParserCrashed
  <2>2. CASE BisonCrashes
    <3>1. parsing = "bison" /\ FlattensNull(Scanned)
      BY <2>2 DEF BisonCrashes
    <3>2. Bison
      BY <3>1 DEF FilesParsed, SpiritRead
    <3>3. QED
      BY <3>1, <3>2 DEF ParserCrashed
  <2>3. QED
    BY <2>1, <2>2
<1>5. ParserCrashed'
  BY <1>1, <1>2, <1>3, <1>4 DEF ParserCrashed
<1>6. SpiritRead => SpiritRead'
  BY <1>1 DEF SpiritRead
<1>7. BisonRead => BisonRead'
  BY <1>1, <1>3 DEF BisonRead
<1>8. QED
  BY <1>1, <1>2, <1>3, <1>5, <1>6, <1>7 DEF FilesParsed

LEMMA FilesKept ==
  ASSUME FilesParsed, FilesInv, ParserNext, arguments' = arguments
  PROVE  FilesParsed'
BY SpiritFileKept, BisonFileKept, SpiritDoneKept, BisonDoneKept, ParserEnds DEF ParserNext

\* A parser starts with no file read.
LEMMA FilesBegin ==
  ASSUME ProgramInv, CreateParser
  PROVE  FilesParsed'
<1>1. /\ parsing = "idle" /\ inputFiles' = InputFiles
      /\ parsing' = IF Bison THEN "bison" ELSE "spirit"
      /\ fileCounter' = fileCounter /\ fileContent' = fileContent
      /\ parseTree' = parseTree /\ errorCount' = errorCount /\ arguments' = arguments
  BY DEF CreateParser, StartParsing, sessionVars
<1>2. InputFiles' = InputFiles /\ Bison' = Bison
  BY <1>1 DEF InputFiles, Bison
<1>3. errorCount' = 0 /\ parseTree' = NoTree /\ fileContent' = <<>> /\ fileCounter' = 0
  BY <1>1 DEF ProgramInv
<1>4. 1 .. 0 = {}
  OBVIOUS
<1>5. Opened(fileCounter)'
  BY <1>3, <1>4 DEF Opened
<1>6. FlattenSeq(ReadTexts(fileCounter))' = <<>>
  <2>1. ReadTexts(fileCounter)' = <<>>
    BY <1>3, <1>4 DEF ReadTexts
  <2>2. QED
    BY <2>1, FlattenEmpty
<1>7. CASE Bison
  <2>1. BisonRead'
    BY <1>1, <1>3, <1>6, <1>7 DEF BisonRead
  <2>2. QED
    BY <1>1, <1>2, <1>3, <1>5, <1>7, <2>1 DEF FilesParsed
<1>8. CASE ~Bison
  <2>1. SpiritRead'
    BY <1>1, <1>3, <1>4, <1>8 DEF SpiritRead
  <2>2. QED
    BY <1>1, <1>2, <1>3, <1>5, <1>8, <2>1 DEF FilesParsed
<1>9. QED
  BY <1>7, <1>8

LEMMA PlansInitial ==
  ASSUME SessionInit
  PROVE  PlansInv
<1>1. PICK line : OptionsInit(line)
  BY DEF SessionInit
<1>2. stage = "options" /\ converter = NoConverter
  BY <1>1 DEF OptionsInit
<1>3. session \in {"starting", "mpcompiler"}
  BY DEF SessionInit
<1>4. /\ parsing = "idle" /\ errorCount = 0 /\ parseTree = NoTree /\ fileContent = <<>>
      /\ fileCounter = 0
  BY DEF SessionInit, ParserInit
<1>5. ProgramInv
  BY <1>2, <1>3, <1>4 DEF ProgramInv
<1>6. PlanInv /\ CompilerInv /\ OutcomeInv
  BY <1>2, <1>3, <1>4 DEF PlanInv, CompilerInv, OutcomeInv
<1>7. QED
  BY <1>5, <1>6 DEF PlansInv

\* Until dlvhex has processed its options, no parser works.
LEMMA OptionsKeepPlans ==
  ASSUME PlansInv, ProcessOptions
  PROVE  PlansInv'
<1>1. session = "starting" /\ session' = "starting"
  BY DEF ProcessOptions, sessionVars
<1>2. /\ parsing' = parsing /\ errorCount' = errorCount /\ parseTree' = parseTree
      /\ fileContent' = fileContent /\ fileCounter' = fileCounter
  BY DEF ProcessOptions, parserVars
<1>3. ProgramInv'
  BY <1>1, <1>2 DEF PlansInv, ProgramInv
<1>4. PlanInv' /\ CompilerInv' /\ OutcomeInv'
  BY <1>1 DEF PlanInv, CompilerInv, OutcomeInv
<1>5. QED
  BY <1>3, <1>4 DEF PlansInv

\* The options stay, and so do what the parsers and the programs were given.
GivenStays ==
  /\ stage' = stage /\ converter' = converter
  /\ program' = program /\ arguments' = arguments

LEMMA OptionsStay ==
  ASSUME UNCHANGED pluginVars
  PROVE  stage' = stage /\ converter' = converter
  BY DEF pluginVars, registryVars, optionVars

\* dlvhex without a merging plan.
LEMMA ProcessKeepsPlans ==
  ASSUME PlansInv, GivenStays, UNCHANGED parserVars, stage = "started",
         \/ session = "starting"
         \/ session = "converting",
         session' \in {"converting", "running", "failed"},
         session' = "converting" \/ converter.kind \notin PlanKinds
  PROVE  PlansInv'
<1>1. /\ parsing' = parsing /\ errorCount' = errorCount /\ parseTree' = parseTree
      /\ fileContent' = fileContent /\ fileCounter' = fileCounter
  BY DEF parserVars
<1>2. ProgramInv'
  BY <1>1 DEF PlansInv, ProgramInv, GivenStays
<1>3. PlanRead
  <2>1. CASE session = "starting"
    BY <2>1 DEF PlansInv, ProgramInv, PlanRead
  <2>2. CASE session = "converting"
    BY <2>2 DEF PlansInv, PlanInv
  <2>3. QED
    BY <2>1, <2>2
<1>4. PlanRead'
  BY <1>3, PlanReadStays DEF GivenStays
<1>5. PlanInv'
  BY <1>4 DEF PlanInv, GivenStays
<1>6. CompilerInv' /\ OutcomeInv'
  BY DEF CompilerInv, OutcomeInv, GivenStays
<1>7. QED
  BY <1>2, <1>5, <1>6 DEF PlansInv

\* dlvhex was given a merging plan.
LEMMA PlanGiven ==
  ASSUME TypesInv, session = "starting", converter.kind \in PlanKinds
  PROVE  program \in Seq(Items)
<1>1. commandLine \in DOMAIN Calls /\ program \in Calls[commandLine]
  BY DEF TypesInv, SessionInv, OutputInv
<1>2. converter # NoConverter
  BY DEF PlanKinds, NoConverter
<1>3. PICK i \in DOMAIN commandLine : converter = ConverterOf(commandLine[i])
  BY <1>2 DEF TypesInv, SessionInv, OptionsInv
<1>4. commandLine[i].kind \in {"merging", "mergingdump"}
  BY <1>3 DEF ConverterOf, PlanKinds
<1>5. QED
  BY <1>1, <1>4, PlanTextsAssumption

LEMMA ConvertPlanKept ==
  ASSUME TypesInv, PlansInv, ConvertPlan
  PROVE  PlansInv'
<1>1. /\ session = "starting" /\ stage = "started" /\ converter.kind \in PlanKinds
      /\ session' = "converting" /\ program' = program
      /\ parsing = "idle" /\ parsing' = "string" /\ errorCount' = errorCount
  BY DEF ConvertPlan, StartParsing, PlanKinds
<1>2. stage' = stage /\ converter' = converter
  BY OptionsStay DEF ConvertPlan
<1>3. program \in Seq(Items) /\ errorCount = 0
  BY <1>1, PlanGiven DEF PlansInv, ProgramInv
<1>4. PlanRead'
  BY <1>1, <1>2, <1>3 DEF PlanRead
<1>5. ProgramInv' /\ PlanInv'
  BY <1>1, <1>2, <1>4 DEF ProgramInv, PlanInv
<1>6. CompilerInv' /\ OutcomeInv'
  BY <1>1, <1>2 DEF CompilerInv, OutcomeInv
<1>7. QED
  BY <1>5, <1>6 DEF PlansInv

LEMMA ParsePlanKept ==
  ASSUME PlansInv, ParsePlan
  PROVE  PlansInv'
<1>1. /\ session = "converting" /\ session' = "converting" /\ program' = program
      /\ parsing = "string" /\ parsing' = "parsed" /\ errorCount' = errorCount
      /\ parseTree' = SpiritTree(SubSeq(program, 1, Accepted(program)))
  BY DEF ParsePlan, SpiritString, sessionVars
<1>2. stage' = stage /\ converter' = converter
  BY OptionsStay DEF ParsePlan
<1>3. stage = "started" /\ PlanRead
  BY <1>1 DEF PlansInv, ProgramInv, PlanInv
<1>4. PlanRead'
  BY <1>1, <1>2, <1>3 DEF PlanRead
<1>5. ProgramInv' /\ PlanInv'
  BY <1>1, <1>2, <1>3, <1>4 DEF ProgramInv, PlanInv
<1>6. CompilerInv' /\ OutcomeInv'
  BY <1>1, <1>2, <1>3 DEF CompilerInv, OutcomeInv
<1>7. QED
  BY <1>5, <1>6 DEF PlansInv

LEMMA GeneratePlanKept ==
  ASSUME PlansInv, GeneratePlan
  PROVE  PlansInv'
<1>1. /\ session = "converting" /\ program' = program
      /\ parsing = "parsed" /\ UNCHANGED parserVars
      /\ session' = IF Errors(parseTree) THEN "failed" ELSE "running"
  BY DEF GeneratePlan, Succeeded
<1>2. stage' = stage /\ converter' = converter
  BY OptionsStay DEF GeneratePlan
<1>3. stage = "started" /\ PlanRead
  BY <1>1 DEF PlansInv, ProgramInv, PlanInv
<1>4. PlanRead'
  BY <1>1, <1>2, <1>3, PlanReadStays
<1>5. parsing' = parsing /\ parseTree' = parseTree
  BY <1>1 DEF parserVars
<1>6. PlanGenerated'
  <2>1. (IF converter.kind = "merging" THEN output' ELSE stdout') = Code(parseTree)
    BY DEF GeneratePlan
  <2>2. session' = "failed" <=> Errors(parseTree)
    BY <1>1
  <2>3. converter.kind = "mergingdump" /\ session' = "running" => output' = Inconsistent
    BY <1>1 DEF GeneratePlan
  <2>4. QED
    BY <1>1, <1>2, <1>5, <2>1, <2>2, <2>3 DEF PlanGenerated
<1>7. ProgramInv' /\ PlanInv'
  BY <1>1, <1>2, <1>3, <1>4, <1>5, <1>6 DEF ProgramInv, PlanInv
<1>8. CompilerInv' /\ OutcomeInv'
  BY <1>1, <1>2, <1>3 DEF CompilerInv, OutcomeInv
<1>9. QED
  BY <1>7, <1>8 DEF PlansInv

\* mpcompiler parses.
LEMMA CompilerParses ==
  ASSUME TypesInv, PlansInv, CreateParser \/ Parse
  PROVE  PlansInv'
<1>1. /\ session = "mpcompiler" /\ session' = "mpcompiler" /\ program' = program
      /\ arguments' = arguments
  BY DEF CreateParser, Parse, sessionVars
<1>2. stage' = stage /\ converter' = converter
  BY OptionsStay DEF CreateParser, Parse
<1>3. stage = "options" /\ converter = NoConverter
  BY <1>1 DEF PlansInv, ProgramInv
<1>4. parsing' # "idle"
  BY DEF CreateParser, StartParsing, Parse, ParserNext, OpenFails, SpiritFile, SpiritDone,
         BisonFile, BisonDone, BisonCrashes
<1>5. ProgramInv' /\ PlanInv' /\ OutcomeInv'
  BY <1>1, <1>2, <1>3, <1>4 DEF ProgramInv, PlanInv, OutcomeInv
<1>6. FilesParsed'
  <2>1. CASE CreateParser
    BY <2>1, FilesBegin DEF PlansInv
  <2>2. CASE Parse
    <3>1. parsing # "idle" /\ ParserNext
      BY <2>2 DEF Parse, ParserNext, OpenFails, SpiritFile, SpiritDone, BisonFile, BisonDone,
             BisonCrashes
    <3>2. FilesParsed
      BY <1>1, <1>3, <3>1 DEF PlansInv, CompilerInv
    <3>3. QED
      BY <1>1, <3>1, <3>2, FilesKept DEF TypesInv
  <2>3. QED
    BY <2>1, <2>2
<1>7. CompilerInv'
  BY <1>6 DEF CompilerInv
<1>8. QED
  BY <1>5, <1>7 DEF PlansInv

\* mpcompiler ends.
LEMMA CompilerEnds ==
  ASSUME PlansInv, ShowHelp \/ ParsingFailed \/ PrintParseTree \/ CompilePlan
  PROVE  PlansInv'
<1>1. /\ session = "mpcompiler" /\ session' \in {"ended", "failed"} /\ program' = program
      /\ arguments' = arguments /\ UNCHANGED parserVars
  <2>1. session = "mpcompiler"
    BY Zenon DEF ShowHelp, ParsingFailed, PrintParseTree, CompilePlan
  <2>2. session' = "ended" \/ session' = "failed"
    BY Zenon DEF ShowHelp, ParsingFailed, PrintParseTree, CompilePlan
  <2>3. UNCHANGED <<parserVars, program, arguments>>
    BY Zenon DEF ShowHelp, ParsingFailed, PrintParseTree, CompilePlan
  <2>4. QED
    BY <2>1, <2>2, <2>3
<1>2. stage' = stage /\ converter' = converter
  <2>1. UNCHANGED pluginVars
    BY Zenon DEF ShowHelp, ParsingFailed, PrintParseTree, CompilePlan
  <2>2. QED
    BY <2>1, OptionsStay
<1>3. stage = "options" /\ converter = NoConverter
  BY <1>1 DEF PlansInv, ProgramInv
<1>4. /\ parsing' = parsing /\ errorCount' = errorCount /\ parseTree' = parseTree
      /\ fileContent' = fileContent /\ fileCounter' = fileCounter
  BY <1>1 DEF parserVars
<1>5. ProgramInv' /\ PlanInv'
  BY <1>1, <1>2, <1>3, <1>4 DEF PlansInv, ProgramInv, PlanInv
<1>6. CompilerInv'
  BY <1>1, <1>3, CompilerStays DEF PlansInv
<1>7. OutcomeInv'
  <2>1. CASE CompilePlan
    BY <1>1, <1>4, <2>1 DEF CompilePlan, OutcomeInv, Succeeded
  <2>2. CASE ShowHelp \/ PrintParseTree
    <3>1. \E kind \in {"help", "parse tree"} : \E text : stdout' = Output(kind, text)
      BY <2>2, Zenon DEF ShowHelp, PrintParseTree
    <3>2. \A kind, text : Output(kind, text).kind = kind
      BY DEF Output
    <3>3. "help" # "code" /\ "parse tree" # "code"
      BY Zenon
    <3>4. stdout'.kind # "code"
      BY <3>1, <3>2, <3>3, Zenon
    <3>5. QED
      BY <1>1, <3>4 DEF OutcomeInv
  <2>3. CASE ParsingFailed
    BY <2>3 DEF ParsingFailed, OutcomeInv
  <2>4. QED
    BY <2>1, <2>2, <2>3
<1>8. QED
  BY <1>5, <1>6, <1>7 DEF PlansInv

LEMMA CrashKept ==
  ASSUME PlansInv, Crash
  PROVE  PlansInv'
<1>1. /\ session \in {"mpcompiler", "converting"} /\ session' = "crashed" /\ program' = program
      /\ arguments' = arguments /\ UNCHANGED parserVars
  BY DEF Crash
<1>2. stage' = stage /\ converter' = converter
  BY OptionsStay DEF Crash
<1>3. /\ parsing' = parsing /\ errorCount' = errorCount /\ parseTree' = parseTree
      /\ fileContent' = fileContent /\ fileCounter' = fileCounter
  BY <1>1 DEF parserVars
<1>4. ProgramInv'
  BY <1>1, <1>2, <1>3 DEF PlansInv, ProgramInv
<1>5. PlanInv'
  <2>1. stage' = "started" => PlanRead
    BY <1>1, <1>2 DEF PlansInv, PlanInv
  <2>2. stage' = "started" => PlanRead'
    BY <1>1, <1>2, <2>1, PlanReadStays
  <2>3. QED
    BY <1>1, <2>2 DEF PlanInv
<1>6. CompilerInv'
  BY <1>1, <1>2, CompilerStays DEF PlansInv
<1>7. OutcomeInv'
  <2>1. parsing = "crashed" \/ (Succeeded /\ (parseTree = NoTree \/ IsDamaged(parseTree)))
    BY DEF Crash
  <2>2. QED
    BY <1>1, <1>3, <2>1 DEF OutcomeInv, Succeeded
<1>8. QED
  BY <1>4, <1>5, <1>6, <1>7 DEF PlansInv

LEMMA PlansKept ==
  ASSUME TypesInv, PlansInv, [SessionNext]_allVars
  PROVE  PlansInv'
<1>1. CASE ProcessOptions
  BY <1>1, OptionsKeepPlans
<1>2. CASE ReadProgram \/ ConvertByProcess
  <2>1. /\ stage = "started" /\ session = "starting" /\ UNCHANGED parserVars
        /\ program' = program /\ arguments' = arguments
        /\ session' \in {"converting", "running"}
        /\ converter.kind \notin PlanKinds
    BY <1>2 DEF ReadProgram, ConvertByProcess, PlanKinds
  <2>2. GivenStays
    BY <1>2, <2>1, OptionsStay DEF ReadProgram, ConvertByProcess, GivenStays
  <2>3. QED
    BY <2>1, <2>2, ProcessKeepsPlans
<1>3. CASE Rewrite \/ PrintAnswerSets
  <2>1. /\ session = "converting" /\ session' = "converting" /\ UNCHANGED parserVars
        /\ program' = program /\ arguments' = arguments
    <3>1. CASE Rewrite
      BY <3>1 DEF Rewrite, sessionVars
    <3>2. CASE PrintAnswerSets
      <4>1. session = "converting" /\ UNCHANGED <<parserVars, program, arguments, session>>
        BY <3>2, Zenon DEF PrintAnswerSets
      <4>2. QED
        BY <4>1
    <3>3. QED
      BY <1>3, <3>1, <3>2
  <2>2. GivenStays
    <3>1. UNCHANGED pluginVars
      BY <1>3, Zenon DEF Rewrite, PrintAnswerSets
    <3>2. QED
      BY <2>1, <3>1, OptionsStay DEF GivenStays
  <2>3. stage = "started"
    BY <2>1 DEF PlansInv, ProgramInv
  <2>4. QED
    BY <2>1, <2>2, <2>3, ProcessKeepsPlans
<1>4. CASE HandOn \/ DlvFails \/ HandOnConstraint
  <2>1. /\ session = "converting" /\ session' \in {"running", "failed"}
        /\ UNCHANGED parserVars /\ program' = program /\ arguments' = arguments
    <3>1. session = "converting" /\ UNCHANGED <<parserVars, program, arguments>>
      BY <1>4, Zenon DEF HandOn, DlvFails, HandOnConstraint
    <3>2. session' = "running" \/ session' = "failed"
      BY <1>4, Zenon DEF HandOn, DlvFails, HandOnConstraint
    <3>3. QED
      BY <3>1, <3>2
  <2>2. GivenStays
    <3>1. UNCHANGED pluginVars
      BY <1>4, Zenon DEF HandOn, DlvFails, HandOnConstraint
    <3>2. QED
      BY <2>1, <3>1, OptionsStay DEF GivenStays
  <2>3. stage = "started"
    BY <2>1 DEF PlansInv, ProgramInv
  <2>4. converter.kind \notin PlanKinds
    <3>1. CASE HandOn \/ DlvFails
      <4>1. converter.kind = "inputrewriter" \/ converter.kind = "dlv"
        BY <3>1, Zenon DEF HandOn, DlvFails
      <4>2. QED
        BY <4>1 DEF PlanKinds
    <3>2. CASE HandOnConstraint
      BY <3>2 DEF HandOnConstraint, TypesInv, SessionInv, RewriterInv, Idle, Underway, PlanKinds
    <3>3. QED
      BY <1>4, <3>1, <3>2
  <2>5. QED
    BY <2>1, <2>2, <2>3, <2>4, ProcessKeepsPlans
<1>5. CASE ConvertPlan \/ ParsePlan \/ GeneratePlan
  BY <1>5, ConvertPlanKept, ParsePlanKept, GeneratePlanKept
<1>6. CASE CreateParser \/ Parse
  BY <1>6, CompilerParses
<1>7. CASE ShowHelp \/ ParsingFailed \/ PrintParseTree \/ CompilePlan
  BY <1>7, CompilerEnds
<1>8. CASE Crash
  BY <1>8, CrashKept
<1>9. CASE UNCHANGED allVars
  <2>1. /\ UNCHANGED pluginVars /\ UNCHANGED parserVars /\ UNCHANGED sessionVars
    BY <1>9 DEF allVars
  <2>2. stage' = stage /\ converter' = converter
    BY <2>1, OptionsStay
  <2>3. /\ session' = session /\ program' = program /\ arguments' = arguments
        /\ output' = output /\ stdout' = stdout
    BY <2>1 DEF sessionVars
  <2>4. /\ parsing' = parsing /\ errorCount' = errorCount /\ parseTree' = parseTree
        /\ fileContent' = fileContent /\ fileCounter' = fileCounter
    BY <2>1 DEF parserVars
  <2>5. ProgramInv'
    BY <2>2, <2>3, <2>4 DEF PlansInv, ProgramInv
  <2>6. PlanRead => PlanRead'
    BY <2>1, <2>2, <2>3, PlanReadStays
  <2>7. PlanGenerated => PlanGenerated'
    BY <2>2, <2>3, <2>4 DEF PlanGenerated
  <2>8. PlanInv'
    BY <2>2, <2>3, <2>6, <2>7 DEF PlansInv, PlanInv
  <2>9. CompilerInv'
    BY <2>1, <2>2, <2>3, CompilerStays DEF PlansInv
  <2>10. OutcomeInv'
    BY <2>3, <2>4 DEF PlansInv, OutcomeInv, Succeeded
  <2>11. QED
    BY <2>5, <2>8, <2>9, <2>10 DEF PlansInv
<1>10. QED
  BY <1>1, <1>2, <1>3, <1>4, <1>5, <1>6, <1>7, <1>8, <1>9 DEF SessionNext

LEMMA PlansInvariant == SessionSpec => [](TypesInv /\ PlansInv)
<1>1. SessionInit => TypesInv /\ PlansInv
  BY TypesInitial, PlansInitial
<1>2. TypesInv /\ PlansInv /\ [SessionNext]_allVars => (TypesInv /\ PlansInv)'
  BY TypesKept, PlansKept
<1>3. QED
  BY <1>1, <1>2, PTL DEF SessionSpec

-----------------------------------------------------------------------------
(***************************************************************************)
(* What the two programs make of a merging plan.                           *)
(***************************************************************************)
\* MergingPlugin.cpp:98, SpiritParser.cpp:268: when every parser reads the text of
\* a merging plan, what dlvhex is handed, or what is dumped, is the code of the
\* tree that bison would have made of it, and the errors in it are reported.
THEOREM PlansDelivered == SessionSpec => []PlanDelivered
<1>1. ASSUME PlansInv, session \in {"running", "failed"}, converter.kind \in PlanKinds,
             Grammatical(program), ~HasLoneChild(program)
      PROVE  /\ (IF converter.kind = "merging" THEN output ELSE stdout)
                  = Code(BisonTree(program))
             /\ session = "failed" <=> Errors(BisonTree(program))
             /\ converter.kind = "mergingdump" /\ session = "running" => output = Inconsistent
  <2>1. converter # NoConverter
    BY <1>1 DEF PlanKinds, NoConverter
  <2>2. stage = "started" /\ session # "starting"
    BY <1>1, <2>1 DEF PlansInv, ProgramInv
  <2>3. PlanRead /\ PlanGenerated
    BY <1>1, <2>2 DEF PlansInv, PlanInv
  <2>4. /\ program \in Seq(Items)
        /\ parseTree = SpiritTree(SubSeq(program, 1, Accepted(program)))
    BY <2>3 DEF PlanRead, PlanGenerated
  <2>5. parseTree = BisonTree(program)
    BY <1>1, <2>4, AllAccepted, TreesAgree
  <2>6. QED
    BY <2>3, <2>5 DEF PlanGenerated
<1>2. PlansInv => PlanDelivered
  BY <1>1 DEF PlanDelivered, PlanKinds
<1>3. QED
  BY <1>2, PlansInvariant, PTL

\* The texts of the files, when all of them are read.
LEMMA AllTexts ==
  ASSUME FilesParsed, FilesInv, parsing = "parsed", ~Twice(InputFiles)
  PROVE  /\ Len(InputFiles) \in Nat /\ DOMAIN InputFiles = 1 .. Len(InputFiles)
         /\ inputFiles = InputFiles /\ fileCounter = Len(InputFiles)
         /\ ReadTexts(fileCounter) = Texts(InputFiles)
         /\ Texts(InputFiles) \in Seq(Seq(Items))
         /\ Len(Texts(InputFiles)) = Len(InputFiles)
         /\ \A k \in 1 .. Len(InputFiles) :
              Texts(InputFiles)[k] = TextOf(inputFiles[k])
<1>1. inputFiles = InputFiles /\ fileCounter = Len(InputFiles) /\ Opened(fileCounter)
  BY DEF FilesParsed
<1>2. fileCounter \in Nat /\ DOMAIN InputFiles = 1 .. fileCounter
  BY <1>1, LenProperties DEF FilesInv
<1>3. ReadTexts(fileCounter) = Texts(InputFiles)
  BY <1>1, <1>2 DEF ReadTexts, Texts, TextOf
<1>4. /\ ReadTexts(fileCounter) \in Seq(Seq(Items)) /\ Len(ReadTexts(fileCounter)) = fileCounter
      /\ \A k \in 1 .. fileCounter : ReadTexts(fileCounter)[k] = TextOf(inputFiles[k])
  BY <1>1, <1>2, TextsRead
<1>5. QED
  BY <1>1, <1>2, <1>3, <1>4

\* IParser.cpp:19: with bison, mpcompiler's code is that of the grammatical text that
\* all its files make up, unless standard input is named twice; with spirit, that of a
\* single file without a section with one child. Of several files, spirit's is not.
THEOREM CompiledFiles == SessionSpec => []FilesCompiled
<1>1. ASSUME TypesInv, PlansInv, session = "ended", stdout.kind = "code", InputFiles # <<>>,
             ~Twice(InputFiles),
             Bison \/ (Len(InputFiles) = 1 /\ ~HasLoneChild(FlattenSeq(Texts(InputFiles))))
      PROVE  /\ Grammatical(FlattenSeq(Texts(InputFiles)))
             /\ stdout = Code(BisonTree(FlattenSeq(Texts(InputFiles))))
  <2> DEFINE texts == Texts(InputFiles)
  <2>1. /\ parsing = "parsed" /\ errorCount = 0 /\ parseTree # NoTree
        /\ stdout = Code(parseTree)
    BY <1>1 DEF PlansInv, OutcomeInv, Succeeded
  <2>2. FilesParsed /\ FilesInv
    BY <1>1, <2>1 DEF PlansInv, ProgramInv, CompilerInv, TypesInv
  <2>3. /\ Len(InputFiles) \in Nat /\ DOMAIN InputFiles = 1 .. Len(InputFiles)
        /\ inputFiles = InputFiles /\ fileCounter = Len(InputFiles)
        /\ ReadTexts(fileCounter) = texts
        /\ texts \in Seq(Seq(Items)) /\ Len(texts) = Len(InputFiles)
        /\ \A k \in 1 .. Len(InputFiles) : texts[k] = TextOf(inputFiles[k])
    BY <1>1, <2>1, <2>2, AllTexts
  <2>4. DOMAIN texts = 1 .. Len(InputFiles)
    BY <2>3, LenProperties
  <2> HIDE DEF texts
  <2>5. CASE Bison
    <3>1. BisonRead
      BY <2>2, <2>5 DEF FilesParsed
    <3>2. Scanned = FlattenSeq(texts)
      BY <1>1, <2>3, <3>1 DEF BisonRead, Scanned
    <3>3. Grammatical(Scanned) /\ parseTree = BisonTree(Scanned)
      BY <2>1, <3>1 DEF BisonRead
    <3>4. QED
      BY <2>1, <2>5, <3>2, <3>3 DEF texts
  <2>6. CASE ~Bison
    <3>1. SpiritRead
      BY <2>2, <2>6 DEF FilesParsed
    <3>2. /\ \A k \in 1 .. fileCounter : Grammatical(TextOf(inputFiles[k]))
          /\ parseTree = IF fileCounter = 0 THEN NoTree
                         ELSE SpiritTree(TextOf(inputFiles[fileCounter]))
      BY <1>1, <2>1, <2>3, <3>1 DEF SpiritRead
    <3>3. Len(InputFiles) = 1 /\ ~HasLoneChild(FlattenSeq(texts))
      BY <1>1, <2>6 DEF texts
    <3>4. Grammatical(FlattenSeq(texts)) /\ stdout = Code(BisonTree(FlattenSeq(texts)))
      <4>1. PICK t : t = texts[1]
        OBVIOUS
      <4>2. t \in Seq(Items) /\ texts = <<t>>
        <5>1. t \in Seq(Items)
          BY <2>3, <3>3, <4>1, ElementOfSeq
        <5>2. <<t>> \in Seq(Seq(Items)) /\ Len(<<t>>) = 1 /\ <<t>>[1] = t
          BY <5>1
        <5>3. \A k \in 1 .. 1 : texts[k] = <<t>>[k]
          BY <4>1, <5>2
        <5>4. QED
          BY <2>3, <3>3, <5>1, <5>2, <5>3, SeqEqual
      <4>3. FlattenSeq(texts) = t
        BY <4>2, FlattenOne
      <4>4. 1 \in 1 .. 1 /\ 1 # 0
        OBVIOUS
      <4>5. Grammatical(t) /\ parseTree = SpiritTree(t)
        BY <2>3, <3>2, <3>3, <4>1, <4>4
      <4>6. ~HasLoneChild(t)
        BY <3>3, <4>3
      <4>7. SpiritTree(t) = BisonTree(t)
        BY <4>2, <4>5, <4>6, TreesAgree
      <4>8. QED
        BY <2>1, <4>3, <4>5, <4>7
    <3>5. QED
      BY <3>4 DEF texts
  <2>7. QED
    BY <2>5, <2>6
<1>2. TypesInv /\ PlansInv => FilesCompiled
  BY <1>1 DEF FilesCompiled, InputText, StdinTwice, Twice
<1>3. QED
  BY <1>2, PlansInvariant, PTL

\* The text of dlvhex's program is damaged.
LEMMA PlanCrashExplained ==
  ASSUME PlansInv, session = "crashed", stage = "started"
  PROVE  converter.kind \in PlanKinds /\ HasLoneChild(program)
<1>1. PlanRead
  BY DEF PlansInv, PlanInv
<1>2. parsing = "parsed" /\ (parseTree = NoTree \/ IsDamaged(parseTree))
  BY <1>1 DEF PlansInv, OutcomeInv, PlanRead, Succeeded
<1>3. converter.kind \in PlanKinds /\ program \in Seq(Items)
  BY <1>1, <1>2 DEF PlanRead
<1>4. PICK n : n = Accepted(program)
  OBVIOUS
<1>5. n \in 0 .. Len(program)
  BY <1>3, <1>4, AcceptedEnds
<1>6. PICK part : part = SubSeq(program, 1, n)
  OBVIOUS
<1>7. part \in Seq(Items)
  BY <1>3, <1>4, <1>6, AcceptedFits
<1>8. parseTree = SpiritTree(part)
  BY <1>1, <1>2, <1>4, <1>6 DEF PlanRead
<1>9. parseTree # NoTree
  BY <1>7, <1>8, SpiritMakesTree, TreeIsSome
<1>10. HasLoneChild(part)
  BY <1>2, <1>7, <1>8, <1>9, SpiritUndamaged
<1>11. QED
  BY <1>3, <1>5, <1>6, <1>10, LoneInBeginning

\* IParser.cpp:29, BisonParserImpl.ypp:86 and 262, CompilerMain.cpp:59: neither
\* program uses a tree that was not made or a damaged pointer, except for the
\* inputs that CrashesExplained names.
THEOREM CrashesAreExplained == SessionSpec => []CrashesExplained
<1>1. ASSUME TypesInv, PlansInv, session = "crashed", stage = "options"
      PROVE  \/ \E k \in DOMAIN InputFiles :
                  IF InputFiles[k] = "--" THEN \E j \in 1 .. k - 1 : InputFiles[j] = "--"
                                          ELSE InputFiles[k] \notin DOMAIN Files
             \/ IF Bison
                  THEN \/ FlattensNull(Scanned)
                       \/ ~Grammatical(Scanned) /\ ~Counted(Scanned, Accepted(Scanned) + 1)
                  ELSE InputFiles = <<>> \/ HasLoneChild(FlattenSeq(Texts(InputFiles)))
  <2>1. \/ parsing = "crashed"
        \/ /\ parsing = "parsed" /\ errorCount = 0
           /\ parseTree = NoTree \/ IsDamaged(parseTree)
    BY <1>1 DEF PlansInv, OutcomeInv, Succeeded
  <2>2. FilesParsed /\ FilesInv
    BY <1>1, <2>1 DEF PlansInv, CompilerInv, TypesInv
  <2>3. inputFiles = InputFiles /\ InputFiles \in Seq(FileNames)
    BY <2>2 DEF FilesParsed, FilesInv
  <2>4. CASE parsing = "crashed"
    <3>1. ParserCrashed
      BY <2>2, <2>4 DEF FilesParsed
    <3>2. QED
      BY <2>3, <3>1 DEF ParserCrashed
  <2>5. CASE Twice(InputFiles)
    <3>1. PICK j, k \in DOMAIN InputFiles :
            j # k /\ InputFiles[j] = "--" /\ InputFiles[k] = "--"
      BY <2>5 DEF Twice
    <3>2. DOMAIN InputFiles = 1 .. Len(InputFiles)
      BY <2>3, LenProperties
    <3>3. j \in 1 .. k - 1 \/ k \in 1 .. j - 1
      BY <3>1, <3>2
    <3>4. QED
      BY <3>1, <3>3
  <2>6. CASE parsing = "parsed" /\ ~Twice(InputFiles)
    <3>1. errorCount = 0 /\ (parseTree = NoTree \/ IsDamaged(parseTree))
      BY <2>1, <2>6
    <3>2. /\ Len(InputFiles) \in Nat /\ fileCounter = Len(InputFiles)
          /\ ReadTexts(fileCounter) = Texts(InputFiles)
          /\ Texts(InputFiles) \in Seq(Seq(Items))
          /\ Len(Texts(InputFiles)) = Len(InputFiles)
          /\ \A k \in 1 .. Len(InputFiles) : Texts(InputFiles)[k] = TextOf(inputFiles[k])
      BY <2>2, <2>6, AllTexts
    <3>3. PICK texts : texts = Texts(InputFiles)
      OBVIOUS
    <3>4. CASE Bison
      <4>1. BisonRead
        BY <2>2, <3>4 DEF FilesParsed
      <4>2. Scanned \in Seq(Items)
        <5>1. fileContent \in Seq(Items)
          BY <2>3, <2>6, <3>2, <4>1, FlattenType DEF BisonRead
        <5>2. QED
          BY <5>1, TextsAssumption DEF Scanned
      <4>3. ~Grammatical(Scanned)
        <5>1. ASSUME Grammatical(Scanned)
              PROVE  FALSE
          <6>1. parseTree = BisonTree(Scanned)
            BY <2>6, <4>1, <5>1 DEF BisonRead
          <6>2. QED
            BY <3>1, <4>2, <5>1, <6>1, BisonMakesTree, BisonUndamaged, TreeIsSome
        <5>2. QED
          BY <5>1
      <4>4. ~Counted(Scanned, Accepted(Scanned) + 1)
        BY <2>6, <3>1, <4>1, <4>3 DEF BisonRead
      <4>5. QED
        BY <3>4, <4>3, <4>4
    <3>5. CASE ~Bison /\ InputFiles # <<>>
      <4>1. SpiritRead
        BY <2>2, <3>5 DEF FilesParsed
      <4>2. PICK n : n = Len(InputFiles)
        OBVIOUS
      <4>3. n \in Nat /\ n # 0 /\ n \in 1 .. n
        BY <2>3, <3>2, <3>5, <4>2, EmptySeq
      <4>4. parseTree = SpiritTree(TextOf(inputFiles[n]))
        BY <2>3, <2>6, <3>1, <3>2, <4>1, <4>2, <4>3 DEF SpiritRead
      <4>5. texts \in Seq(Seq(Items)) /\ Len(texts) = n /\ texts[n] = TextOf(inputFiles[n])
        BY <3>2, <3>3, <4>2, <4>3
      <4>6. texts[n] \in Seq(Items)
        BY <4>3, <4>5, ElementOfSeq
      <4>7. HasLoneChild(texts[n])
        BY <3>1, <4>4, <4>5, <4>6, SpiritMakesTree, TreeIsSome, SpiritUndamaged
      <4>8. HasLoneChild(FlattenSeq(texts))
        BY <4>3, <4>5, <4>7, LoneInWhole
      <4>9. QED
        BY <3>3, <3>5, <4>8
    <3>6. QED
      BY <3>4, <3>5
  <2>7. QED
    BY <2>1, <2>4, <2>5, <2>6
<1>2. ASSUME TypesInv, PlansInv, session = "crashed"
      PROVE  CrashesExplained
  <2>1. stage = "options" \/ stage = "started"
    BY <1>2 DEF PlansInv, ProgramInv
  <2>2. CASE stage = "started"
    BY <1>2, <2>2, PlanCrashExplained DEF CrashesExplained, PlanKinds
  <2>3. CASE stage = "options"
    BY <1>1, <1>2, <2>3 DEF CrashesExplained
  <2>4. QED
    BY <2>1, <2>2, <2>3
<1>3. TypesInv /\ PlansInv => CrashesExplained
  BY <1>2 DEF CrashesExplained
<1>4. QED
  BY <1>3, PlansInvariant, PTL
=============================================================================
