----------------------------- MODULE RecursionLemmas -----------------------------
(***************************************************************************)
(* What the proofs need of recursive functions: least counterexamples, in  *)
(* place of induction, the concatenation of a sequence of sequences, and   *)
(* the parts of a concatenation.                                           *)
(***************************************************************************)
EXTENDS SequencesExt, SequenceTheorems, WellFoundedInduction, TLAPS

\* A nonempty set of natural numbers has a least element.
LEMMA LeastOf ==
  ASSUME NEW S \in SUBSET Nat, S # {}
  PROVE  \E m \in S : \A n \in S : m <= n
<1> DEFINE R == OpToRel(<, Nat)
<1>1. IsWellFoundedOn(R, Nat)
  BY NatLessThanWellFounded
<1>2. \A x, y \in Nat : <<y, x>> \in R <=> y < x
  BY DEF OpToRel
<1> HIDE DEF R
<1>3. PICK x \in S : \A y \in S : ~ (<<y, x>> \in R)
  BY <1>1, WFMin
<1>4. \A n \in S : x <= n
  <2>1. SUFFICES ASSUME NEW n \in S
                 PROVE  x <= n
    OBVIOUS
  <2>2. x \in Nat /\ n \in Nat
    OBVIOUS
  <2>3. ~(n < x)
    BY <1>2, <1>3, <2>2
  <2>4. QED
    BY <2>2, <2>3
<1>5. QED
  BY <1>3, <1>4

\* What holds of the empty sequence, and of every sequence with one element
\* more, holds of all: in place of induction.
LEMMA ByAppending ==
  ASSUME NEW T, NEW W, <<>> \in W,
         \A s \in Seq(T) : \A e \in T : s \in W => Append(s, e) \in W
  PROVE  \A s \in Seq(T) : s \in W
<1> DEFINE L == {n \in Nat : \E s \in Seq(T) : s \notin W /\ Len(s) = n}
<1>1. ASSUME L # {}
      PROVE  FALSE
  <2>1. L \in SUBSET Nat
    OBVIOUS
  <2>2. PICK m \in L : \A n \in L : m <= n
    BY <1>1, <2>1, LeastOf
  <2>3. PICK s \in Seq(T) : s \notin W /\ Len(s) = m
    BY <2>2
  <2>4. s # <<>>
    BY <2>3
  <2>5. PICK f \in Seq(T), e \in T : s = Append(f, e)
    BY <2>4, SequenceEmptyOrAppend
  <2>6. Len(f) \in Nat /\ Len(s) = Len(f) + 1
    BY <2>5
  <2>7. Len(f) \notin L
    BY <2>2, <2>3, <2>6
  <2>8. f \in W
    BY <2>6, <2>7
  <2>9. QED
    BY <2>3, <2>5, <2>8
<1>2. QED
  BY <1>1

\* A function on an initial part of the positive numbers is a sequence.
LEMMA IsAList ==
  ASSUME NEW f, NEW n \in Nat, DOMAIN f = 1 .. n, f = [j \in 1 .. n |-> f[j]]
  PROVE  f \in Seq({f[j] : j \in DOMAIN f}) /\ Len(f) = n
<1>1. f \in [1 .. n -> {f[j] : j \in DOMAIN f}]
  OBVIOUS
<1>2. f \in Seq({f[j] : j \in DOMAIN f})
  BY <1>1, SeqDef
<1>3. QED
  BY <1>2, LenProperties
-----------------------------------------------------------------------------
(***************************************************************************)
(* FlattenSeq.                                                             *)
(***************************************************************************)

\* f[i] is the concatenation of the first i of n sequences.
Concatenates(f, s, n) ==
  f = [i \in 1 .. n |-> IF i = 1 THEN s[1] ELSE f[i - 1] \o s[i]]

LEMMA ConcatenationAt ==
  ASSUME NEW f, NEW s, NEW n, Concatenates(f, s, n), NEW i \in 1 .. n
  PROVE  f[i] = IF i = 1 THEN s[1] ELSE f[i - 1] \o s[i]
<1> DEFINE e(j) == IF j = 1 THEN s[1] ELSE f[j - 1] \o s[j]
<1>1. f = [j \in 1 .. n |-> e(j)]
  BY DEF Concatenates
<1> HIDE DEF e
<1>2. f[i] = e(i)
  BY <1>1
<1>3. QED
  BY <1>2 DEF e

\* There is such a function.
LEMMA ConcatenationExists ==
  ASSUME NEW s, NEW n \in Nat \ {0}
  PROVE  \E f : Concatenates(f, s, n)
<1> DEFINE S == {k \in Nat \ {0} : ~ \E f : Concatenates(f, s, k)}
<1>1. ASSUME S # {}
      PROVE  FALSE
  <2>1. S \in SUBSET Nat
    OBVIOUS
  <2>2. PICK m \in S : \A q \in S : m <= q
    BY <1>1, <2>1, LeastOf
  <2>3. m \in Nat \ {0} /\ ~ \E f : Concatenates(f, s, m)
    BY <2>2
  <2>4. CASE m = 1
    <3>1. PICK f : f = [i \in 1 .. 1 |-> s[1]]
      OBVIOUS
    <3>2. f = [i \in 1 .. 1 |-> IF i = 1 THEN s[1] ELSE f[i - 1] \o s[i]]
      BY <3>1
    <3>3. QED
      BY <2>3, <2>4, <3>2 DEF Concatenates
  <2>5. CASE m # 1
    <3>1. m - 1 \in Nat \ {0} /\ ~(m <= m - 1)
      BY <2>3, <2>5
    <3>2. m - 1 \notin S
      BY <2>2, <3>1
    <3>3. PICK g : Concatenates(g, s, m - 1)
      BY <3>1, <3>2
    <3>4. PICK f : f = [i \in 1 .. m |-> IF i = 1 THEN s[1] ELSE g[i - 1] \o s[i]]
      OBVIOUS
    <3>5. \A i \in 1 .. m - 1 : f[i] = g[i]
      <4>1. SUFFICES ASSUME NEW i \in 1 .. m - 1
                     PROVE  f[i] = g[i]
        OBVIOUS
      <4>2. g[i] = IF i = 1 THEN s[1] ELSE g[i - 1] \o s[i]
        BY <3>3, ConcatenationAt
      <4>3. i \in 1 .. m
        BY <2>3
      <4>4. f[i] = IF i = 1 THEN s[1] ELSE g[i - 1] \o s[i]
        BY <3>4, <4>3
      <4>5. QED
        BY <4>2, <4>4
    <3>6. \A i \in 1 .. m : i # 1 => f[i - 1] = g[i - 1]
      <4>1. \A i \in 1 .. m : i # 1 => i - 1 \in 1 .. m - 1
        BY <2>3
      <4>2. QED
        BY <3>5, <4>1
    <3>7. f = [i \in 1 .. m |-> IF i = 1 THEN s[1] ELSE f[i - 1] \o s[i]]
      BY <3>4, <3>6
    <3>8. QED
      BY <2>3, <3>7 DEF Concatenates
  <2>6. QED
    BY <2>4, <2>5
<1>2. QED
  BY <1>1

\* It does not depend on the sequences behind the first n.
LEMMA ConcatenationsAgree ==
  ASSUME NEW n \in Nat, NEW m \in Nat, n <= m,
         NEW s, NEW t, \A i \in 1 .. n : s[i] = t[i],
         NEW f, Concatenates(f, s, n), NEW g, Concatenates(g, t, m)
  PROVE  \A i \in 1 .. n : f[i] = g[i]
<1> DEFINE S == {i \in 1 .. n : f[i] # g[i]}
<1>1. ASSUME S # {}
      PROVE  FALSE
  <2>1. S \in SUBSET Nat
    OBVIOUS
  <2>2. PICK k \in S : \A q \in S : k <= q
    BY <1>1, <2>1, LeastOf
  <2>3. k \in 1 .. n /\ k \in 1 .. m /\ f[k] # g[k]
    BY <2>2
  <2>4. /\ f[k] = IF k = 1 THEN s[1] ELSE f[k - 1] \o s[k]
        /\ g[k] = IF k = 1 THEN t[1] ELSE g[k - 1] \o t[k]
    BY <2>3, ConcatenationAt
  <2>5. CASE k = 1
    BY <2>3, <2>4, <2>5
  <2>6. CASE k # 1
    <3>1. k - 1 \in 1 .. n /\ ~(k <= k - 1)
      BY <2>3, <2>6
    <3>2. f[k - 1] = g[k - 1]
      BY <2>2, <3>1
    <3>3. QED
      BY <2>3, <2>4, <2>6, <3>2
  <2>7. QED
    BY <2>5, <2>6
<1>2. QED
  BY <1>1

LEMMA FlattenIsConcatenation ==
  ASSUME NEW S, NEW s \in Seq(Seq(S)), s # <<>>
  PROVE  \E f : Concatenates(f, s, Len(s)) /\ FlattenSeq(s) = f[Len(s)]
<1>1. Len(s) \in Nat \ {0}
  BY EmptySeq
<1>2. PICK c : c = CHOOSE f : Concatenates(f, s, Len(s))
  OBVIOUS
<1>3. Concatenates(c, s, Len(s))
  BY <1>1, <1>2, ConcatenationExists
<1>4. FlattenSeq(s) = c[Len(s)]
  BY <1>1, <1>2 DEF FlattenSeq, Concatenates
<1>5. QED
  BY <1>3, <1>4

LEMMA FlattenEmpty == FlattenSeq(<<>>) = <<>>
  BY DEF FlattenSeq

LEMMA FlattenType ==
  ASSUME NEW S, NEW s \in Seq(Seq(S))
  PROVE  FlattenSeq(s) \in Seq(S)
<1>1. CASE s = <<>>
  BY <1>1, FlattenEmpty, EmptySeq
<1>2. CASE s # <<>>
  <2>1. PICK f : Concatenates(f, s, Len(s)) /\ FlattenSeq(s) = f[Len(s)]
    BY <1>2, FlattenIsConcatenation
  <2>2. Len(s) \in Nat \ {0}
    BY <1>2, EmptySeq
  <2> DEFINE W == {i \in 1 .. Len(s) : f[i] \notin Seq(S)}
  <2>3. ASSUME W # {}
        PROVE  FALSE
    <3>1. W \in SUBSET Nat
      OBVIOUS
    <3>2. PICK k \in W : \A q \in W : k <= q
      BY <2>3, <3>1, LeastOf
    <3>3. k \in 1 .. Len(s) /\ f[k] \notin Seq(S)
      BY <3>2
    <3>4. f[k] = IF k = 1 THEN s[1] ELSE f[k - 1] \o s[k]
      BY <2>1, <3>3, ConcatenationAt
    <3>5. s[1] \in Seq(S) /\ s[k] \in Seq(S)
      BY <2>2, <3>3, ElementOfSeq
    <3>6. k # 1 => f[k - 1] \in Seq(S)
      <4>1. k # 1 => k - 1 \in 1 .. Len(s) /\ ~(k <= k - 1)
        BY <2>2, <3>3
      <4>2. QED
        BY <3>2, <4>1
    <3>7. k # 1 => f[k - 1] \o s[k] \in Seq(S)
      BY <3>5, <3>6, ConcatProperties
    <3>8. QED
      BY <3>3, <3>4, <3>5, <3>7
  <2>4. Len(s) \in 1 .. Len(s)
    BY <2>2
  <2>5. QED
    BY <2>1, <2>3, <2>4
<1>3. QED
  BY <1>1, <1>2

LEMMA FlattenAppend ==
  ASSUME NEW S, NEW s \in Seq(Seq(S)), NEW t \in Seq(S)
  PROVE  FlattenSeq(Append(s, t)) = FlattenSeq(s) \o t
<1> DEFINE r == Append(s, t)
           n == Len(s)
<1>1. /\ r \in Seq(Seq(S)) /\ r # <<>> /\ Len(r) = n + 1 /\ n \in Nat
      /\ \A i \in 1 .. n : r[i] = s[i]
      /\ r[n + 1] = t
  BY AppendProperties, LenProperties
<1> HIDE DEF r
<1>2. PICK g : Concatenates(g, r, n + 1) /\ FlattenSeq(r) = g[n + 1]
  BY <1>1, FlattenIsConcatenation
<1>3. n + 1 \in 1 .. n + 1
  BY <1>1
<1>4. g[n + 1] = IF n + 1 = 1 THEN r[1] ELSE g[n + 1 - 1] \o r[n + 1]
  BY <1>2, <1>3, ConcatenationAt
<1>5. CASE s = <<>>
  <2>1. n = 0
    BY <1>5
  <2>2. FlattenSeq(r) = t
    BY <1>1, <1>2, <1>4, <2>1
  <2>3. FlattenSeq(s) \o t = t
    BY <1>5, FlattenEmpty, ConcatEmptySeq
  <2>4. QED
    BY <2>2, <2>3 DEF r
<1>6. CASE s # <<>>
  <2>1. n \in Nat \ {0} /\ n + 1 # 1 /\ n + 1 - 1 = n /\ n <= n + 1 /\ n \in 1 .. n
    BY <1>6, EmptySeq
  <2>2. PICK f : Concatenates(f, s, n) /\ FlattenSeq(s) = f[n]
    BY <1>6, FlattenIsConcatenation
  <2>3. \A i \in 1 .. n : s[i] = r[i]
    BY <1>1
  <2>4. n \in Nat /\ n + 1 \in Nat
    BY <1>1
  <2>5. \A i \in 1 .. n : f[i] = g[i]
    <3> HIDE DEF n
    <3>1. QED
      BY <1>2, <2>1, <2>2, <2>3, <2>4, ConcatenationsAgree
  <2>6. QED
    BY <1>1, <1>2, <1>4, <2>1, <2>2, <2>5 DEF r
<1>7. QED
  BY <1>5, <1>6

LEMMA FlattenStep ==
  ASSUME NEW S, NEW p \in Seq(Seq(S)), p # <<>>, NEW e \in Seq(S),
         FlattenSeq(p) = Head(p) \o FlattenSeq(Tail(p))
  PROVE  FlattenSeq(Append(p, e)) = Head(Append(p, e)) \o FlattenSeq(Tail(Append(p, e)))
<1>1. Head(Append(p, e)) = Head(p) /\ Tail(Append(p, e)) = Append(Tail(p), e)
  BY HeadTailAppend
<1>2. Head(p) \in Seq(S) /\ Tail(p) \in Seq(Seq(S))
  BY HeadTailProperties
<1>3. FlattenSeq(Tail(p)) \in Seq(S)
  BY <1>2, FlattenType
<1>4. FlattenSeq(Append(p, e)) = FlattenSeq(p) \o e
  BY FlattenAppend
<1>5. FlattenSeq(Append(Tail(p), e)) = FlattenSeq(Tail(p)) \o e
  BY <1>2, FlattenAppend
<1>6. PICK h, t, v, w : h = Head(p) /\ t = FlattenSeq(Tail(p)) /\ v = h \o t /\ w = t \o e
  OBVIOUS
<1>7. v \o e = h \o w
  <2>1. h \in Seq(S) /\ t \in Seq(S)
    BY <1>2, <1>3, <1>6
  <2>2. v = h \o t /\ w = t \o e
    BY <1>6
  <2>3. QED
    BY <2>1, <2>2
<1>8. QED
  BY <1>1, <1>4, <1>5, <1>6, <1>7

LEMMA FlattenCons ==
  ASSUME NEW S, NEW s \in Seq(Seq(S)), s # <<>>
  PROVE  FlattenSeq(s) = Head(s) \o FlattenSeq(Tail(s))
<1> DEFINE Fails(q) == q # <<>> /\ FlattenSeq(q) # Head(q) \o FlattenSeq(Tail(q))
           W == {n \in Nat : \E q \in Seq(Seq(S)) : Len(q) = n /\ Fails(q)}
<1>1. ASSUME W # {}
      PROVE  FALSE
  <2>1. PICK n \in W : \A k \in W : n <= k
    <3>1. W \in SUBSET Nat
      OBVIOUS
    <3>2. QED
      BY <1>1, <3>1, LeastOf
  <2>2. PICK q \in Seq(Seq(S)) : Len(q) = n /\ Fails(q)
    BY <2>1
  <2>3. PICK p \in Seq(Seq(S)), e \in Seq(S) : q = Append(p, e)
    BY <2>2, SequenceEmptyOrAppend
  <2>4. /\ Head(q) = IF p = <<>> THEN e ELSE Head(p)
        /\ Tail(q) = IF p = <<>> THEN <<>> ELSE Append(Tail(p), e)
    BY <2>3, HeadTailAppend
  <2>5. FlattenSeq(q) = FlattenSeq(p) \o e
    BY <2>3, FlattenAppend
  <2>6. CASE p = <<>>
    <3>1. FlattenSeq(q) = e
      BY <2>5, <2>6, FlattenEmpty, ConcatEmptySeq
    <3>2. Head(q) \o FlattenSeq(Tail(q)) = e
      BY <2>4, <2>6, FlattenEmpty, ConcatEmptySeq
    <3>3. QED
      BY <2>2, <3>1, <3>2
  <2>7. CASE p # <<>>
    <3>1. Len(p) \in Nat /\ Len(q) = Len(p) + 1
      BY <2>3, AppendProperties, LenProperties
    <3>2. ~Fails(p)
      <4>1. ~(n <= Len(p))
        BY <2>2, <3>1
      <4>2. QED
        BY <2>1, <3>1, <4>1
    <3>3. FlattenSeq(p) = Head(p) \o FlattenSeq(Tail(p))
      BY <2>7, <3>2
    <3>4. e \in Seq(S)
      BY <2>3
    <3>5. FlattenSeq(q) = Head(q) \o FlattenSeq(Tail(q))
      BY <2>3, <2>7, <3>3, <3>4, FlattenStep
    <3>6. QED
      BY <2>2, <3>5
  <2>8. QED
    BY <2>6, <2>7
<1>2. Len(s) \in Nat
  BY LenProperties
<1>3. QED
  BY <1>1, <1>2

-----------------------------------------------------------------------------
(***************************************************************************)
(* Cutting a concatenation.                                                *)
(***************************************************************************)

\* Two beginnings of one sequence are beginnings of each other.
LEMMA BeginningsCompare ==
  ASSUME NEW S, NEW a \in Seq(S), NEW b \in Seq(S), NEW s \in Seq(S), NEW t \in Seq(S),
         a \o s = b \o t, Len(a) <= Len(b)
  PROVE  IsPrefix(a, b)
<1>1. ASSUME NEW i \in 1 .. Len(a)
      PROVE  a[i] = b[i]
  <2>1. (a \o s)[i] = a[i] /\ (b \o t)[i] = b[i]
    OBVIOUS
  <2>2. QED
    BY <2>1
<1>2. SubSeq(a, 1, Len(a)) = SubSeq(b, 1, Len(a))
  <2>1. SubSeq(a, 1, Len(a)) = [i \in 1 .. Len(a) |-> a[i]]
    OBVIOUS
  <2>2. SubSeq(b, 1, Len(a)) = [i \in 1 .. Len(a) |-> b[i]]
    OBVIOUS
  <2>3. QED
    BY <1>1, <2>1, <2>2
<1>3. QED
  BY <1>2 DEF IsPrefix

\* Equal beginnings have equal continuations.
LEMMA ContinuationsAgree ==
  ASSUME NEW S, NEW a \in Seq(S), NEW s \in Seq(S), NEW t \in Seq(S), a \o s = a \o t
  PROVE  s = t
<1>1. Len(a \o s) = Len(a) + Len(s) /\ Len(a \o t) = Len(a) + Len(t)
  OBVIOUS
<1>2. Len(s) = Len(t)
  BY <1>1
<1>3. ASSUME NEW i \in 1 .. Len(s)
      PROVE  s[i] = t[i]
  <2>1. (a \o s)[Len(a) + i] = s[i]
    OBVIOUS
  <2>2. (a \o t)[Len(a) + i] = t[i]
    BY <1>2
  <2>3. QED
    BY <2>1, <2>2
<1>4. QED
  BY <1>2, <1>3
-----------------------------------------------------------------------------
(***************************************************************************)
(* What the elements of a sequence are mapped to, put together.            *)
(***************************************************************************)
At(g, x) == g[x]

Maps(g, L, S) == \A x \in L : At(g, x) \in Seq(S)

Mapped(g, s) == FlattenSeq([i \in DOMAIN s |-> At(g, s[i])])

LEMMA MappedSeq ==
  ASSUME NEW L, NEW S, NEW g, Maps(g, L, S), NEW s \in Seq(L)
  PROVE  /\ [i \in DOMAIN s |-> At(g, s[i])] \in Seq(Seq(S))
         /\ Len([i \in DOMAIN s |-> At(g, s[i])]) = Len(s)
<1>1. s \in [1 .. Len(s) -> L] /\ Len(s) \in Nat
  BY LenProperties
<1>2. \A i \in 1 .. Len(s) : At(g, s[i]) \in Seq(S)
  BY <1>1 DEF Maps
<1>3. DOMAIN s = 1 .. Len(s)
  BY <1>1
<1>4. PICK t : t = [i \in 1 .. Len(s) |-> At(g, s[i])]
  OBVIOUS
<1>5. t \in [1 .. Len(s) -> Seq(S)]
  BY <1>2, <1>4
<1>6. t \in Seq(Seq(S)) /\ Len(t) = Len(s)
  BY <1>1, <1>5
<1>7. QED
  BY <1>3, <1>4, <1>6

LEMMA MappedType ==
  ASSUME NEW L, NEW S, NEW g, Maps(g, L, S), NEW s \in Seq(L)
  PROVE  Mapped(g, s) \in Seq(S)
  BY MappedSeq, FlattenType DEF Mapped

LEMMA MappedEmpty ==
  ASSUME NEW g
  PROVE  Mapped(g, <<>>) = <<>>
<1>1. [i \in DOMAIN <<>> |-> At(g, <<>>[i])] = <<>>
  OBVIOUS
<1>2. QED
  BY <1>1, FlattenEmpty DEF Mapped

LEMMA MappedCons ==
  ASSUME NEW L, NEW S, NEW g, Maps(g, L, S), NEW s \in Seq(L), s # <<>>
  PROVE  Mapped(g, s) = At(g, Head(s)) \o Mapped(g, Tail(s))
<1>1. PICK t : t = [i \in DOMAIN s |-> At(g, s[i])]
  OBVIOUS
<1>2. t \in Seq(Seq(S)) /\ Len(t) = Len(s)
  BY <1>1, MappedSeq
<1>3. Len(s) \in Nat \ {0} /\ DOMAIN s = 1 .. Len(s)
  BY EmptySeq, LenProperties
<1>4. t # <<>>
  BY <1>2, <1>3
<1>5. Head(t) = At(g, Head(s))
  <2>1. Head(t) = t[1] /\ Head(s) = s[1] /\ 1 \in DOMAIN s
    BY <1>2, <1>3, <1>4
  <2>2. QED
    BY <1>1, <2>1
<1>6. PICK r : r = Tail(s)
  OBVIOUS
<1>7. /\ r \in Seq(L) /\ Len(r) = Len(s) - 1
      /\ \A i \in 1 .. Len(r) : r[i] = s[i + 1]
  BY <1>6, HeadTailProperties
<1>8. PICK u : u = [i \in DOMAIN r |-> At(g, r[i])]
  OBVIOUS
<1>9. u \in Seq(Seq(S)) /\ Len(u) = Len(s) - 1
  BY <1>7, <1>8, MappedSeq
<1>10. u = Tail(t)
  <2>1. PICK v : v = Tail(t)
    OBVIOUS
  <2>2. /\ v \in Seq(Seq(S)) /\ Len(v) = Len(s) - 1
        /\ \A i \in 1 .. Len(v) : v[i] = t[i + 1]
    BY <1>2, <1>4, <2>1, HeadTailProperties
  <2>3. ASSUME NEW i \in 1 .. Len(u)
        PROVE  u[i] = v[i]
    <3>1. i \in DOMAIN r /\ i \in 1 .. Len(r) /\ i \in 1 .. Len(v) /\ i + 1 \in DOMAIN s
      BY <1>3, <1>7, <1>9, <2>2, LenProperties
    <3>2. u[i] = At(g, r[i]) /\ t[i + 1] = At(g, s[i + 1])
      BY <1>1, <1>8, <3>1
    <3>3. QED
      BY <1>7, <2>2, <3>1, <3>2
  <2>4. QED
    BY <1>9, <2>1, <2>2, <2>3, SeqEqual
<1>11. FlattenSeq(t) = Head(t) \o FlattenSeq(Tail(t))
  BY <1>2, <1>4, FlattenCons
<1>12. QED
  BY <1>1, <1>5, <1>6, <1>8, <1>10, <1>11 DEF Mapped

-----------------------------------------------------------------------------
(***************************************************************************)
(* The parts of a concatenation.                                           *)
(***************************************************************************)
LEMMA FrontPart ==
  ASSUME NEW S, NEW a \in Seq(S), NEW b \in Seq(S)
  PROVE  SubSeq(a \o b, 1, Len(a)) = a
<1>1. Len(a) \in Nat /\ Len(b) \in Nat /\ Len(a \o b) = Len(a) + Len(b)
  OBVIOUS
<1>2. \A i \in 1 .. Len(a) : (a \o b)[i] = a[i]
  OBVIOUS
<1>3. SubSeq(a \o b, 1, Len(a)) = [i \in 1 .. Len(a) |-> (a \o b)[i]]
  OBVIOUS
<1>4. a = [i \in 1 .. Len(a) |-> a[i]]
  OBVIOUS
<1>5. QED
  BY <1>2, <1>3, <1>4

LEMMA BackPart ==
  ASSUME NEW S, NEW a \in Seq(S), NEW b \in Seq(S)
  PROVE  SubSeq(a \o b, Len(a) + 1, Len(a \o b)) = b
<1>1. PICK c : c = a \o b
  OBVIOUS
<1>2. c \in Seq(S) /\ Len(a) \in Nat /\ Len(b) \in Nat /\ Len(c) = Len(a) + Len(b)
  BY <1>1
<1>3. \A i \in 1 .. Len(b) : c[Len(a) + i] = b[i]
  BY <1>1
<1>4. PICK d : d = SubSeq(c, Len(a) + 1, Len(c))
  OBVIOUS
<1>5. d \in Seq(S) /\ Len(d) = Len(b) /\ \A i \in 1 .. Len(d) : d[i] = c[Len(a) + i]
  <2>1. Len(a) + 1 \in 1 .. Len(c) + 1 /\ Len(c) \in Len(a) .. Len(c)
    BY <1>2
  <2>2. d \in Seq(S) /\ Len(d) = Len(c) - Len(a)
    BY <1>2, <1>4, <2>1
  <2>3. \A i \in 1 .. Len(d) : d[i] = c[(Len(a) + 1) + i - 1]
    BY <1>2, <1>4, <2>1, <2>2
  <2>4. \A i \in 1 .. Len(d) : (Len(a) + 1) + i - 1 = Len(a) + i
    BY <1>2, <2>2
  <2>5. QED
    BY <1>2, <2>2, <2>3, <2>4
<1>6. d = b
  BY <1>3, <1>5
<1>7. QED
  BY <1>1, <1>4, <1>6

\* What SubSeq returns.
LEMMA Slice ==
  ASSUME NEW S, NEW text \in Seq(S), NEW m \in 1 .. Len(text) + 1, NEW n \in m - 1 .. Len(text)
  PROVE  /\ SubSeq(text, m, n) \in Seq(S) /\ Len(SubSeq(text, m, n)) = n - m + 1
         /\ \A i \in 1 .. n - m + 1 : SubSeq(text, m, n)[i] = text[m + i - 1]
<1>1. Len(text) \in Nat /\ m \in Int /\ n \in Int
  OBVIOUS
<1>2. \A i \in m .. n : text[i] \in S
  <2>1. \A i \in m .. n : i \in 1 .. Len(text)
    BY <1>1
  <2>2. QED
    BY <2>1, ElementOfSeq
<1>3. n - m + 1 = IF m <= n THEN n - m + 1 ELSE 0
  BY <1>1
<1>4. QED
  BY <1>1, <1>2, <1>3, SubSeqProperties

\* A sequence is made of its parts.
LEMMA ThreeParts ==
  ASSUME NEW S, NEW text \in Seq(S), NEW p \in 1 .. Len(text), NEW q \in p .. Len(text)
  PROVE  text = SubSeq(text, 1, p - 1) \o (SubSeq(text, p, q) \o SubSeq(text, q + 1, Len(text)))
<1>1. PICK n : n = Len(text)
  OBVIOUS
<1>2. /\ n \in Nat /\ 1 \in 1 .. n + 1 /\ p \in 1 .. n + 1 /\ n \in q .. n /\ q \in p - 1 .. n
      /\ p - 1 \in 1 - 1 .. n /\ n \in p - 1 .. n /\ (p - 1) + 1 = p
  <2>1. n \in Nat /\ p \in 1 .. n /\ q \in p .. n
    BY <1>1
  <2>2. QED
    BY <2>1
<1>3. SubSeq(text, p, q) \o SubSeq(text, q + 1, n) = SubSeq(text, p, n)
  BY <1>1, <1>2, ConcatAdjacentSubSeq, Zenon
<1>4. SubSeq(text, 1, p - 1) \o SubSeq(text, (p - 1) + 1, n) = SubSeq(text, 1, n)
  BY <1>1, <1>2, ConcatAdjacentSubSeq, Zenon
<1>5. SubSeq(text, 1, n) = text
  BY <1>1, SubSeqFull, Zenon
<1>6. QED
  BY <1>1, <1>2, <1>3, <1>4, <1>5, Zenon

LEMMA TailPart ==
  ASSUME NEW S, NEW a \in Seq(S), NEW b \in Seq(S), a # <<>>
  PROVE  SubSeq(a \o b, 2, Len(a)) = Tail(a)
<1>1. PICK c, n : c = a \o b /\ n = Len(a)
  OBVIOUS
<1>2. /\ c \in Seq(S) /\ n \in Nat \ {0} /\ n <= Len(c) /\ Len(c) \in Nat
      /\ \A i \in 1 .. n : c[i] = a[i]
  BY <1>1
<1>3. 2 \in 1 .. Len(c) + 1 /\ n \in 2 - 1 .. Len(c) /\ n - 2 + 1 = n - 1
  BY <1>2
<1>4. /\ SubSeq(c, 2, n) \in Seq(S) /\ Len(SubSeq(c, 2, n)) = n - 2 + 1
      /\ \A i \in 1 .. n - 2 + 1 : SubSeq(c, 2, n)[i] = c[2 + i - 1]
  BY <1>2, <1>3, Slice
<1>5. PICK d, t : d = SubSeq(c, 2, n) /\ t = Tail(a)
  OBVIOUS
<1>6. t \in Seq(S) /\ Len(t) = n - 1 /\ \A i \in 1 .. Len(t) : t[i] = a[i + 1]
  BY <1>1, <1>5, HeadTailProperties
<1>7. ASSUME NEW i \in 1 .. n - 1
      PROVE  d[i] = t[i]
  <2>1. 2 + i - 1 = i + 1 /\ i + 1 \in 1 .. n
    BY <1>2
  <2>2. QED
    BY <1>2, <1>3, <1>4, <1>5, <1>6, <2>1
<1>8. d = t
  BY <1>3, <1>4, <1>5, <1>6, <1>7, SeqEqual
<1>9. QED
  BY <1>1, <1>5, <1>8

LEMMA Leading ==
  ASSUME NEW S, NEW a \in Seq(S), NEW b \in Seq(S), a # <<>>
  PROVE  a \o b \in Seq(S) /\ a \o b # <<>> /\ (a \o b)[1] = a[1]
<1>1. PICK c : c = a \o b
  OBVIOUS
<1>2. Len(a) \in Nat \ {0} /\ Len(b) \in Nat
  OBVIOUS
<1>3. c \in Seq(S) /\ Len(c) = Len(a) + Len(b) /\ c[1] = a[1]
  BY <1>1, <1>2
<1>4. c # <<>>
  BY <1>2, <1>3
<1>5. QED
  BY <1>1, <1>3, <1>4

LEMMA JoinTyped ==
  ASSUME NEW S, NEW a \in Seq(S), NEW b \in Seq(S)
  PROVE  a \o b \in Seq(S)
  OBVIOUS

LEMMA NothingJoined ==
  ASSUME NEW S, NEW a \in Seq(S), NEW b \in Seq(S), NEW c, c = a \o b, c = <<>>
  PROVE  a = <<>> /\ b = <<>>
<1>1. Len(a) \in Nat /\ Len(b) \in Nat /\ Len(a \o b) = Len(a) + Len(b)
  BY ConcatProperties, LenProperties
<1>2. Len(a) = 0 /\ Len(b) = 0
  <2>1. Len(<<>>) = 0
    OBVIOUS
  <2>2. QED
    BY <1>1, <2>1
<1>3. QED
  BY <1>2, EmptySeq

LEMMA NoPlaces == 1 .. Len(<<>>) = {}
<1>1. Len(<<>>) = 0
  OBVIOUS
<1>2. 1 .. 0 = {}
  OBVIOUS
<1>3. QED
  BY <1>1, <1>2, Zenon

LEMMA NoneBeforeFirst == 1 .. 1 - 1 = {}
  OBVIOUS

\* Parts of a concatenation can be regrouped.
Associates(a, b, c) == (a \o b) \o c = a \o (b \o c)

LEMMA Associating ==
  ASSUME NEW S, NEW a \in Seq(S), NEW b \in Seq(S), NEW c \in Seq(S)
  PROVE  Associates(a, b, c)
  BY ConcatAssociative DEF Associates

Regroups(a, s, b, n) == (a \o (s \o b)) \o n = a \o (s \o (b \o n))

LEMMA Regrouping ==
  ASSUME NEW S, NEW a \in Seq(S), NEW s \in Seq(S), NEW b \in Seq(S), NEW n \in Seq(S)
  PROVE  Regroups(a, s, b, n)
<1>1. PICK d : d = s \o b
  OBVIOUS
<1>2. d \in Seq(S) /\ (a \o d) \o n = a \o (d \o n)
  BY <1>1
<1>3. d \o n = s \o (b \o n)
  BY <1>1
<1>4. QED
  BY <1>1, <1>2, <1>3 DEF Regroups

FrontRegroups(front, a, s, c, w) ==
  front \o ((a \o (s \o c)) \o w) = (front \o a) \o (s \o (c \o w))

LEMMA FrontRegrouping ==
  ASSUME NEW S, NEW front \in Seq(S), NEW a \in Seq(S), NEW s \in Seq(S), NEW c \in Seq(S),
         NEW w \in Seq(S)
  PROVE  FrontRegroups(front, a, s, c, w)
<1>1. Regroups(a, s, c, w)
  BY Regrouping, Zenon
<1>2. c \o w \in Seq(S) /\ s \o (c \o w) \in Seq(S)
  <2>1. c \o w \in Seq(S)
    BY JoinTyped, Zenon
  <2>2. QED
    BY <2>1, JoinTyped, Zenon
<1>3. Associates(front, a, s \o (c \o w))
  BY <1>2, Associating, Zenon
<1>4. QED
  BY <1>1, <1>3, Zenon DEF FrontRegroups, Regroups, Associates

Appends(a, x, b) == Append(a, x) \o b = a \o (<<x>> \o b)

LEMMA AppendJoins ==
  ASSUME NEW S, NEW a \in Seq(S), NEW x \in S, NEW b \in Seq(S)
  PROVE  Append(a, x) \in Seq(S) /\ Appends(a, x, b)
<1>1. Append(a, x) = a \o <<x>> /\ <<x>> \in Seq(S) /\ Append(a, x) \in Seq(S)
  OBVIOUS
<1>2. Associates(a, <<x>>, b)
  BY <1>1, Associating
<1>3. QED
  BY <1>1, <1>2, Zenon DEF Appends, Associates
=============================================================================
