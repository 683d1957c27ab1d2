---------------------- MODULE HexAnswerCacheHandleProofs ----------------------
(***************************************************************************)
(* What handles stand for.  When no list of operands is a prefix of        *)
(* another one of the same operator, so that HexCall::operator== tells all *)
(* calls apart, every external atom has one handle wherever it is          *)
(* evaluated, no load meets itself on the call stack, the number of        *)
(* answers in memory is known exactly, operands are never loaded for the   *)
(* first time, and a program reads through a handle what evaluating the    *)
(* call would give.                                                        *)
(***************************************************************************)
EXTENDS HexAnswerCacheProofs, RecursionLemmas

-----------------------------------------------------------------------------
(***************************************************************************)
(* The meaning of an external atom, on which ReadsDeliverMeaning rests, is *)
(* well defined by its recursion over the nesting of programs and          *)
(* operators.                                                              *)
(***************************************************************************)
\* What an external atom means, given what g says of the others.
MeaningFrom(g, e) ==
  LET b == Body[e] IN
  IF IsProgram(b)
    THEN Evaluate(b.subject, [d \in Reads[b.subject] |-> g[d]])
    ELSE Apply(b.subject, [i \in DOMAIN b.args |-> g[b.args[i]]], b.kv)

\* It depends on external atoms of lower rank only.
LEMMA MeaningIsLocal ==
  ASSUME NEW e \in Exprs, NEW g, NEW k,
         \A d \in Exprs : Rank[d] < Rank[e] => g[d] = k[d]
  PROVE  MeaningFrom(g, e) = MeaningFrom(k, e)
<1> DEFINE b == Body[e]
<1>1. b \in Bodies
  BY BodyAssumption
<1>2. CASE IsProgram(b)
  <2>1. b.subject \in Programs /\ Reads[b.subject] \subseteq Wants[b.subject]
    BY <1>2, BodyAssumption, UseAssumption
  <2>2. \A d \in Reads[b.subject] : d \in Exprs /\ Rank[d] < Rank[e]
    BY <1>2, <2>1, NestingAssumption, UseAssumption
  <2>3. [d \in Reads[b.subject] |-> g[d]] = [d \in Reads[b.subject] |-> k[d]]
    BY <2>2
  <2>4. QED
    BY <1>2, <2>3 DEF MeaningFrom
<1>3. CASE ~IsProgram(b)
  <2>1. b.args \in Seq(Exprs)
    BY <1>1 DEF Bodies
  <2>2. \A i \in DOMAIN b.args : b.args[i] \in Exprs /\ b.args[i] \in Range(b.args)
    BY <2>1 DEF Range
  <2>3. \A i \in DOMAIN b.args : Rank[b.args[i]] < Rank[e]
    BY <1>3, <2>2, NestingAssumption
  <2>4. [i \in DOMAIN b.args |-> g[b.args[i]]] = [i \in DOMAIN b.args |-> k[b.args[i]]]
    BY <2>2, <2>3
  <2>5. QED
    BY <1>3, <2>4 DEF MeaningFrom
<1>4. QED
  BY <1>2, <1>3

Below(n) == {d \in Exprs : Rank[d] < n}

\* g gives the meaning of every external atom of a rank below n.
Solves(g, n) == g = [e \in Below(n) |-> MeaningFrom(g, e)]

\* There is at most one such g, as far as it goes.
LEMMA SolutionsAgree ==
  ASSUME NEW m \in Nat, NEW n \in Nat, m <= n,
         NEW g, Solves(g, m), NEW k, Solves(k, n)
  PROVE  \A e \in Below(m) : g[e] = k[e]
<1> DEFINE S == {Rank[e] : e \in {d \in Below(m) : g[d] # k[d]}}
<1>1. S \in SUBSET Nat
  BY NestingAssumption DEF Below
<1>2. ASSUME S # {}
      PROVE  FALSE
  <2>1. PICK r \in S : \A q \in S : r <= q
    BY <1>1, <1>2, LeastOf
  <2>2. PICK e \in Below(m) : g[e] # k[e] /\ Rank[e] = r
    BY <2>1
  <2>3. e \in Exprs /\ Rank[e] \in Nat /\ Rank[e] < m /\ e \in Below(n)
    BY <2>2, NestingAssumption DEF Below
  <2>4. ASSUME NEW d \in Exprs, Rank[d] < Rank[e]
        PROVE  g[d] = k[d]
    <3>1. d \in Below(m) /\ Rank[d] \in Nat
      BY <2>3, <2>4, NestingAssumption DEF Below
    <3>2. ~(r <= Rank[d])
      BY <2>2, <2>3, <2>4, <3>1
    <3>3. QED
      BY <2>1, <3>1, <3>2
  <2>5. g[e] = MeaningFrom(g, e) /\ k[e] = MeaningFrom(k, e)
    BY <2>2, <2>3 DEF Solves
  <2>6. QED
    BY <2>2, <2>3, <2>4, <2>5, MeaningIsLocal
<1>3. QED
  BY <1>2

\* There is one for every rank.
LEMMA SolutionExists ==
  ASSUME NEW n \in Nat
  PROVE  \E g : Solves(g, n)
<1> DEFINE S == {k \in Nat : ~ \E g : Solves(g, k)}
<1>1. ASSUME S # {}
      PROVE  FALSE
  <2>1. S \in SUBSET Nat
    OBVIOUS
  <2>2. PICK m \in S : \A q \in S : m <= q
    BY <1>1, <2>1, LeastOf
  <2>3. m \in Nat /\ ~ \E g : Solves(g, m)
    BY <2>2
  <2>4. \E g : \A e \in Below(m) : \A d \in Exprs :
          Rank[d] < Rank[e] => g[d] = MeaningFrom(g, d)
    <3>1. CASE m = 0
      <4>1. Below(m) = {}
        BY <3>1, NestingAssumption DEF Below
      <4>2. QED
        BY <4>1
    <3>2. CASE m # 0
      <4>1. m - 1 \in Nat /\ ~(m <= m - 1)
        BY <2>3, <3>2
      <4>2. m - 1 \notin S
        BY <2>2, <4>1
      <4>3. PICK g : Solves(g, m - 1)
        BY <4>1, <4>2
      <4>4. ASSUME NEW e \in Below(m), NEW d \in Exprs, Rank[d] < Rank[e]
            PROVE  g[d] = MeaningFrom(g, d)
        <5>1. Rank[e] \in Nat /\ Rank[d] \in Nat /\ Rank[e] < m
          BY <4>4, NestingAssumption DEF Below
        <5>2. d \in Below(m - 1)
          BY <2>3, <4>4, <5>1 DEF Below
        <5>3. QED
          BY <4>3, <5>2 DEF Solves
      <4>5. QED
        BY <4>4
    <3>3. QED
      BY <3>1, <3>2
  <2>5. PICK g : \A e \in Below(m) : \A d \in Exprs :
                   Rank[d] < Rank[e] => g[d] = MeaningFrom(g, d)
    BY <2>4
  <2>6. PICK k : k = [e \in Below(m) |-> MeaningFrom(g, e)]
    OBVIOUS
  <2>7. ASSUME NEW e \in Below(m)
        PROVE  MeaningFrom(k, e) = MeaningFrom(g, e)
    <3>1. ASSUME NEW d \in Exprs, Rank[d] < Rank[e]
          PROVE  k[d] = g[d]
      <4>1. Rank[e] \in Nat /\ Rank[d] \in Nat /\ Rank[e] < m
        BY NestingAssumption DEF Below
      <4>2. d \in Below(m)
        BY <2>3, <3>1, <4>1 DEF Below
      <4>3. QED
        BY <2>5, <2>6, <3>1, <4>2
    <3>2. e \in Exprs
      BY DEF Below
    <3>3. QED
      BY <3>1, <3>2, MeaningIsLocal
  <2>8. k = [e \in Below(m) |-> MeaningFrom(k, e)]
    BY <2>6, <2>7
  <2>9. QED
    BY <2>3, <2>8 DEF Solves
<1>2. QED
  BY <1>1

\* The recursive definition of Meaning is well founded: it has a solution.
LEMMA MeaningSolved ==
  Meaning = [e \in Exprs |-> MeaningFrom(Meaning, e)]
<1> DEFINE part[e \in Exprs] == CHOOSE g : Solves(g, Rank[e] + 1)
           whole == [e \in Exprs |-> part[e][e]]
<1>1. ASSUME NEW e \in Exprs
      PROVE  Solves(part[e], Rank[e] + 1) /\ e \in Below(Rank[e] + 1) /\ Rank[e] \in Nat
  <2>1. Rank[e] + 1 \in Nat /\ Rank[e] \in Nat /\ Rank[e] < Rank[e] + 1
    BY NestingAssumption
  <2>2. \E g : Solves(g, Rank[e] + 1)
    BY <2>1, SolutionExists
  <2>3. QED
    BY <2>1, <2>2 DEF Below
<1> HIDE DEF part
<1>2. ASSUME NEW e \in Exprs
      PROVE  whole[e] = MeaningFrom(whole, e)
  <2>1. ASSUME NEW d \in Exprs, Rank[d] < Rank[e]
        PROVE  whole[d] = part[e][d]
    <3>1. Rank[d] + 1 \in Nat /\ Rank[e] + 1 \in Nat /\ Rank[d] + 1 <= Rank[e] + 1
      BY <2>1, <1>1
    <3>2. part[d][d] = part[e][d]
      BY <1>1, <3>1, SolutionsAgree
    <3>3. QED
      BY <3>2
  <2>2. MeaningFrom(whole, e) = MeaningFrom(part[e], e)
    BY <2>1, MeaningIsLocal
  <2>3. part[e][e] = MeaningFrom(part[e], e)
    BY <1>1 DEF Solves
  <2>4. QED
    BY <2>2, <2>3
<1>3. whole = [e \in Exprs |-> MeaningFrom(whole, e)]
  BY <1>2
<1> HIDE DEF whole
<1>4. \E f : f = [e \in Exprs |-> MeaningFrom(f, e)]
  BY <1>3
<1>5. Meaning = CHOOSE f : f = [e \in Exprs |-> MeaningFrom(f, e)]
  BY DEF Meaning, MeaningFrom
<1>6. QED
  BY <1>4, <1>5

-----------------------------------------------------------------------------
(***************************************************************************)
(* What the theorems need of the external atoms: no list of operands is a  *)
(* prefix of another one to which the same operator is applied.            *)
(***************************************************************************)
SameOperator(c, d) ==
  c.type = d.type /\ c.subject = d.subject /\ Range(c.kv) = Range(d.kv)

\* Two external atoms that make the same call, their operands included.
Alike(d, e) ==
  \E R \in SUBSET (Exprs \X Exprs) :
    /\ <<d, e>> \in R
    /\ \A x, y \in Exprs : <<x, y>> \in R =>
         /\ SameOperator(Body[x], Body[y])
         /\ Len(Body[x].args) = Len(Body[y].args)
         /\ \A i \in DOMAIN Body[x].args : <<Body[x].args[i], Body[y].args[i]>> \in R

PrefixFree ==
  \A d, e \in Wanted :
    /\ SameOperator(Body[d], Body[e])
    /\ \A i \in DOMAIN Body[d].args \cap DOMAIN Body[e].args :
         Alike(Body[d].args[i], Body[e].args[i])
    => Len(Body[d].args) = Len(Body[e].args)

-----------------------------------------------------------------------------
(***************************************************************************)
(* Calls and the handles of their operands.                                *)
(***************************************************************************)
\* What an external atom is, and what it is applied to.
LEMMA BodyFacts ==
  ASSUME NEW e \in Exprs
  PROVE  /\ Body[e] \in Bodies
         /\ Body[e].args \in Seq(Exprs)
         /\ \A i \in DOMAIN Body[e].args :
              Body[e].args[i] \in Exprs /\ Body[e].args[i] \in Range(Body[e].args)
         /\ \A d \in Range(Body[e].args) : d \in Exprs /\ d # e /\ Rank[d] < Rank[e]
         /\ Rank[e] \in Nat
         /\ IsProgram(Body[e]) => Body[e].subject \in Programs /\ Body[e].args = <<>>
         /\ ~IsProgram(Body[e]) => Body[e].subject \in Operators
<1>1. Body[e] \in Bodies
  BY BodyAssumption
<1>2. Body[e].args \in Seq(Exprs)
  BY <1>1 DEF Bodies
<1>3. \A i \in DOMAIN Body[e].args :
        Body[e].args[i] \in Exprs /\ Body[e].args[i] \in Range(Body[e].args)
  BY <1>2 DEF Range
<1>4. Range(Body[e].args) \subseteq Exprs
  BY <1>2 DEF Range
<1>5. IsProgram(Body[e]) => Body[e].subject \in Programs /\ Body[e].args = <<>>
  BY BodyAssumption
<1>6. ~IsProgram(Body[e]) => Body[e].subject \in Operators
  BY BodyAssumption
<1>7. Rank[e] \in Nat
  BY NestingAssumption
<1>8. ASSUME NEW d \in Range(Body[e].args)
      PROVE  d \in Exprs /\ d # e /\ Rank[d] < Rank[e]
  <2>1. d \in Exprs
    BY <1>4
  <2>2. CASE IsProgram(Body[e])
    <3>1. Range(Body[e].args) = {}
      BY <1>5, <2>2 DEF Range
    <3>2. QED
      BY <3>1
  <2>3. CASE ~IsProgram(Body[e])
    <3>1. Rank[d] < Rank[e]
      BY <2>3, NestingAssumption
    <3>2. QED
      BY <1>7, <2>1, <3>1
  <2>4. QED
    BY <2>2, <2>3
<1>9. QED
  BY <1>1, <1>2, <1>3, <1>5, <1>6, <1>7, <1>8

\* A call depends on the handles of its operands only.
LEMMA CallSame ==
  ASSUME NEW e \in Exprs, NEW f, NEW g,
         \A d \in Range(Body[e].args) : f[d] = g[d]
  PROVE  CallOf(e, f) = CallOf(e, g)
<1>1. [i \in DOMAIN Body[e].args |-> f[Body[e].args[i]]]
        = [i \in DOMAIN Body[e].args |-> g[Body[e].args[i]]]
  BY BodyFacts
<1>2. QED
  BY <1>1 DEF CallOf

\* The parts of a call.
LEMMA CallParts ==
  ASSUME NEW e \in Exprs, NEW f
  PROVE  /\ CallOf(e, f).type = Body[e].type
         /\ CallOf(e, f).subject = Body[e].subject
         /\ CallOf(e, f).kv = Body[e].kv
         /\ CallOf(e, f).args = [i \in DOMAIN Body[e].args |-> f[Body[e].args[i]]]
         /\ DOMAIN CallOf(e, f).args = 1 .. Len(Body[e].args)
         /\ IsProgram(CallOf(e, f)) <=> IsProgram(Body[e])
<1>1. PICK b \in Bodies : b = Body[e]
  BY BodyFacts
<1>2. PICK s : s = [i \in DOMAIN b.args |-> f[b.args[i]]]
  OBVIOUS
<1>3. CallOf(e, f) = [b EXCEPT !.args = s]
  BY <1>1, <1>2 DEF CallOf
<1>4. CallOf(e, f) = [type |-> b.type, subject |-> b.subject, args |-> s, kv |-> b.kv]
  BY <1>3 DEF Bodies
<1>5. DOMAIN s = 1 .. Len(b.args)
  BY <1>2 DEF Bodies
<1>6. QED
  BY <1>1, <1>2, <1>4, <1>5 DEF IsProgram

\* The entries an operator entry is applied to are older than it.
LEMMA EntryFacts ==
  ASSUME IInv, NEW h \in Handles
  PROVE  /\ h \in Nat /\ h # size /\ h # Nowhere
         /\ calls[h] \in Calls /\ calls[h].args \in Seq(Nat)
         /\ IsProgram(calls[h]) => calls[h].subject \in Programs
         /\ ~IsProgram(calls[h]) => calls[h].subject \in Operators
         /\ \A j \in DOMAIN calls[h].args :
              calls[h].args[j] \in Handles /\ calls[h].args[j] # size
<1>1. size \in Nat /\ calls \in [Handles -> Calls]
  BY DEF IInv, TypeOK
<1>2. h \in Nat /\ h < size /\ h # Nowhere
  BY <1>1 DEF Handles, Nowhere
<1>3. calls[h] \in Calls /\ calls[h].args \in Seq(Nat)
  BY <1>1 DEF Calls
<1>4. CASE IsProgram(calls[h])
  <2>1. calls[h].subject \in Programs /\ calls[h].args = <<>>
    BY <1>4 DEF IInv, CallsWellFormed
  <2>2. DOMAIN calls[h].args = {}
    BY <2>1
  <2>3. QED
    BY <1>2, <1>3, <1>4, <2>1, <2>2
<1>5. CASE ~IsProgram(calls[h])
  <2>1. /\ calls[h].subject \in Operators
        /\ \A j \in DOMAIN calls[h].args : calls[h].args[j] \in 0 .. h - 1
    BY <1>5 DEF IInv, CallsWellFormed
  <2>2. \A x \in 0 .. h - 1 : x \in Handles /\ x # size
    BY <1>1, <1>2 DEF Handles
  <2>3. QED
    BY <1>2, <1>3, <1>5, <2>1, <2>2
<1>6. QED
  BY <1>4, <1>5

\* Equivalence of calls.
LEMMA EquivalentFacts ==
  ASSUME NEW c, NEW d, NEW b, Equivalent(c, d), Equivalent(b, d)
  PROVE  Equivalent(c, b) /\ Equivalent(d, c) /\ MustEqual(c, d)
BY DEF Equivalent, MustEqual, MayEqual

-----------------------------------------------------------------------------
(***************************************************************************)
(* Growing denotations.                                                    *)
(***************************************************************************)
Extends(F, D) == \A e \in Exprs : D[e] # Nowhere => F[e] = D[e]

\* What is explained stays explained when other external atoms get handles.
LEMMA AtomKept ==
  ASSUME NEW D, NEW F, Extends(F, D), NEW r, NEW m, NEW e \in Exprs,
         D[e] # Nowhere, AtomExplained(D, r, m, e)
  PROVE  AtomExplained(F, r, m, e)
<1>1. \A d \in Range(Body[e].args) : D[d] # Nowhere /\ F[d] = D[d] /\ F[d] # Nowhere
  BY BodyFacts DEF AtomExplained, Extends
<1>2. F[e] = D[e]
  BY DEF Extends
<1>3. CallOf(e, F) = CallOf(e, D)
  BY <1>1, CallSame
<1>4. QED
  BY <1>1, <1>2, <1>3 DEF AtomExplained

LEMMA FrameExplainedKept ==
  ASSUME NEW D, NEW F, Extends(F, D), NEW m, NEW f,
         \A e \in Exprs : f.got[e] # Nowhere => f.got[e] = D[e],
         FrameExplained(D, m, f)
  PROVE  FrameExplained(F, m, f)
<1>1. \A e \in Exprs : f.got[e] # Nowhere => f.got[e] = F[e]
  BY DEF Extends
<1>2. QED
  BY <1>1 DEF FrameExplained

\* External atoms with the same handle make the same call.
LEMMA SameHandleAlike ==
  ASSUME NEW D, NEW r, NEW m, EntriesExplained(D, r, m),
         NEW d \in Exprs, NEW e \in Exprs, D[d] = D[e], D[d] # Nowhere
  PROVE  Alike(d, e)
<1>1. PICK R : R = {p \in Exprs \X Exprs : D[p[1]] = D[p[2]] /\ D[p[1]] # Nowhere}
  OBVIOUS
<1>2. \A x, y \in Exprs : <<x, y>> \in R <=> D[x] = D[y] /\ D[x] # Nowhere
  BY <1>1
<1>3. ASSUME NEW x \in Exprs, NEW y \in Exprs, <<x, y>> \in R
      PROVE  /\ SameOperator(Body[x], Body[y])
             /\ Len(Body[x].args) = Len(Body[y].args)
             /\ \A i \in DOMAIN Body[x].args : <<Body[x].args[i], Body[y].args[i]>> \in R
  <2>1. PICK b, c, u : b = CallOf(x, D) /\ c = CallOf(y, D) /\ u = calls[D[x]]
    OBVIOUS
  <2>2. /\ Equivalent(u, b) /\ Equivalent(u, c)
        /\ \A v \in Range(Body[x].args) : D[v] # Nowhere
    BY <1>2, <1>3, <2>1 DEF EntriesExplained, AtomExplained
  <2>3. b.type = c.type /\ b.subject = c.subject /\ b.args = c.args /\ Range(b.kv) = Range(c.kv)
    BY <2>2 DEF Equivalent
  <2>4. /\ b.type = Body[x].type /\ b.subject = Body[x].subject /\ b.kv = Body[x].kv
        /\ b.args = [i \in DOMAIN Body[x].args |-> D[Body[x].args[i]]]
        /\ c.type = Body[y].type /\ c.subject = Body[y].subject /\ c.kv = Body[y].kv
        /\ c.args = [i \in DOMAIN Body[y].args |-> D[Body[y].args[i]]]
    BY <2>1, CallParts
  <2>5. SameOperator(Body[x], Body[y])
    BY <2>3, <2>4 DEF SameOperator
  <2>6. DOMAIN Body[x].args = DOMAIN Body[y].args
    BY <2>3, <2>4
  <2>7. Len(Body[x].args) = Len(Body[y].args)
    BY <2>6, BodyFacts
  <2>8. ASSUME NEW i \in DOMAIN Body[x].args
        PROVE  <<Body[x].args[i], Body[y].args[i]>> \in R
    <3>1. D[Body[x].args[i]] = D[Body[y].args[i]]
      <4>1. i \in DOMAIN Body[x].args /\ i \in DOMAIN Body[y].args
        BY <2>6, <2>8
      <4>2. b.args = [j \in DOMAIN Body[x].args |-> D[Body[x].args[j]]]
        BY <2>4
      <4>3. c.args = [j \in DOMAIN Body[y].args |-> D[Body[y].args[j]]]
        BY <2>4
      <4>4. b.args[i] = D[Body[x].args[i]]
        BY <4>1, <4>2
      <4>5. c.args[i] = D[Body[y].args[i]]
        BY <4>1, <4>3
      <4>6. QED
        BY <2>3, <4>4, <4>5
    <3>2. Body[x].args[i] \in Exprs /\ Body[y].args[i] \in Exprs
      <4>1. i \in DOMAIN Body[y].args
        BY <2>6, <2>8
      <4>2. Body[x].args \in Seq(Exprs) /\ Body[y].args \in Seq(Exprs)
        BY BodyFacts
      <4>3. Body[x].args[i] \in Exprs
        <5>1. i \in DOMAIN Body[x].args
          BY <2>8
        <5>2. QED
          BY <4>2, <5>1
      <4>4. Body[y].args[i] \in Exprs
        BY <4>1, <4>2
      <4>5. QED
        BY <4>3, <4>4
    <3>3. D[Body[x].args[i]] # Nowhere
      <4>1. Body[x].args[i] \in Range(Body[x].args)
        BY <2>8, BodyFacts
      <4>2. QED
        BY <2>2, <4>1
    <3>4. QED
      BY <1>2, <3>1, <3>2, <3>3
  <2>9. QED
    BY <2>5, <2>7, <2>8
<1>4. R \in SUBSET (Exprs \X Exprs) /\ <<d, e>> \in R
  BY <1>1, <1>2
<1>5. QED
  BY <1>3, <1>4 DEF Alike

\* The search of operator[](HexCall) finds the entry of an equivalent call.
LEMMA FoundEquivalent ==
  ASSUME PrefixFree, NEW D, NEW r, NEW m, EntriesExplained(D, r, m),
         NEW e \in Wanted, \A d \in Range(Body[e].args) : D[d] # Nowhere,
         NEW h \in Handles, h # Nowhere, MayEqual(calls[h], CallOf(e, D))
  PROVE  Equivalent(calls[h], CallOf(e, D))
<1>1. PICK x \in Wanted : D[x] = h
  BY DEF EntriesExplained
<1>2. x \in Exprs /\ e \in Exprs
  BY UseAssumption DEF Wanted
<1>3. PICK b, c, u : b = CallOf(x, D) /\ c = CallOf(e, D) /\ u = calls[h]
  OBVIOUS
<1>4. Equivalent(u, b) /\ \A v \in Range(Body[x].args) : D[v] # Nowhere
  BY <1>1, <1>2, <1>3 DEF EntriesExplained, AtomExplained
<1>5. /\ u.type = b.type /\ u.subject = b.subject /\ u.args = b.args
      /\ Range(u.kv) = Range(b.kv)
  BY <1>4 DEF Equivalent
<1>6. /\ u.type = c.type /\ u.subject = c.subject /\ Range(u.kv) = Range(c.kv)
      /\ \A i \in DOMAIN u.args \cap DOMAIN c.args : u.args[i] = c.args[i]
  BY <1>3 DEF MayEqual
<1>7. /\ b.type = Body[x].type /\ b.subject = Body[x].subject /\ b.kv = Body[x].kv
      /\ b.args = [i \in DOMAIN Body[x].args |-> D[Body[x].args[i]]]
      /\ c.type = Body[e].type /\ c.subject = Body[e].subject /\ c.kv = Body[e].kv
      /\ c.args = [i \in DOMAIN Body[e].args |-> D[Body[e].args[i]]]
  BY <1>2, <1>3, CallParts
<1>8. SameOperator(Body[x], Body[e])
  BY <1>5, <1>6, <1>7 DEF SameOperator
<1>9. ASSUME NEW i \in DOMAIN Body[x].args \cap DOMAIN Body[e].args
      PROVE  Alike(Body[x].args[i], Body[e].args[i])
  <2>1. D[Body[x].args[i]] = D[Body[e].args[i]]
    BY <1>5, <1>6, <1>7, <1>9
  <2>2. Body[x].args[i] \in Exprs /\ Body[e].args[i] \in Exprs
        /\ D[Body[x].args[i]] # Nowhere
    BY <1>2, <1>4, <1>9, BodyFacts
  <2>3. QED
    BY <2>1, <2>2, SameHandleAlike
<1>10. Len(Body[x].args) = Len(Body[e].args)
  BY <1>8, <1>9 DEF PrefixFree
<1>11. DOMAIN Body[x].args = DOMAIN Body[e].args
  BY <1>2, <1>10, BodyFacts
<1>12. u.args = c.args
  BY <1>5, <1>6, <1>7, <1>11
<1>13. QED
  BY <1>3, <1>6, <1>12 DEF Equivalent

-----------------------------------------------------------------------------
(***************************************************************************)
(* What an entry with a call explained by D is.                            *)
(***************************************************************************)
\* The rank of the entry of an external atom is bounded by the atom's rank.
LEMMA EntryRankBound ==
  ASSUME IInv, NEW D, NEW r \in [Nat -> Nat], NEW h \in Handles, NEW e \in Exprs,
         EntryRanked(r, h), Equivalent(calls[h], CallOf(e, D)),
         \A d \in Range(Body[e].args) : r[D[d]] <= Rank[d] /\ D[d] \in Nat
  PROVE  r[h] <= Rank[e]
<1>1. PICK c \in Calls : c = calls[h]
  BY EntryFacts
<1>2. /\ c.type = Body[e].type /\ c.subject = Body[e].subject
      /\ c.args = [i \in DOMAIN Body[e].args |-> D[Body[e].args[i]]]
  BY <1>1, CallParts DEF Equivalent
<1>3. CASE IsProgram(c)
  BY <1>1, <1>2, <1>3 DEF EntryRanked
<1>4. CASE ~IsProgram(c)
  <2>1. ASSUME NEW j \in DOMAIN c.args
        PROVE  r[c.args[j]] < Rank[e]
    <3>1. PICK d \in Exprs : d = Body[e].args[j] /\ d \in Range(Body[e].args)
      BY <1>2, <2>1, BodyFacts
    <3>2. c.args[j] = D[d]
      BY <1>2, <2>1, <3>1
    <3>3. r[D[d]] <= Rank[d] /\ Rank[d] < Rank[e] /\ D[d] \in Nat
      BY <3>1, BodyFacts
    <3>4. r[D[d]] \in Nat /\ Rank[d] \in Nat /\ Rank[e] \in Nat
      BY <3>3, NestingAssumption
    <3>5. QED
      BY <3>2, <3>3, <3>4
  <2>2. Rank[e] \in Nat
    BY BodyFacts
  <2>3. QED
    BY <1>1, <1>4, <2>1, <2>2 DEF EntryRanked
<1>5. QED
  BY <1>3, <1>4

\* Applying an operator does not depend on the order of the key-values.
LEMMA ApplySame ==
  ASSUME NEW op, NEW inputs, NEW kv, NEW kw, Range(kv) = Range(kw)
  PROVE  Apply(op, inputs, kv) = Apply(op, inputs, kw)
BY DEF Apply, UserOperator

\* The meaning of an external atom, by the call it makes.
LEMMA MeaningOfCall ==
  ASSUME NEW D, NEW m, NEW e \in Exprs, NEW c, Equivalent(c, CallOf(e, D)),
         \A d \in Range(Body[e].args) : m[D[d]] = Meaning[d]
  PROVE  Meaning[e] = IF IsProgram(c)
                        THEN Evaluate(c.subject, [d \in Reads[c.subject] |-> Meaning[d]])
                        ELSE Apply(c.subject, [j \in DOMAIN c.args |-> m[c.args[j]]], c.kv)
<1>1. /\ c.type = Body[e].type /\ c.subject = Body[e].subject
      /\ c.args = [i \in DOMAIN Body[e].args |-> D[Body[e].args[i]]]
      /\ Range(c.kv) = Range(Body[e].kv)
  BY CallParts DEF Equivalent
<1>2. Meaning[e] = MeaningFrom(Meaning, e)
  BY MeaningSolved
<1>3. CASE IsProgram(c)
  BY <1>1, <1>2, <1>3 DEF MeaningFrom, IsProgram
<1>4. CASE ~IsProgram(c)
  <2>1. ASSUME NEW i \in DOMAIN Body[e].args
        PROVE  Meaning[Body[e].args[i]] = m[c.args[i]]
    BY <1>1, BodyFacts
  <2>2. [i \in DOMAIN Body[e].args |-> Meaning[Body[e].args[i]]]
          = [j \in DOMAIN c.args |-> m[c.args[j]]]
    BY <1>1, <2>1
  <2>3. Meaning[e] = Apply(Body[e].subject,
                           [i \in DOMAIN Body[e].args |-> Meaning[Body[e].args[i]]],
                           Body[e].kv)
    BY <1>1, <1>2, <1>4 DEF MeaningFrom, IsProgram
  <2>4. QED
    BY <1>1, <1>4, <2>2, <2>3, ApplySame
<1>5. QED
  BY <1>3, <1>4

-----------------------------------------------------------------------------
(***************************************************************************)
(* The order of the loads on the call stack.                               *)
(***************************************************************************)
\* Every frame but the lowest loads an entry.
LEMMA LoadedEntry ==
  ASSUME IInv, NEW i \in 2 .. Depth
  PROVE  stack[i].index \in Handles /\ stack[i].index \in Nat /\ stack[i] \in Frames
<1>1. Depth \in Nat
  BY StackFacts DEF IInv
<1>2. i \in 1 .. Depth /\ i # 1
  BY <1>1
<1>3. FrameWellFormed(i, stack[i]) /\ stack[i] \in Frames
  BY <1>2, FrameOfStack
<1>4. stack[i].index \in Handles
  BY <1>2, <1>3 DEF FrameWellFormed
<1>5. QED
  BY <1>3, <1>4, EntryFacts

\* No entry is loaded by two frames.
LEMMA LoadedByOne ==
  ASSUME IInv, NEW D, NEW r \in [Nat -> Nat], NEW m, StackExplained(D, r, m),
         NEW i \in 2 .. Depth, NEW j \in 2 .. Depth, stack[i].index = stack[j].index
  PROVE  i = j
<1>1. Depth \in Nat
  BY StackFacts DEF IInv
<1>2. PICK k \in Nat : k = r[stack[i].index] /\ k = r[stack[j].index]
  BY LoadedEntry
<1>3. ~(i < j) /\ ~(j < i)
  BY <1>2 DEF StackExplained
<1>4. QED
  BY <1>1, <1>3

\* What ranks below the topmost load ranks below all of them.
LEMMA BelowAllLoads ==
  ASSUME IInv, NEW D, NEW r \in [Nat -> Nat], NEW m, StackExplained(D, r, m),
         NEW k \in Nat, Depth >= 2 => k < r[Top.index]
  PROVE  \A i \in 2 .. Depth : k < r[stack[i].index]
<1>1. Depth \in Nat
  BY StackFacts DEF IInv
<1>2. SUFFICES ASSUME NEW i \in 2 .. Depth
               PROVE  k < r[stack[i].index]
  OBVIOUS
<1>3. Depth \in 2 .. Depth /\ Depth >= 2
  BY <1>1
<1>4. k < r[Top.index]
  BY <1>3
<1>5. CASE i = Depth
  BY <1>4, <1>5 DEF Top
<1>6. CASE i # Depth
  <2>1. i < Depth
    BY <1>1, <1>6
  <2>2. r[Top.index] < r[stack[i].index]
    BY <1>3, <2>1 DEF Top, StackExplained
  <2>3. r[Top.index] \in Nat /\ r[stack[i].index] \in Nat
    BY <1>3, LoadedEntry DEF Top
  <2>4. QED
    BY <1>4, <2>2, <2>3
<1>7. QED
  BY <1>5, <1>6

\* What a program asks for or reads ranks below its own load.
LEMMA WantedRank ==
  ASSUME IInv, Top.pc = "evaluate", NEW D, NEW r \in [Nat -> Nat], NEW m,
         EntriesExplained(D, r, m), StackExplained(D, r, m),
         NEW e \in Exprs, e \in Wants[ProgramOf(Top)],
         NEW k \in Nat, k <= Rank[e]
  PROVE  \A i \in 2 .. Depth : k < r[stack[i].index]
<1>1. ASSUME Depth >= 2
      PROVE  k < r[Top.index]
  <2>0. Depth \in Nat
    BY StackFacts DEF IInv
  <2>1. Depth \in 2 .. Depth /\ Depth \in 1 .. Depth /\ Depth # 1
    BY <1>1, <2>0
  <2>2. Top.index \in Handles /\ Top.index \in Nat /\ FrameWellFormed(Depth, Top)
    BY <2>1, LoadedEntry, FrameOfStack DEF Top
  <2>3. IsProgram(calls[Top.index]) /\ Top.index # Nowhere
    BY <2>1, <2>2, EntryFacts DEF FrameWellFormed
  <2>4. e \in Wants[calls[Top.index].subject]
    BY <2>3 DEF ProgramOf
  <2>5. Rank[e] < r[Top.index]
    BY <2>2, <2>3, <2>4 DEF EntriesExplained, EntryRanked
  <2>6. Rank[e] \in Nat /\ r[Top.index] \in Nat
    BY <2>2, NestingAssumption
  <2>7. QED
    BY <2>5, <2>6
<1>2. QED
  BY <1>1, BelowAllLoads

\* The elements of a sequence of handles.
LEMMA SequenceElement ==
  ASSUME NEW s \in Seq(Nat), NEW j \in 1 .. Len(s)
  PROVE  s[j] \in Nat /\ j \in DOMAIN s
OBVIOUS

\* So does an operand.
LEMMA OperandRank ==
  ASSUME IInv, Top.pc = "operands", NEW D, NEW r \in [Nat -> Nat], NEW m,
         EntriesExplained(D, r, m), StackExplained(D, r, m),
         NEW j \in Nat, NEW s \in Seq(Nat), s = ArgsOf(Top), j \in 1 .. Len(s)
  PROVE  \A i \in 2 .. Depth : r[s[j]] < r[stack[i].index]
<1>1. PICK n \in Nat : n + 1 = Depth
  BY TopFacts
<1>2. Top.index \in Handles /\ ~IsProgram(calls[Top.index])
  BY <1>1, ArgsFacts
<1>3. s[j] \in Nat /\ j \in DOMAIN s
  BY SequenceElement
<1>4. EntryRanked(r, Top.index)
  BY <1>2 DEF EntriesExplained
<1>5. r[s[j]] < r[Top.index]
  <2>1. PICK c : c = calls[Top.index]
    OBVIOUS
  <2>2. s = c.args /\ ~IsProgram(c)
    BY <1>2, <2>1 DEF ArgsOf
  <2>3. \A i \in DOMAIN c.args : r[c.args[i]] < r[Top.index]
    BY <1>4, <2>1, <2>2 DEF EntryRanked
  <2>4. QED
    BY <1>3, <2>2, <2>3
<1>6. r[s[j]] \in Nat
  BY <1>3
<1>7. QED
  BY <1>5, <1>6, BelowAllLoads

-----------------------------------------------------------------------------
(***************************************************************************)
(* Steps that leave the entries alone.                                     *)
(***************************************************************************)
LEMMA EntriesExplainedKept ==
  ASSUME UNCHANGED <<size, calls>>, NEW D, NEW r, NEW m, EntriesExplained(D, r, m)
  PROVE  EntriesExplained(D, r, m)'
<1>1. Handles' = Handles
  BY DEF Handles
<1>2. CallsDistinct' /\ \A h \in Handles : \E e \in Wanted : D[e] = h
  BY <1>1 DEF EntriesExplained, CallsDistinct
<1>3. \A h \in Handles : EntryRanked(r, h)' /\ EntryMeans(m, h)'
  BY DEF EntriesExplained, EntryRanked, EntryMeans
<1>4. \A e \in Exprs : D[e] # Nowhere => AtomExplained(D, r, m, e)'
  BY <1>1 DEF EntriesExplained, AtomExplained
<1>5. QED
  BY <1>1, <1>2, <1>3, <1>4 DEF EntriesExplained

\* The top frame, or the one below it after a return, becomes f.
LEMMA StackTruncated ==
  ASSUME IInv, NEW D, NEW r, NEW m, StackExplained(D, r, m),
         NEW n \in Nat, n + 1 <= Depth, Depth' = n + 1,
         \A i \in 1 .. n : stack'[i] = stack[i],
         NEW f, stack'[n + 1] = f,
         f.index = stack[n + 1].index, f.caller = stack[n + 1].caller,
         f.want = stack[n + 1].want, FrameExplained(D, m, f)
  PROVE  StackExplained(D, r, m)'
<1>1. Depth \in Nat
  BY StackFacts DEF IInv
<1>2. /\ 1 .. n + 1 \subseteq 1 .. Depth /\ 2 .. n + 1 \subseteq 2 .. Depth
      /\ \A i \in 1 .. n + 1 : i \in 1 .. n \/ i = n + 1
      /\ \A i \in 2 .. n + 1 : i \in 1 .. n \/ i = n + 1
      /\ n + 1 - 1 = n
      /\ \A i \in 1 .. n : i \in 1 .. Depth - 1 /\ (i + 1 \in 1 .. n \/ i + 1 = n + 1)
  BY <1>1
<1>3. \A i \in 1 .. n + 1 : FrameExplained(D, m, stack'[i])
  BY <1>2 DEF StackExplained
<1>4. \A i \in 1 .. n : LoadExplained(D, stack'[i], stack'[i + 1])
  <2>1. SUFFICES ASSUME NEW i \in 1 .. n
                 PROVE  LoadExplained(D, stack[i], stack'[i + 1])
    OBVIOUS
  <2>2. LoadExplained(D, stack[i], stack[i + 1])
    BY <1>2 DEF StackExplained
  <2>3. CASE i + 1 \in 1 .. n
    BY <2>2, <2>3
  <2>4. CASE i + 1 = n + 1
    BY <2>2, <2>4 DEF LoadExplained
  <2>5. QED
    BY <1>2, <2>3, <2>4
<1>5. \A i \in 2 .. n + 1 : stack'[i].index = stack[i].index
  BY <1>2
<1>6. \A i, j \in 2 .. n + 1 : i < j => r[stack'[j].index] < r[stack'[i].index]
  BY <1>2, <1>5 DEF StackExplained
<1>7. QED
  BY <1>2, <1>3, <1>4, <1>6 DEF StackExplained, FrameExplained, LoadExplained

\* A frame g is pushed over the top frame, which becomes f.
LEMMA StackGrown ==
  ASSUME IInv, NEW D, NEW r, NEW m, StackExplained(D, r, m),
         NEW n \in Nat, n + 1 = Depth, Depth' = n + 2,
         \A i \in 1 .. n : stack'[i] = stack[i],
         NEW f, stack'[n + 1] = f, NEW g, stack'[n + 2] = g,
         f.index = Top.index, f.caller = Top.caller, f.want = Top.want,
         FrameExplained(D, m, f), FrameExplained(D, m, g), LoadExplained(D, f, g),
         \A i \in 2 .. Depth : r[g.index] < r[stack[i].index]
  PROVE  StackExplained(D, r, m)'
<1>1. /\ \A i \in 1 .. n + 2 : i \in 1 .. n \/ i = n + 1 \/ i = n + 2
      /\ \A i \in 2 .. n + 2 : i \in 2 .. n + 1 \/ i = n + 2
      /\ \A i \in 2 .. n + 1 : i \in 2 .. Depth /\ (i \in 1 .. n \/ i = n + 1)
      /\ n + 2 - 1 = n + 1 /\ n + 1 + 1 = n + 2
      /\ \A i \in 1 .. n + 1 : i \in 1 .. n \/ i = n + 1
      /\ \A i \in 1 .. n : i \in 1 .. Depth /\ i \in 1 .. Depth - 1
                          /\ (i + 1 \in 1 .. n \/ i + 1 = n + 1)
  OBVIOUS
<1>2. Top = stack[n + 1]
  BY DEF Top
<1>3. \A i \in 1 .. n + 2 : FrameExplained(D, m, stack'[i])
  BY <1>1 DEF StackExplained
<1>4. ASSUME NEW i \in 1 .. n + 1
      PROVE  LoadExplained(D, stack'[i], stack'[i + 1])
  <2>1. CASE i \in 1 .. n
    <3>1. LoadExplained(D, stack[i], stack[i + 1])
      BY <1>1, <2>1 DEF StackExplained
    <3>2. CASE i + 1 \in 1 .. n
      BY <2>1, <3>1, <3>2
    <3>3. CASE i + 1 = n + 1
      BY <1>2, <2>1, <3>1, <3>3 DEF LoadExplained
    <3>4. QED
      BY <1>1, <2>1, <3>2, <3>3
  <2>2. CASE i = n + 1
    BY <1>1, <2>2
  <2>3. QED
    BY <1>1, <2>1, <2>2
<1>5. \A i \in 2 .. n + 1 : stack'[i].index = stack[i].index
  BY <1>1, <1>2
<1>6. ASSUME NEW i \in 2 .. n + 2, NEW j \in 2 .. n + 2, i < j
      PROVE  r[stack'[j].index] < r[stack'[i].index]
  <2>1. CASE j = n + 2
    <3>1. i \in 2 .. n + 1
      BY <1>6, <2>1
    <3>2. QED
      BY <1>1, <1>5, <2>1, <3>1
  <2>2. CASE j \in 2 .. n + 1
    <3>1. i \in 2 .. n + 1
      BY <1>6, <2>2
    <3>2. QED
      BY <1>1, <1>5, <1>6, <2>2, <3>1 DEF StackExplained
  <2>3. QED
    BY <1>1, <2>1, <2>2
<1>7. QED
  BY <1>1, <1>3, <1>4, <1>6 DEF StackExplained, FrameExplained, LoadExplained

\* The entries, their answers and the loads of the frames below are the same;
\* the frames above, if any, had finished.
LEMMA OrderTruncated ==
  ASSUME IInv, LoadsInOrder, NEW D, NEW m, AnswersExplained(m), Settled(D),
         UNCHANGED <<size, calls, answer, elementsInCache>>,
         NEW n \in Nat, n + 1 <= Depth, Depth' = n + 1,
         \A i \in 1 .. n : stack'[i] = stack[i],
         NEW f, stack'[n + 1] = f,
         f.index = stack[n + 1].index, f.caller = stack[n + 1].caller,
         f.pc # "reduce",
         f.pc = stack[n + 1].pc \/ (stack[n + 1].pc = "operands" /\ f.pc = "release"),
         \A i \in n + 2 .. Depth : stack[i].pc = "reduce"
  PROVE  LoadsInOrder' /\ AnswersExplained(m)' /\ Settled(D)'
<1>1. Depth \in Nat
  BY StackFacts DEF IInv
<1>2. /\ \A i \in 1 .. n + 1 : i \in 1 .. Depth /\ (i \in 1 .. n \/ i = n + 1)
      /\ \A i \in 2 .. n + 1 : i \in 2 .. Depth /\ i \in 1 .. n + 1
      /\ \A i \in 2 .. Depth : i \in 2 .. n + 1 \/ i \in n + 2 .. Depth
  BY <1>1
<1>3. \A i \in 1 .. n + 1 :
        /\ stack'[i].index = stack[i].index /\ stack'[i].caller = stack[i].caller
        /\ \/ stack'[i].pc = stack[i].pc
           \/ stack[i].pc = "operands" /\ stack'[i].pc = "release"
  BY <1>2
<1>4. Handles' = Handles /\ Resident' = Resident
  BY DEF Handles, Resident
<1>5. OperandsReloaded'
  <2>1. SUFFICES ASSUME NEW i \in 1 .. n + 1, NEW j \in 1 .. n + 1,
                        i < j, stack'[i].pc = "operands"
                 PROVE  stack'[j].caller # "request"
    BY DEF OperandsReloaded
  <2>2. stack[i].pc = "operands" /\ stack'[j].caller = stack[j].caller
    BY <1>3, <2>1
  <2>3. QED
    BY <1>2, <2>1, <2>2 DEF LoadsInOrder, OperandsReloaded
<1>6. LoadsEmpty'
  BY <1>2, <1>3 DEF LoadsInOrder, LoadsEmpty
<1>7. CountMatchesResident'
  BY <1>4 DEF LoadsInOrder, CountMatchesResident
<1>8. ResidentOrLoading'
  <2>1. SUFFICES ASSUME MaxCacheEntries < 0, NEW h \in Handles, answer[h] = NULL
                 PROVE  \E i \in 2 .. n + 1 : stack'[i].index = h /\ stack'[i].pc # "reduce"
    BY <1>4 DEF ResidentOrLoading
  <2>2. PICK i \in 2 .. Depth : stack[i].index = h /\ stack[i].pc # "reduce"
    BY <2>1 DEF LoadsInOrder, ResidentOrLoading
  <2>3. i \in 2 .. n + 1
    BY <1>2, <2>2
  <2>4. QED
    BY <1>2, <1>3, <2>2, <2>3
<1>9. LoadedOnce'
  BY <1>2, <1>3 DEF LoadsInOrder, LoadedOnce
<1>10. AnswersExplained(m)'
  BY <1>4 DEF AnswersExplained
<1>11. Settled(D)'
  <2>1. SUFFICES ASSUME NEW h \in Handles, IsProgram(calls[h]),
                        NEW i \in 2 .. Depth, FirstLoad(stack[i], h)
                 PROVE  \E k \in 2 .. n + 1 : FirstLoad(stack'[k], h)
    BY <1>4 DEF Settled, FirstLoad
  <2>2. i \in 2 .. n + 1
    BY <1>2, <2>1 DEF FirstLoad
  <2>3. FirstLoad(stack'[i], h)
    BY <1>2, <1>3, <2>1, <2>2 DEF FirstLoad
  <2>4. QED
    BY <2>2, <2>3
<1>12. QED
  BY <1>5, <1>6, <1>7, <1>8, <1>9, <1>10, <1>11 DEF LoadsInOrder

\* An entry whose answer was evicted is loaded again.
LEMMA OrderGrown ==
  ASSUME IInv, LoadsInOrder, NEW D, NEW r \in [Nat -> Nat], NEW m,
         AnswersExplained(m), Settled(D), StackExplained(D, r, m),
         UNCHANGED <<size, calls, answer, elementsInCache>>,
         NEW n \in Nat, n + 1 = Depth, Depth' = n + 2,
         \A i \in 1 .. n : stack'[i] = stack[i],
         NEW f, stack'[n + 1] = f, NEW g, stack'[n + 2] = g,
         f.index = Top.index, f.caller = Top.caller, f.pc = Top.pc,
         g.index \in Handles, answer[g.index] = NULL,
         g.caller \in {"read", "operand"}, g.pc # "reduce",
         \A i \in 2 .. Depth : r[g.index] < r[stack[i].index]
  PROVE  LoadsInOrder' /\ AnswersExplained(m)' /\ Settled(D)'
<1>1. /\ \A i \in 1 .. n + 2 : i \in 1 .. Depth \/ i = n + 2
      /\ \A i \in 2 .. n + 2 : i \in 2 .. Depth \/ i = n + 2
      /\ \A i \in 2 .. Depth : i \in 1 .. Depth /\ i \in 2 .. n + 2
      /\ \A i \in 1 .. Depth : i \in 1 .. n \/ i = n + 1
  OBVIOUS
<1>2. Top = stack[n + 1]
  BY DEF Top
<1>3. \A i \in 1 .. Depth :
        /\ stack'[i].index = stack[i].index /\ stack'[i].caller = stack[i].caller
        /\ stack'[i].pc = stack[i].pc
  BY <1>1, <1>2
<1>4. Handles' = Handles /\ Resident' = Resident
  BY DEF Handles, Resident
<1>5. OperandsReloaded'
  <2>1. SUFFICES ASSUME NEW i \in 1 .. n + 2, NEW j \in 1 .. n + 2,
                        i < j, stack'[i].pc = "operands"
                 PROVE  stack'[j].caller # "request"
    BY DEF OperandsReloaded
  <2>2. CASE j = n + 2
    BY <2>2
  <2>3. CASE j \in 1 .. Depth
    <3>1. i \in 1 .. Depth
      BY <2>1, <2>3
    <3>2. QED
      BY <1>3, <2>1, <2>3, <3>1 DEF LoadsInOrder, OperandsReloaded
  <2>4. QED
    BY <1>1, <2>2, <2>3
<1>6. LoadsEmpty'
  BY <1>1, <1>3 DEF LoadsInOrder, LoadsEmpty
<1>7. CountMatchesResident'
  BY <1>4 DEF LoadsInOrder, CountMatchesResident
<1>8. ~(MaxCacheEntries < 0)
  <2>1. SUFFICES ASSUME MaxCacheEntries < 0
                 PROVE  FALSE
    OBVIOUS
  <2>2. PICK i \in 2 .. Depth : stack[i].index = g.index
    BY <2>1 DEF LoadsInOrder, ResidentOrLoading
  <2>3. r[g.index] < r[g.index] /\ r[g.index] \in Nat
    BY <2>2, EntryFacts
  <2>4. QED
    BY <2>3
<1>9. ResidentOrLoading' /\ LoadedOnce'
  BY <1>8 DEF ResidentOrLoading, LoadedOnce
<1>10. AnswersExplained(m)'
  BY <1>4 DEF AnswersExplained
<1>11. Settled(D)'
  <2>1. SUFFICES ASSUME NEW h \in Handles, IsProgram(calls[h]),
                        NEW i \in 2 .. Depth, FirstLoad(stack[i], h)
                 PROVE  \E k \in 2 .. n + 2 : FirstLoad(stack'[k], h)
    BY <1>4 DEF Settled, FirstLoad
  <2>2. FirstLoad(stack'[i], h) /\ i \in 2 .. n + 2
    BY <1>1, <1>3, <2>1 DEF FirstLoad
  <2>3. QED
    BY <2>2
<1>12. QED
  BY <1>5, <1>6, <1>7, <1>9, <1>10, <1>11 DEF LoadsInOrder

\* All of the invariant, after a step of the top frame or a return.
LEMMA TruncatedStep ==
  ASSUME IInv, LoadsInOrder, NEW D, NEW r, NEW m, Explained(D, r, m),
         UNCHANGED <<size, calls, answer, elementsInCache>>,
         NEW n \in Nat, n + 1 <= Depth, Depth' = n + 1,
         \A i \in 1 .. n : stack'[i] = stack[i],
         NEW f, stack'[n + 1] = f,
         f.index = stack[n + 1].index, f.caller = stack[n + 1].caller,
         f.want = stack[n + 1].want, f.pc # "reduce",
         f.pc = stack[n + 1].pc \/ (stack[n + 1].pc = "operands" /\ f.pc = "release"),
         \A i \in n + 2 .. Depth : stack[i].pc = "reduce",
         FrameExplained(D, m, f)
  PROVE  LoadsInOrder' /\ Explained(D, r, m)'
<1>1. LoadsInOrder' /\ AnswersExplained(m)' /\ Settled(D)'
  BY OrderTruncated DEF Explained
<1>2. StackExplained(D, r, m)'
  BY StackTruncated DEF Explained
<1>3. EntriesExplained(D, r, m)'
  BY EntriesExplainedKept DEF Explained
<1>4. QED
  BY <1>1, <1>2, <1>3 DEF Explained

LEMMA ReplacedStep ==
  ASSUME IInv, LoadsInOrder, NEW D, NEW r, NEW m, Explained(D, r, m),
         UNCHANGED <<size, calls, answer, elementsInCache>>,
         NEW f \in Frames, Replace(f),
         f.index = Top.index, f.caller = Top.caller, f.want = Top.want,
         f.pc # "reduce",
         f.pc = Top.pc \/ (Top.pc = "operands" /\ f.pc = "release"),
         FrameExplained(D, m, f)
  PROVE  LoadsInOrder' /\ Explained(D, r, m)'
<1>1. PICK n \in Nat : n + 1 = Depth
  BY TopFacts
<1>2. /\ Depth' = Depth
      /\ \A i \in 1 .. Depth : stack'[i] = IF i = Depth THEN f ELSE stack[i]
  BY ReplaceFacts DEF IInv
<1>3. /\ Depth' = n + 1 /\ n + 1 <= Depth /\ n + 2 .. Depth = {}
      /\ n + 1 \in 1 .. Depth /\ \A i \in 1 .. n : i \in 1 .. Depth /\ i # Depth
  BY <1>1, <1>2
<1>4. stack'[n + 1] = f /\ \A i \in 1 .. n : stack'[i] = stack[i]
  BY <1>1, <1>2, <1>3
<1>5. Top = stack[n + 1]
  BY <1>1 DEF Top
<1>6. QED
  BY <1>3, <1>4, <1>5, TruncatedStep

\* The frames of the stack, explained.
LEMMA TopExplained ==
  ASSUME IInv, NEW D, NEW r, NEW m, Explained(D, r, m)
  PROVE  /\ Top \in Frames /\ FrameExplained(D, m, Top)
         /\ \A e \in Exprs : Top.got[e] # Nowhere => AtomExplained(D, r, m, e)
<1>1. Depth \in 1 .. Depth /\ Top \in Frames
  BY StackFacts DEF IInv
<1>2. FrameExplained(D, m, Top)
  BY <1>1 DEF Explained, StackExplained, Top
<1>3. \A e \in Exprs : Top.got[e] # Nowhere => D[e] # Nowhere
  BY <1>2 DEF FrameExplained
<1>4. QED
  BY <1>1, <1>2, <1>3 DEF Explained, EntriesExplained

\* The answer of a handle is the meaning of the external atom it stands for.
LEMMA AnswerMeans ==
  ASSUME NEW D, NEW r, NEW m, Explained(D, r, m), NEW e \in Exprs,
         D[e] # Nowhere, answer[D[e]] # NULL
  PROVE  answer[D[e]] = Meaning[e]
<1>1. D[e] \in Handles /\ m[D[e]] = Meaning[e]
  BY DEF Explained, EntriesExplained, AtomExplained
<1>2. QED
  BY <1>1 DEF Explained, AnswersExplained

LEMMA ReadResidentExplained ==
  ASSUME IInv, LoadsInOrder, NEW D, NEW r, NEW m, Explained(D, r, m),
         NEW e \in Exprs, ReadResident(e)
  PROVE  LoadsInOrder' /\ Explained(D, r, m)'
<1>1. PICK a : a = answer[Top.got[e]]
  OBVIOUS
<1>2. PICK f : f = [Top EXCEPT !.seen[e] = a]
  OBVIOUS
<1>3. /\ Top.pc = "evaluate" /\ Top.got[e] \in Handles /\ a # NULL /\ Replace(f)
      /\ UNCHANGED <<size, calls, answer, elementsInCache>>
  BY <1>1, <1>2 DEF ReadResident, Readable, Running, Missing
<1>4. Top \in Frames /\ FrameExplained(D, m, Top)
  BY TopExplained
<1>5. a \in Answers \cup {NULL}
  BY <1>1, <1>3 DEF IInv, TypeOK
<1>6. /\ f \in Frames /\ f.index = Top.index /\ f.caller = Top.caller
      /\ f.want = Top.want /\ f.pc = Top.pc /\ f.got = Top.got
      /\ f.seen = [Top.seen EXCEPT ![e] = a]
  BY <1>2, <1>4, <1>5 DEF Frames
<1>7. Top.seen \in [Exprs -> Answers \cup {NULL}]
  BY <1>4 DEF Frames
<1>8. Top.got[e] # Nowhere
  BY <1>3, EntryFacts
<1>9. a = Meaning[e]
  BY <1>1, <1>3, <1>4, <1>8, AnswerMeans DEF FrameExplained
<1>10. FrameExplained(D, m, f)
  BY <1>3, <1>4, <1>6, <1>7, <1>9 DEF FrameExplained
<1>11. QED
  BY <1>3, <1>6, <1>10, ReplacedStep

\* The operator is applied to the answers of the entries it was called with.
LEMMA ApplyExplained ==
  ASSUME IInv, LoadsInOrder, NEW D, NEW r, NEW m, Explained(D, r, m), ApplyOperator
  PROVE  LoadsInOrder' /\ Explained(D, r, m)'
<1>1. PICK c, inputs : /\ c = calls[Top.index]
                       /\ inputs = [i \in DOMAIN Top.operands |-> answer[Top.operands[i]]]
  OBVIOUS
<1>2. PICK a : a = Apply(c.subject, inputs, c.kv)
  OBVIOUS
<1>3. PICK f : f = [Top EXCEPT !.pc = "release", !.result = a]
  OBVIOUS
<1>4. /\ Collected /\ Accepts(c.subject, Len(c.args), c.kv) /\ Replace(f)
      /\ UNCHANGED <<size, calls, answer, elementsInCache>>
      /\ Top.pc = "operands" /\ Len(Top.operands) = Len(c.args)
  BY <1>1, <1>2, <1>3 DEF ApplyOperator, Collected, Running, ArgsOf
<1>5. Top \in Frames /\ FrameExplained(D, m, Top)
  BY TopExplained
<1>6. PICK n \in Nat : n + 1 = Depth
  BY TopFacts
<1>7. Top.index \in Handles /\ ~IsProgram(c)
  BY <1>1, <1>4, <1>6, ArgsFacts
<1>8. c \in Calls /\ c.args \in Seq(Nat) /\ c.subject \in Operators
      /\ \A j \in DOMAIN c.args : c.args[j] \in Handles
  BY <1>1, <1>7, EntryFacts
<1>9. OperandsValid(Top) /\ Top.operands \in Seq(Nat)
  BY <1>4, <1>5, TopFacts DEF Frames
<1>10. DOMAIN Top.operands = DOMAIN c.args
  BY <1>4, <1>8, <1>9
<1>11. ASSUME NEW i \in DOMAIN c.args
       PROVE  answer[Top.operands[i]] = m[c.args[i]]
  <2>1. i \in 1 .. Len(Top.operands)
    BY <1>9, <1>10
  <2>2. Top.operands[i] = c.args[i] /\ answer[Top.operands[i]] # NULL
    BY <1>1, <1>9, <2>1 DEF OperandsValid, ArgsOf
  <2>3. c.args[i] \in Handles
    BY <1>8
  <2>4. QED
    BY <2>2, <2>3 DEF Explained, AnswersExplained
<1>12. inputs = [j \in DOMAIN c.args |-> m[c.args[j]]]
  BY <1>1, <1>10, <1>11
<1>13. m[Top.index] = a
  <2>1. EntryMeans(m, Top.index)
    BY <1>7 DEF Explained, EntriesExplained
  <2>2. QED
    BY <1>1, <1>2, <1>7, <1>12, <2>1 DEF EntryMeans
<1>14. a \in Answers
  <2>1. inputs \in [1 .. Len(c.args) -> Answers]
    BY <1>1, <1>4, OperandsAreAnswers DEF ArgsOf
  <2>2. c.kv \in Seq(KeyValues) /\ Len(c.args) \in Nat
    BY <1>8 DEF Calls
  <2>3. QED
    BY <1>2, <1>4, <1>8, <2>1, <2>2, ApplyType
<1>15. /\ f \in Frames /\ f.index = Top.index /\ f.caller = Top.caller
       /\ f.want = Top.want /\ f.pc = "release" /\ f.got = Top.got
       /\ f.seen = Top.seen /\ f.result = a
  BY <1>3, <1>5, <1>14 DEF Frames
<1>16. FrameExplained(D, m, f)
  BY <1>5, <1>13, <1>15 DEF FrameExplained
<1>17. QED
  BY <1>4, <1>15, <1>16, ReplacedStep

\* Counting locks, collecting an operand and unlocking one.
LEMMA CountersExplained ==
  ASSUME IInv, LoadsInOrder, NEW D, NEW r, NEW m, Explained(D, r, m),
         UNCHANGED <<size, calls, answer, elementsInCache>>,
         NEW f \in Frames, Replace(f), Top.pc # "reduce",
         f.index = Top.index, f.caller = Top.caller, f.want = Top.want, f.pc = Top.pc,
         f.got = Top.got, f.seen = Top.seen, f.result = Top.result
  PROVE  LoadsInOrder' /\ Explained(D, r, m)'
<1>1. FrameExplained(D, m, Top)
  BY TopExplained
<1>2. FrameExplained(D, m, f)
  BY <1>1 DEF FrameExplained
<1>3. QED
  BY <1>2, ReplacedStep

LEMMA ReleaseExplained ==
  ASSUME IInv, LoadsInOrder, NEW D, NEW r, NEW m, Explained(D, r, m), ReleaseOperand
  PROVE  LoadsInOrder' /\ Explained(D, r, m)'
<1>1. PICK k, f : k = Top.released + 1 /\ f = [Top EXCEPT !.released = k]
  OBVIOUS
<1>2. /\ Replace(f) /\ Top.pc = "release"
      /\ UNCHANGED <<size, calls, answer, elementsInCache>>
  BY <1>1 DEF ReleaseOperand, Running
<1>3. Top \in Frames
  BY TopFacts
<1>4. k \in Nat
  BY <1>1, <1>3 DEF Frames
<1>5. /\ f \in Frames /\ f.index = Top.index /\ f.caller = Top.caller
      /\ f.want = Top.want /\ f.pc = Top.pc
      /\ f.got = Top.got /\ f.seen = Top.seen /\ f.result = Top.result
  BY <1>1, <1>3, <1>4 DEF Frames
<1>6. QED
  BY <1>2, <1>5, CountersExplained

LEMMA LockResidentExplained ==
  ASSUME IInv, LoadsInOrder, NEW D, NEW r, NEW m, Explained(D, r, m), LockOperand,
         ~Missing(ArgsOf(Top)[Top.locked + 1])
  PROVE  LoadsInOrder' /\ Explained(D, r, m)'
<1>1. PICK k, h : k = Top.locked + 1 /\ h = ArgsOf(Top)[k]
  OBVIOUS
<1>2. PICK n \in Nat : n + 1 = Depth
  BY TopFacts
<1>3. /\ Top.pc = "operands" /\ k \in 1 .. Len(ArgsOf(Top)) /\ h \in Handles
      /\ UNCHANGED <<size, calls, answer, elementsInCache>>
  BY <1>1, <1>2, LockFacts
<1>4. PICK s : s = Append(Top.operands, h)
  OBVIOUS
<1>5. PICK f : f = [Top EXCEPT !.locked = k, !.operands = s]
  OBVIOUS
<1>6. Top \in Frames /\ h \in Nat /\ k \in Nat
  BY <1>1, <1>2, <1>3, LockFacts, TopFacts, EntryFacts
<1>7. s \in Seq(Nat)
  BY <1>4, <1>6 DEF Frames
<1>8. Replace(f)
  <2>1. PICK g : g = [Top EXCEPT !.locked = @ + 1]
    OBVIOUS
  <2>2. Replace([g EXCEPT !.operands = Append(@, h)])
    BY <1>1, <2>1 DEF LockOperand
  <2>3. g = [Top EXCEPT !.locked = k] /\ g.operands = Top.operands
    BY <1>1, <1>6, <2>1 DEF Frames
  <2>4. [g EXCEPT !.operands = Append(@, h)] = f
    BY <1>4, <1>5, <1>6, <2>3 DEF Frames
  <2>5. QED
    BY <2>2, <2>4
<1>9. /\ f \in Frames /\ f.index = Top.index /\ f.caller = Top.caller
      /\ f.want = Top.want /\ f.pc = Top.pc
      /\ f.got = Top.got /\ f.seen = Top.seen /\ f.result = Top.result
  BY <1>5, <1>6, <1>7 DEF Frames
<1>10. QED
  BY <1>3, <1>8, <1>9, CountersExplained

\* Steps that change none of this.
LEMMA IdleExplained ==
  ASSUME IInv, LoadsInOrder, NEW D, NEW r, NEW m, Explained(D, r, m),
         UNCHANGED <<size, calls, answer, elementsInCache, stack>>
  PROVE  LoadsInOrder' /\ Explained(D, r, m)'
<1>1. Handles' = Handles /\ Resident' = Resident /\ Depth' = Depth
  BY DEF Handles, Resident, Depth
<1>2. LoadsInOrder'
  BY <1>1 DEF LoadsInOrder, OperandsReloaded, LoadsEmpty, CountMatchesResident,
     ResidentOrLoading, LoadedOnce
<1>3. EntriesExplained(D, r, m)'
  BY EntriesExplainedKept DEF Explained
<1>4. StackExplained(D, r, m)' /\ AnswersExplained(m)' /\ Settled(D)'
  BY <1>1 DEF Explained, StackExplained, FrameExplained, LoadExplained, AnswersExplained,
     Settled, FirstLoad
<1>5. QED
  BY <1>2, <1>3, <1>4 DEF Explained

-----------------------------------------------------------------------------
(***************************************************************************)
(* load returns.                                                           *)
(***************************************************************************)
LEMMA ReturnedStep ==
  ASSUME IInv, LoadsInOrder, NEW D, NEW r, NEW m, Explained(D, r, m), Reduced,
         UNCHANGED <<size, calls, answer, elementsInCache>>,
         NEW f \in Frames, ReturnInto(f),
         f.index = Parent.index, f.caller = Parent.caller, f.want = Parent.want,
         f.pc = Parent.pc, FrameExplained(D, m, f)
  PROVE  LoadsInOrder' /\ Explained(D, r, m)'
<1>1. PICK n \in Nat : n + 2 = Depth /\ Parent = stack[n + 1]
  BY ParentFacts
<1>2. Parent.pc \in {"evaluate", "operands"} /\ Top.pc = "reduce"
  BY ParentFacts DEF FrameAbove
<1>3. /\ Depth > 1 /\ Depth - 1 = n + 1 /\ n + 1 <= Depth
      /\ \A i \in n + 2 .. Depth : i = Depth
      /\ n + 1 \in 1 .. Depth - 1
      /\ \A i \in 1 .. n : i \in 1 .. Depth - 1 /\ i # Depth - 1
  BY <1>1
<1>4. /\ Depth' = Depth - 1
      /\ \A i \in 1 .. Depth - 1 : stack'[i] = IF i = Depth - 1 THEN f ELSE stack[i]
  BY <1>3, ReturnFacts DEF IInv
<1>5. Depth' = n + 1 /\ stack'[n + 1] = f /\ \A i \in 1 .. n : stack'[i] = stack[i]
  BY <1>3, <1>4
<1>6. \A i \in n + 2 .. Depth : stack[i].pc = "reduce"
  BY <1>2, <1>3 DEF Top
<1>7. f.pc # "reduce"
  BY <1>2
<1>8. QED
  BY <1>1, <1>3, <1>5, <1>6, <1>7, TruncatedStep

\* The frame that is on top, what it has loaded, and the frame that waits.
LEMMA ReturnExplained ==
  ASSUME IInv, NEW D, NEW r, NEW m, Explained(D, r, m), Reduced
  PROVE  /\ FrameExplained(D, m, Parent) /\ LoadExplained(D, Parent, Top)
         /\ Parent \in Frames /\ Parent.pc \in {"evaluate", "operands"}
         /\ Top.index \in Handles /\ Top.index \in Nat /\ Top.index # Nowhere
         /\ Top.caller # "operand" => Top.want \in Exprs
<1>1. PICK n \in Nat : n + 2 = Depth /\ Parent = stack[n + 1]
  BY ParentFacts
<1>2. n + 1 \in 1 .. Depth /\ n + 1 \in 1 .. Depth - 1 /\ (n + 1) + 1 = Depth
  BY <1>1
<1>3. FrameExplained(D, m, Parent) /\ LoadExplained(D, Parent, Top)
  BY <1>1, <1>2 DEF Explained, StackExplained, Top
<1>4. /\ Parent \in Frames /\ Parent.pc \in {"evaluate", "operands"}
      /\ Top.index \in Handles
      /\ Top.caller # "operand" => Top.want \in Exprs
  BY ParentFacts DEF FrameAbove
<1>5. QED
  BY <1>3, <1>4, EntryFacts

LEMMA ReturnHandleExplained ==
  ASSUME IInv, LoadsInOrder, NEW D, NEW r, NEW m, Explained(D, r, m), ReturnHandle
  PROVE  LoadsInOrder' /\ Explained(D, r, m)'
<1>1. PICK h, e : h = Top.index /\ e = Top.want
  OBVIOUS
<1>2. PICK f : f = [Parent EXCEPT !.got[e] = h]
  OBVIOUS
<1>3. /\ Reduced /\ Top.caller = "request" /\ ReturnInto(f)
      /\ UNCHANGED <<size, calls, answer, elementsInCache>>
  BY <1>1, <1>2 DEF ReturnHandle
<1>4. /\ FrameExplained(D, m, Parent) /\ LoadExplained(D, Parent, Top)
      /\ Parent \in Frames /\ h \in Nat /\ h # Nowhere /\ e \in Exprs
  BY <1>1, <1>3, ReturnExplained
<1>5. /\ f \in Frames /\ f.index = Parent.index /\ f.caller = Parent.caller
      /\ f.want = Parent.want /\ f.pc = Parent.pc /\ f.seen = Parent.seen
      /\ f.result = Parent.result
      /\ f.got = [Parent.got EXCEPT ![e] = h]
      /\ Parent.got \in [Exprs -> Nat \cup {Nowhere}]
  BY <1>2, <1>4 DEF Frames
<1>6. D[e] = h /\ \A d \in Range(Body[e].args) : Parent.got[d] # Nowhere
  BY <1>1, <1>3, <1>4 DEF LoadExplained
<1>7. \A x \in Exprs : f.got[x] = IF x = e THEN h ELSE Parent.got[x]
  BY <1>5
<1>8. \A x \in Exprs : Parent.got[x] # Nowhere => f.got[x] # Nowhere
  BY <1>4, <1>7
<1>9. \A x \in Exprs : f.got[x] # Nowhere =>
        f.got[x] = D[x] /\ \A d \in Range(Body[x].args) : Parent.got[d] # Nowhere
  BY <1>4, <1>6, <1>7 DEF FrameExplained
<1>10. \A x \in Exprs : \A d \in Range(Body[x].args) : d \in Exprs
  BY BodyFacts
<1>11. FrameExplained(D, m, f)
  BY <1>4, <1>5, <1>8, <1>9, <1>10 DEF FrameExplained
<1>12. QED
  BY <1>3, <1>5, <1>11, ReturnedStep

LEMMA ReturnAnswerExplained ==
  ASSUME IInv, LoadsInOrder, NEW D, NEW r, NEW m, Explained(D, r, m), ReturnAnswer
  PROVE  LoadsInOrder' /\ Explained(D, r, m)'
<1>1. PICK a, e : a = answer[Top.index] /\ e = Top.want
  OBVIOUS
<1>2. PICK f : f = [Parent EXCEPT !.seen[e] = a]
  OBVIOUS
<1>3. /\ Reduced /\ Top.caller = "read" /\ ReturnInto(f)
      /\ UNCHANGED <<size, calls, answer, elementsInCache>>
  BY <1>1, <1>2 DEF ReturnAnswer
<1>4. /\ FrameExplained(D, m, Parent) /\ LoadExplained(D, Parent, Top)
      /\ Parent \in Frames /\ Top.index \in Handles /\ Top.index # Nowhere /\ e \in Exprs
  BY <1>1, <1>3, ReturnExplained
<1>5. a \in Answers \cup {NULL}
  BY <1>1, <1>4 DEF IInv, TypeOK
<1>6. /\ f \in Frames /\ f.index = Parent.index /\ f.caller = Parent.caller
      /\ f.want = Parent.want /\ f.pc = Parent.pc /\ f.got = Parent.got
      /\ f.result = Parent.result
      /\ f.seen = [Parent.seen EXCEPT ![e] = a]
      /\ Parent.seen \in [Exprs -> Answers \cup {NULL}]
  BY <1>2, <1>4, <1>5 DEF Frames
<1>7. a # NULL => a = Meaning[e]
  <2>1. D[e] = Top.index
    BY <1>1, <1>3, <1>4 DEF LoadExplained
  <2>2. QED
    BY <1>1, <1>4, <2>1, AnswerMeans
<1>8. \A x \in Exprs : f.seen[x] = IF x = e THEN a ELSE Parent.seen[x]
  BY <1>6
<1>9. FrameExplained(D, m, f)
  BY <1>4, <1>6, <1>7, <1>8 DEF FrameExplained
<1>10. QED
  BY <1>3, <1>6, <1>9, ReturnedStep

LEMMA ReturnOperandExplained ==
  ASSUME IInv, LoadsInOrder, NEW D, NEW r, NEW m, Explained(D, r, m), ReturnOperand
  PROVE  LoadsInOrder' /\ Explained(D, r, m)'
<1>1. PICK s : s = Append(Parent.operands, Top.index)
  OBVIOUS
<1>2. PICK f : f = [Parent EXCEPT !.operands = s]
  OBVIOUS
<1>3. /\ Reduced /\ ReturnInto(f)
      /\ UNCHANGED <<size, calls, answer, elementsInCache>>
  BY <1>1, <1>2 DEF ReturnOperand
<1>4. FrameExplained(D, m, Parent) /\ Parent \in Frames /\ Top.index \in Nat
  BY <1>3, ReturnExplained
<1>5. s \in Seq(Nat)
  BY <1>1, <1>4 DEF Frames
<1>6. /\ f \in Frames /\ f.index = Parent.index /\ f.caller = Parent.caller
      /\ f.want = Parent.want /\ f.pc = Parent.pc /\ f.got = Parent.got
      /\ f.seen = Parent.seen /\ f.result = Parent.result
  BY <1>2, <1>4, <1>5 DEF Frames
<1>7. FrameExplained(D, m, f)
  BY <1>4, <1>6 DEF FrameExplained
<1>8. QED
  BY <1>3, <1>6, <1>7, ReturnedStep

-----------------------------------------------------------------------------
(***************************************************************************)
(* Entries become resident, and are evicted.                               *)
(***************************************************************************)
LEMMA ResidentFinite ==
  ASSUME IInv
  PROVE  IsFiniteSet(Resident) /\ Cardinality(Resident) \in Nat
<1>1. size \in Nat
  BY DEF IInv, TypeOK
<1>2. IsFiniteSet(0 .. size - 1)
  BY <1>1, FS_Interval
<1>3. Resident \subseteq 0 .. size - 1
  BY DEF Resident, Handles
<1>4. IsFiniteSet(Resident)
  BY <1>2, <1>3, FS_Subset
<1>5. QED
  BY <1>4, FS_CardinalityType

LEMMA StoreExplained ==
  ASSUME IInv, LoadsInOrder, NEW D, NEW r \in [Nat -> Nat], NEW m, Explained(D, r, m),
         NEW a \in Answers, NEW f \in Frames, Store(f, a), Top.pc # "reduce",
         f.index = Top.index, f.caller = Top.caller, f.want = Top.want,
         f.got = Top.got, f.seen = Top.seen,
         NEW h \in Handles, h = Top.index, a = m[h],
         Top.pc = "evaluate" => \A e \in Wants[calls[h].subject] : D[e] # Nowhere
  PROVE  LoadsInOrder' /\ Explained(D, r, m)'
<1>1. PICK g : g = [f EXCEPT !.pc = "reduce"]
  OBVIOUS
<1>2. /\ g \in Frames /\ g.index = h /\ g.caller = Top.caller /\ g.want = Top.want
      /\ g.pc = "reduce" /\ g.got = Top.got /\ g.seen = Top.seen
  BY <1>1 DEF Frames
<1>3. /\ Replace(g) /\ UNCHANGED <<size, calls>>
      /\ answer' = [answer EXCEPT ![h] = a]
      /\ elementsInCache' = elementsInCache + 1
  BY <1>1 DEF Store
<1>4. PICK n \in Nat : n + 1 = Depth /\ FrameWellFormed(n + 1, Top)
  BY TopFacts
<1>5. /\ Depth' = Depth
      /\ \A i \in 1 .. Depth : stack'[i] = IF i = Depth THEN g ELSE stack[i]
  BY <1>2, <1>3, ReplaceFacts DEF IInv
<1>6. /\ Depth' = n + 1 /\ n + 1 <= Depth /\ Top = stack[n + 1]
      /\ stack'[n + 1] = g /\ \A i \in 1 .. n : stack'[i] = stack[i]
  BY <1>4, <1>5 DEF Top
<1>7. n + 1 # 1
  BY <1>4, EntryFacts DEF FrameWellFormed
<1>8. /\ Depth \in 2 .. Depth /\ \A i \in 2 .. Depth : i \in 1 .. Depth
      /\ \A i \in 2 .. Depth : i # Depth => i \in 1 .. n
  BY <1>4, <1>7
<1>9. answer \in [Handles -> Answers \cup {NULL}] /\ Handles' = Handles
  BY <1>3 DEF IInv, TypeOK, Handles
<1>10. \A k \in Handles : answer'[k] = IF k = h THEN a ELSE answer[k]
  BY <1>3, <1>9
<1>11. a # NULL
  BY NullNotAnswer
<1>12. answer[h] = NULL
  BY <1>8 DEF LoadsInOrder, LoadsEmpty, Top
<1>13. \A i \in 2 .. Depth : i # Depth => stack'[i] = stack[i] /\ stack[i].index # h
  <2>1. ASSUME NEW i \in 2 .. Depth, stack[i].index = h
        PROVE  i = Depth
    BY <1>8, <2>1, LoadedByOne DEF Explained, Top
  <2>2. QED
    BY <1>5, <1>8, <2>1
<1>14. EntriesExplained(D, r, m)'
  BY <1>3, EntriesExplainedKept DEF Explained
<1>15. StackExplained(D, r, m)'
  <2>1. FrameExplained(D, m, Top)
    BY TopExplained
  <2>2. FrameExplained(D, m, g)
    BY <1>2, <2>1 DEF FrameExplained
  <2>3. QED
    BY <1>2, <1>6, <2>2, StackTruncated DEF Explained
<1>16. AnswersExplained(m)'
  BY <1>9, <1>10 DEF Explained, AnswersExplained
<1>17. Settled(D)'
  <2>1. SUFFICES ASSUME NEW k \in Handles, IsProgram(calls[k]),
                        NEW i \in 2 .. Depth, FirstLoad(stack[i], k)
                 PROVE  \/ \A e \in Wants[calls[k].subject] : D[e] # Nowhere
                        \/ \E j \in 2 .. Depth : FirstLoad(stack'[j], k)
    BY <1>3, <1>5, <1>9 DEF Explained, Settled, FirstLoad
  <2>2. CASE i = Depth
    BY <2>1, <2>2 DEF FirstLoad, Top
  <2>3. CASE i # Depth
    BY <1>13, <2>1, <2>3
  <2>4. QED
    BY <2>2, <2>3
<1>18. OperandsReloaded'
  <2>1. SUFFICES ASSUME NEW i \in 1 .. Depth, NEW j \in 1 .. Depth,
                        i < j, stack'[i].pc = "operands"
                 PROVE  stack'[j].caller # "request"
    BY <1>5 DEF OperandsReloaded
  <2>2. stack[i].pc = "operands"
    BY <1>2, <1>5, <2>1
  <2>3. stack'[j].caller = stack[j].caller
    BY <1>2, <1>5 DEF Top
  <2>4. QED
    BY <2>1, <2>2, <2>3 DEF LoadsInOrder, OperandsReloaded
<1>19. LoadsEmpty'
  <2>1. SUFFICES ASSUME NEW i \in 2 .. Depth, stack'[i].pc # "reduce"
                 PROVE  answer'[stack'[i].index] = NULL
    BY <1>5 DEF LoadsEmpty
  <2>2. i # Depth
    BY <1>2, <1>5, <1>8, <2>1
  <2>3. stack'[i] = stack[i] /\ stack[i].index # h
    BY <1>13, <2>2
  <2>4. stack[i].index \in Handles
    BY LoadedEntry
  <2>5. answer[stack[i].index] = NULL
    BY <2>1, <2>3 DEF LoadsInOrder, LoadsEmpty
  <2>6. QED
    BY <1>10, <2>3, <2>4, <2>5
<1>20. CountMatchesResident'
  <2>1. Resident' = Resident \cup {h} /\ h \notin Resident
    BY <1>9, <1>10, <1>11, <1>12 DEF Resident
  <2>2. Cardinality(Resident \cup {h}) = Cardinality(Resident) + 1
    BY <2>1, ResidentFinite, FS_AddElement
  <2>3. QED
    BY <1>3, <2>1, <2>2 DEF LoadsInOrder, CountMatchesResident
<1>21. ResidentOrLoading'
  <2>1. SUFFICES ASSUME MaxCacheEntries < 0, NEW k \in Handles, answer'[k] = NULL
                 PROVE  \E i \in 2 .. Depth : stack'[i].index = k /\ stack'[i].pc # "reduce"
    BY <1>5, <1>9 DEF ResidentOrLoading
  <2>2. k # h /\ answer[k] = NULL
    BY <1>10, <1>11, <2>1
  <2>3. PICK i \in 2 .. Depth : stack[i].index = k /\ stack[i].pc # "reduce"
    BY <2>1, <2>2 DEF LoadsInOrder, ResidentOrLoading
  <2>4. i # Depth
    BY <2>2, <2>3 DEF Top
  <2>5. QED
    BY <1>13, <2>3, <2>4
<1>22. LoadedOnce'
  BY <1>2, <1>5, <1>8 DEF LoadsInOrder, LoadedOnce, Top
<1>23. QED
  BY <1>14, <1>15, <1>16, <1>17, <1>18, <1>19, <1>20, <1>21, <1>22
     DEF LoadsInOrder, Explained

LEMMA EvictExplained ==
  ASSUME IInv, LoadsInOrder, NEW D, NEW r, NEW m, Explained(D, r, m), Evict
  PROVE  LoadsInOrder' /\ Explained(D, r, m)'
<1>1. PICK h : h = scan.oldest
  OBVIOUS
<1>2. /\ Running("reduce") /\ OverLimit /\ h # Nowhere
      /\ answer' = [answer EXCEPT ![h] = NULL]
      /\ elementsInCache' = elementsInCache - 1
      /\ UNCHANGED <<size, calls, stack>>
  BY <1>1 DEF Evict, Delete
<1>3. h \in Handles /\ answer[h] # NULL
  BY <1>1, <1>2 DEF IInv, ScanWellFormed, Evictable
<1>4. /\ answer \in [Handles -> Answers \cup {NULL}]
      /\ Handles' = Handles /\ Depth' = Depth
  BY <1>2 DEF IInv, TypeOK, Handles, Depth
<1>5. \A k \in Handles : answer'[k] = IF k = h THEN NULL ELSE answer[k]
  BY <1>2, <1>4
<1>6. ~(MaxCacheEntries < 0)
  BY <1>2, ProgramsAssumption DEF OverLimit
<1>7. ResidentOrLoading' /\ LoadedOnce'
  BY <1>6 DEF ResidentOrLoading, LoadedOnce
<1>8. OperandsReloaded'
  BY <1>2, <1>4 DEF LoadsInOrder, OperandsReloaded
<1>9. LoadsEmpty'
  <2>1. SUFFICES ASSUME NEW i \in 2 .. Depth, stack[i].pc # "reduce"
                 PROVE  answer'[stack[i].index] = NULL
    BY <1>2, <1>4 DEF LoadsEmpty
  <2>2. stack[i].index \in Handles /\ answer[stack[i].index] = NULL
    BY <2>1, LoadedEntry DEF LoadsInOrder, LoadsEmpty
  <2>3. QED
    BY <1>5, <2>2
<1>10. CountMatchesResident'
  <2>1. Resident' = Resident \ {h} /\ h \in Resident
    BY <1>3, <1>4, <1>5 DEF Resident
  <2>2. Cardinality(Resident \ {h}) = Cardinality(Resident) - 1
    BY <2>1, ResidentFinite, FS_RemoveElement
  <2>3. QED
    BY <1>2, <2>1, <2>2 DEF LoadsInOrder, CountMatchesResident
<1>11. EntriesExplained(D, r, m)'
  BY <1>2, EntriesExplainedKept DEF Explained
<1>12. AnswersExplained(m)'
  BY <1>4, <1>5 DEF Explained, AnswersExplained
<1>13. StackExplained(D, r, m)' /\ Settled(D)'
  BY <1>2, <1>4 DEF Explained, StackExplained, FrameExplained, LoadExplained,
     Settled, FirstLoad
<1>14. QED
  BY <1>7, <1>8, <1>9, <1>10, <1>11, <1>12, <1>13 DEF LoadsInOrder, Explained

-----------------------------------------------------------------------------
(***************************************************************************)
(* load stores what evaluating the program, or applying the operator, gave.*)
(***************************************************************************)
LEMMA LoadHexProgramExplained ==
  ASSUME IInv, LoadsInOrder, NEW D, NEW r \in [Nat -> Nat], NEW m, Explained(D, r, m),
         LoadHexProgram
  PROVE  LoadsInOrder' /\ Explained(D, r, m)'
<1>1. PICK p, h, a : p = ProgramOf(Top) /\ h = Top.index /\ a = Evaluate(p, Top.seen)
  OBVIOUS
<1>2. /\ Top.pc = "evaluate" /\ h # Nowhere /\ Store(Top, a)
      /\ \A e \in Wants[p] : Top.got[e] # Nowhere
      /\ \A e \in Reads[p] : Top.seen[e] # NULL
  BY <1>1 DEF LoadHexProgram, Evaluated, Running
<1>3. Top \in Frames /\ FrameExplained(D, m, Top)
  BY TopExplained
<1>4. PICK n \in Nat : n + 1 = Depth /\ FrameWellFormed(n + 1, Top)
  BY TopFacts
<1>5. h \in Handles /\ IsProgram(calls[h])
  BY <1>1, <1>2, <1>4 DEF FrameWellFormed
<1>6. p \in Programs /\ p = calls[h].subject
  BY <1>1, <1>2, ProgramType DEF ProgramOf
<1>7. Wants[p] \subseteq Exprs /\ Reads[p] \subseteq Exprs
  BY <1>6, UseAssumption
<1>8. a \in Answers
  BY <1>1, <1>2, <1>3, <1>6, EvaluateType DEF Frames
<1>9. \A e \in Reads[p] : Top.seen[e] = Meaning[e]
  BY <1>2, <1>3, <1>7 DEF FrameExplained
<1>10. PICK u : u = [d \in Reads[p] |-> Meaning[d]]
  OBVIOUS
<1>11. \A e \in Reads[p] : u[e] = Top.seen[e]
  BY <1>9, <1>10
<1>12. a = Evaluate(p, u)
  BY <1>1, <1>11 DEF Evaluate
<1>13. a = m[h]
  BY <1>5, <1>6, <1>10, <1>12 DEF Explained, EntriesExplained, EntryMeans
<1>14. \A e \in Wants[calls[h].subject] : D[e] # Nowhere
  BY <1>2, <1>3, <1>6, <1>7 DEF FrameExplained
<1>15. QED
  BY <1>1, <1>2, <1>3, <1>5, <1>8, <1>13, <1>14, StoreExplained

LEMMA LoadOperatorCallExplained ==
  ASSUME IInv, LoadsInOrder, NEW D, NEW r \in [Nat -> Nat], NEW m, Explained(D, r, m),
         LoadOperatorCall
  PROVE  LoadsInOrder' /\ Explained(D, r, m)'
<1>1. PICK f, h, a : /\ f = [Top EXCEPT !.operands = <<>>, !.result = NULL]
                     /\ h = Top.index /\ a = Top.result
  OBVIOUS
<1>2. Top.pc = "release" /\ Store(f, a)
  BY <1>1 DEF LoadOperatorCall, Running
<1>3. Top \in Frames /\ FrameExplained(D, m, Top)
  BY TopExplained
<1>4. /\ f \in Frames /\ f.index = Top.index /\ f.caller = Top.caller
      /\ f.want = Top.want /\ f.got = Top.got /\ f.seen = Top.seen
  <2>1. PICK none \in Seq(Nat) : none = <<>>
    BY EmptySequence
  <2>2. PICK null \in Answers \cup {NULL} : null = NULL
    OBVIOUS
  <2>3. f = [Top EXCEPT !.operands = none, !.result = null]
    BY <1>1, <2>1, <2>2
  <2>4. QED
    BY <1>3, <2>3 DEF Frames
<1>5. PICK n \in Nat : n + 1 = Depth
  BY TopFacts
<1>6. h \in Handles
  BY <1>1, <1>2, <1>5, ArgsFacts
<1>7. a \in Answers
  BY <1>1, <1>2, TopFacts DEF OperandsWellFormed
<1>8. a = m[h]
  BY <1>1, <1>2, <1>3 DEF FrameExplained
<1>9. Top.pc # "reduce" /\ Top.pc # "evaluate"
  BY <1>2
<1>10. QED
  BY <1>1, <1>2, <1>4, <1>6, <1>7, <1>8, <1>9, StoreExplained

-----------------------------------------------------------------------------
(***************************************************************************)
(* An entry whose answer was evicted is loaded again.                      *)
(***************************************************************************)
\* A frame that has just begun to load has no handles and no answers.
LEMMA LoadFrameExplained ==
  ASSUME NEW D, NEW m, NEW g, g.got = [d \in Exprs |-> Nowhere],
         g.seen = [d \in Exprs |-> NULL], g.pc # "release"
  PROVE  FrameExplained(D, m, g)
BY DEF FrameExplained

LEMMA LoadedAgain ==
  ASSUME IInv, LoadsInOrder, NEW D, NEW r \in [Nat -> Nat], NEW m, Explained(D, r, m),
         UNCHANGED <<size, calls, answer, elementsInCache>>,
         NEW f \in Frames, f.index = Top.index, f.caller = Top.caller,
         f.want = Top.want, f.pc = Top.pc, FrameExplained(D, m, f),
         NEW g \in Frames, PushOver(f, g), FrameExplained(D, m, g), LoadExplained(D, f, g),
         g.index \in Handles, answer[g.index] = NULL,
         g.caller \in {"read", "operand"}, g.pc # "reduce",
         \A i \in 2 .. Depth : r[g.index] < r[stack[i].index]
  PROVE  LoadsInOrder' /\ Explained(D, r, m)'
<1>1. PICK n \in Nat : n + 1 = Depth
  BY TopFacts
<1>2. /\ Depth' = n + 2 /\ \A i \in 1 .. n : stack'[i] = stack[i]
      /\ stack'[n + 1] = f /\ stack'[n + 2] = g
  BY <1>1, PushedFrames DEF IInv
<1>3. LoadsInOrder' /\ AnswersExplained(m)' /\ Settled(D)'
  BY <1>1, <1>2, OrderGrown DEF Explained
<1>4. StackExplained(D, r, m)'
  BY <1>1, <1>2, StackGrown DEF Explained
<1>5. EntriesExplained(D, r, m)'
  BY EntriesExplainedKept DEF Explained
<1>6. QED
  BY <1>3, <1>4, <1>5 DEF Explained

LEMMA ReadEvictedExplained ==
  ASSUME IInv, LoadsInOrder, NEW D, NEW r \in [Nat -> Nat], NEW m, Explained(D, r, m),
         NEW e \in Exprs, ReadEvicted(e)
  PROVE  LoadsInOrder' /\ Explained(D, r, m)'
<1>1. PICK h, g : h = Top.got[e] /\ g = LoadFrame(h, calls[h], "read", e)
  OBVIOUS
<1>2. /\ Top.pc = "evaluate" /\ e \in Reads[ProgramOf(Top)] /\ h \in Handles
      /\ answer[h] = NULL /\ Push(g)
      /\ UNCHANGED <<size, calls, answer, elementsInCache>>
  BY <1>1 DEF ReadEvicted, Readable, Running, Missing
<1>3. Top \in Frames /\ FrameExplained(D, m, Top)
  BY TopExplained
<1>4. h \in Nat /\ h # Nowhere
  BY <1>2, EntryFacts
<1>5. /\ g \in Frames /\ FrameExplained(D, m, g) /\ g.index = h
      /\ g.caller = "read" /\ g.want = e /\ g.pc # "reduce"
  <2>1. g \in Frames
    BY <1>1, <1>4, FrameType
  <2>2. /\ g.index = h /\ g.caller = "read" /\ g.want = e
        /\ g.pc \in {"evaluate", "operands"}
        /\ g.got = [d \in Exprs |-> Nowhere] /\ g.seen = [d \in Exprs |-> NULL]
    BY <1>1 DEF LoadFrame, Frame
  <2>3. FrameExplained(D, m, g)
    BY <2>2, LoadFrameExplained
  <2>4. QED
    BY <2>1, <2>2, <2>3
<1>6. D[e] = h /\ \A d \in Range(Body[e].args) : Top.got[d] # Nowhere
  BY <1>1, <1>3, <1>4 DEF FrameExplained
<1>7. LoadExplained(D, Top, g)
  BY <1>5, <1>6 DEF LoadExplained
<1>8. r[h] <= Rank[e] /\ r[h] \in Nat
  BY <1>4, <1>6 DEF Explained, EntriesExplained, AtomExplained
<1>9. e \in Wants[ProgramOf(Top)]
  BY <1>2, ProgramType, UseAssumption
<1>10. \A i \in 2 .. Depth : r[g.index] < r[stack[i].index]
  BY <1>2, <1>5, <1>8, <1>9, WantedRank DEF Explained
<1>11. PushOver(Top, g)
  BY <1>2, PushOverTop DEF IInv
<1>12. QED
  BY <1>2, <1>3, <1>5, <1>7, <1>10, <1>11, LoadedAgain

LEMMA LockMissingExplained ==
  ASSUME IInv, LoadsInOrder, NEW D, NEW r \in [Nat -> Nat], NEW m, Explained(D, r, m),
         LockOperand, Missing(ArgsOf(Top)[Top.locked + 1])
  PROVE  LoadsInOrder' /\ Explained(D, r, m)'
<1>1. PICK s, k, h : s = ArgsOf(Top) /\ k = Top.locked + 1 /\ h = s[k]
  OBVIOUS
<1>2. PICK f, g : f = [Top EXCEPT !.locked = k]
                  /\ g = LoadFrame(h, calls[h], "operand", Nothing)
  OBVIOUS
<1>3. PICK n \in Nat : n + 1 = Depth
  BY TopFacts
<1>4. /\ Top.pc = "operands" /\ k \in 1 .. Len(s) /\ h \in Handles /\ s \in Seq(Nat)
      /\ UNCHANGED <<size, calls, answer, elementsInCache>>
  BY <1>1, <1>3, LockFacts
<1>5. Top \in Frames /\ FrameExplained(D, m, Top) /\ Top.locked \in Nat
  BY TopExplained DEF Frames
<1>6. h \in Nat /\ k \in Nat /\ answer[h] = NULL
  <2>1. h = ArgsOf(Top)[Top.locked + 1]
    BY <1>1
  <2>2. h \in Nat
    BY <1>4, EntryFacts
  <2>3. k \in Nat
    BY <1>1, <1>5
  <2>4. QED
    BY <2>1, <2>2, <2>3 DEF Missing
<1>7. PushOver(f, g)
  <2>1. f = [Top EXCEPT !.locked = @ + 1]
    BY <1>1, <1>2
  <2>2. QED
    BY <1>1, <1>2, <2>1 DEF LockOperand, PushOver
<1>8. /\ f \in Frames /\ f.index = Top.index /\ f.caller = Top.caller
      /\ f.want = Top.want /\ f.pc = Top.pc
      /\ f.got = Top.got /\ f.seen = Top.seen /\ f.result = Top.result
  BY <1>2, <1>5, <1>6 DEF Frames
<1>9. FrameExplained(D, m, f)
  BY <1>5, <1>8 DEF FrameExplained
<1>10. /\ g \in Frames /\ FrameExplained(D, m, g) /\ g.index = h
       /\ g.caller = "operand" /\ g.pc # "reduce"
  <2>1. g \in Frames
    BY <1>2, <1>6, FrameType
  <2>2. /\ g.index = h /\ g.caller = "operand" /\ g.want = Nothing
        /\ g.pc \in {"evaluate", "operands"}
        /\ g.got = [d \in Exprs |-> Nowhere] /\ g.seen = [d \in Exprs |-> NULL]
    BY <1>2 DEF LoadFrame, Frame
  <2>3. FrameExplained(D, m, g)
    BY <2>2, LoadFrameExplained
  <2>4. QED
    BY <2>1, <2>2, <2>3
<1>11. LoadExplained(D, f, g)
  BY <1>10 DEF LoadExplained
<1>12. \A i \in 2 .. Depth : r[g.index] < r[stack[i].index]
  BY <1>1, <1>4, <1>6, <1>10, OperandRank DEF Explained
<1>13. QED
  BY <1>4, <1>6, <1>7, <1>8, <1>9, <1>10, <1>11, <1>12, LoadedAgain

-----------------------------------------------------------------------------
(***************************************************************************)
(* An external atom obtains its handle.                                    *)
(***************************************************************************)
\* What is known of the stack, when more external atoms have handles and there
\* are more entries.
LEMMA StackExplainedKept ==
  ASSUME IInv, NEW D, NEW r, NEW m, StackExplained(D, r, m),
         NEW F, Extends(F, D), NEW q, NEW w,
         \A h \in Handles : q[h] = r[h] /\ w[h] = m[h]
  PROVE  StackExplained(F, q, w)
<1>1. Depth \in Nat
  BY StackFacts DEF IInv
<1>2. ASSUME NEW i \in 1 .. Depth
      PROVE  FrameExplained(F, w, stack[i])
  <2>1. FrameExplained(D, m, stack[i]) /\ FrameWellFormed(i, stack[i])
    BY FrameOfStack DEF StackExplained
  <2>2. \A e \in Exprs : stack[i].got[e] # Nowhere => stack[i].got[e] = F[e]
    BY <2>1 DEF FrameExplained, Extends
  <2>3. stack[i].pc = "release" => stack[i].index \in Handles
    BY <2>1 DEF FrameWellFormed
  <2>4. QED
    BY <2>1, <2>2, <2>3 DEF FrameExplained
<1>3. ASSUME NEW i \in 1 .. Depth - 1
      PROVE  LoadExplained(F, stack[i], stack[i + 1])
  <2>1. i + 1 \in 1 .. Depth /\ i + 1 # 1 /\ i + 1 \in 2 .. Depth
    BY <1>1
  <2>2. LoadExplained(D, stack[i], stack[i + 1])
    BY DEF StackExplained
  <2>3. stack[i + 1].index # Nowhere
    BY <2>1, LoadedEntry, EntryFacts
  <2>4. stack[i + 1].caller # "operand" => stack[i + 1].want \in Exprs
    BY <2>1, FrameOfStack DEF FrameWellFormed
  <2>5. QED
    BY <2>2, <2>3, <2>4 DEF LoadExplained, Extends
<1>4. \A i \in 2 .. Depth : q[stack[i].index] = r[stack[i].index]
  BY LoadedEntry
<1>5. \A i, j \in 2 .. Depth : i < j => q[stack[j].index] < q[stack[i].index]
  BY <1>4 DEF StackExplained
<1>6. QED
  BY <1>2, <1>3, <1>5 DEF StackExplained

\* What the top frame evaluates, it evaluates for handles that D gives.
LEMMA RequestFacts ==
  ASSUME IInv, NEW D, NEW r, NEW m, Explained(D, r, m), Top.pc = "evaluate",
         NEW e \in Exprs, Ready(e)
  PROVE  /\ e \in Wanted
         /\ \A d \in Range(Body[e].args) :
              /\ d \in Exprs /\ d # e /\ Top.got[d] # Nowhere /\ Top.got[d] = D[d]
              /\ AtomExplained(D, r, m, d)
         /\ CallOf(e, Top.got) = CallOf(e, D)
<1>1. e \in Wanted
  BY ProgramType DEF Ready, Wanted
<1>2. \A d \in Range(Body[e].args) :
        /\ d \in Exprs /\ d # e /\ Top.got[d] # Nowhere /\ Top.got[d] = D[d]
        /\ AtomExplained(D, r, m, d)
  BY BodyFacts, TopExplained DEF Ready, FrameExplained
<1>3. CallOf(e, Top.got) = CallOf(e, D)
  BY <1>2, CallSame
<1>4. QED
  BY <1>1, <1>2, <1>3

\* The entry found for an external atom is the one that D gives for it, or
\* can be given for it.
LEMMA FoundExplained ==
  ASSUME PrefixFree, IInv, NEW D, NEW r \in [Nat -> Nat], NEW m, Explained(D, r, m),
         Top.pc = "evaluate", NEW e \in Exprs, Ready(e),
         NEW h \in Handles, MayEqual(calls[h], CallOf(e, Top.got))
  PROVE  /\ D[e] # Nowhere => D[e] = h
         /\ Equivalent(calls[h], CallOf(e, D))
         /\ r[h] <= Rank[e] /\ m[h] = Meaning[e]
<1>1. /\ e \in Wanted /\ CallOf(e, Top.got) = CallOf(e, D)
      /\ \A d \in Range(Body[e].args) : AtomExplained(D, r, m, d)
  BY RequestFacts
<1>2. CallsDistinct /\ EntryRanked(r, h) /\ EntryMeans(m, h)
  BY DEF Explained, EntriesExplained
<1>3. Equivalent(calls[h], CallOf(e, D))
  <2>1. EntriesExplained(D, r, m) /\ h # Nowhere
    BY EntryFacts DEF Explained
  <2>2. \A d \in Range(Body[e].args) : D[d] # Nowhere
    BY <1>1, EntryFacts DEF AtomExplained
  <2>3. MayEqual(calls[h], CallOf(e, D))
    BY <1>1
  <2>4. QED
    BY <1>1, <2>1, <2>2, <2>3, FoundEquivalent
<1>4. D[e] # Nowhere => D[e] = h
  <2>1. SUFFICES ASSUME D[e] # Nowhere
                 PROVE  D[e] = h
    OBVIOUS
  <2>2. D[e] \in Handles /\ Equivalent(calls[D[e]], CallOf(e, D))
    BY <2>1 DEF Explained, EntriesExplained, AtomExplained
  <2>3. Equivalent(calls[h], calls[D[e]])
    BY <1>3, <2>2, EquivalentFacts
  <2>4. QED
    BY <1>2, <2>2, <2>3 DEF CallsDistinct
<1>5. \A d \in Range(Body[e].args) : r[D[d]] <= Rank[d] /\ D[d] \in Nat
  BY <1>1, EntryFacts DEF AtomExplained
<1>6. r[h] <= Rank[e]
  BY <1>2, <1>3, <1>5, EntryRankBound
<1>7. \A d \in Range(Body[e].args) : m[D[d]] = Meaning[d]
  BY <1>1 DEF AtomExplained
<1>8. PICK c : c = calls[h]
  OBVIOUS
<1>9. Meaning[e] = IF IsProgram(c)
                     THEN Evaluate(c.subject, [d \in Reads[c.subject] |-> Meaning[d]])
                     ELSE Apply(c.subject, [j \in DOMAIN c.args |-> m[c.args[j]]], c.kv)
  BY <1>3, <1>7, <1>8, MeaningOfCall
<1>10. m[h] = Meaning[e]
  BY <1>2, <1>8, <1>9 DEF EntryMeans
<1>11. QED
  BY <1>3, <1>4, <1>6, <1>10

LEMMA RequestFoundExplained ==
  ASSUME PrefixFree, IInv, LoadsInOrder, NEW D \in Denotations, NEW r \in [Nat -> Nat], NEW m,
         Explained(D, r, m), NEW e \in Exprs, RequestFound(e)
  PROVE  LoadsInOrder' /\ \E F \in Denotations : Explained(F, r, m)'
<1>1. PICK h \in Handles : /\ FoundAt(h, CallOf(e, Top.got))
                           /\ Replace([Top EXCEPT !.got[e] = h])
  BY DEF RequestFound
<1>2. PICK f : f = [Top EXCEPT !.got[e] = h]
  OBVIOUS
<1>3. /\ Top.pc = "evaluate" /\ Ready(e)
      /\ UNCHANGED <<size, calls, answer, elementsInCache>>
  BY DEF RequestFound, Running
<1>4. /\ D[e] # Nowhere => D[e] = h
      /\ Equivalent(calls[h], CallOf(e, D))
      /\ r[h] <= Rank[e] /\ m[h] = Meaning[e]
  BY <1>1, <1>3, FoundExplained DEF FoundAt
<1>5. h \in Nat /\ h # Nowhere
  BY EntryFacts
<1>6. PICK F \in Denotations : F = [D EXCEPT ![e] = h]
  BY <1>5 DEF Denotations
<1>7. F[e] = h /\ \A x \in Exprs : x # e => F[x] = D[x]
  BY <1>6 DEF Denotations
<1>8. Extends(F, D)
  BY <1>4, <1>7 DEF Extends
<1>9. \A d \in Range(Body[e].args) :
        /\ d \in Exprs /\ d # e /\ Top.got[d] # Nowhere /\ D[d] # Nowhere
        /\ F[d] = D[d]
  BY <1>3, <1>7, RequestFacts
<1>10. AtomExplained(F, r, m, e)
  <2>1. CallOf(e, F) = CallOf(e, D)
    BY <1>9, CallSame
  <2>2. QED
    BY <1>4, <1>7, <1>9, <2>1 DEF AtomExplained
<1>11. EntriesExplained(F, r, m)
  <2>1. ASSUME NEW x \in Exprs, F[x] # Nowhere
        PROVE  AtomExplained(F, r, m, x)
    <3>1. CASE x = e
      BY <1>10, <3>1
    <3>2. CASE x # e
      <4>1. D[x] # Nowhere
        BY <1>7, <2>1, <3>2
      <4>2. AtomExplained(D, r, m, x)
        BY <4>1 DEF Explained, EntriesExplained
      <4>3. QED
        BY <1>8, <4>1, <4>2, AtomKept
    <3>3. QED
      BY <3>1, <3>2
  <2>2. ASSUME NEW x \in Handles
        PROVE  \E d \in Wanted : F[d] = x
    <3>1. PICK d \in Wanted : D[d] = x
      BY DEF Explained, EntriesExplained
    <3>2. d \in Exprs /\ D[d] # Nowhere
      BY <3>1, EntryFacts, UseAssumption DEF Wanted
    <3>3. QED
      BY <1>8, <3>1, <3>2 DEF Extends
  <2>3. QED
    BY <2>1, <2>2 DEF Explained, EntriesExplained
<1>12. StackExplained(F, r, m)
  BY <1>8, StackExplainedKept DEF Explained
<1>13. Settled(F)
  <2>1. \A x \in Exprs : D[x] # Nowhere => F[x] # Nowhere
    BY <1>8 DEF Extends
  <2>2. \A p \in Programs : Wants[p] \subseteq Exprs
    BY UseAssumption
  <2>3. \A k \in Handles : IsProgram(calls[k]) => Wants[calls[k].subject] \subseteq Exprs
    BY <2>2, EntryFacts
  <2>4. QED
    BY <2>1, <2>3 DEF Explained, Settled
<1>14. Explained(F, r, m)
  BY <1>11, <1>12, <1>13 DEF Explained
<1>15. Top \in Frames /\ FrameExplained(F, m, Top)
  BY <1>14, TopExplained
<1>16. /\ f \in Frames /\ f.index = Top.index /\ f.caller = Top.caller
       /\ f.want = Top.want /\ f.pc = Top.pc /\ f.seen = Top.seen
       /\ f.got = [Top.got EXCEPT ![e] = h]
       /\ Top.got \in [Exprs -> Nat \cup {Nowhere}]
  BY <1>2, <1>5, <1>15 DEF Frames
<1>17. \A x \in Exprs : f.got[x] = IF x = e THEN h ELSE Top.got[x]
  BY <1>16
<1>18. \A x \in Exprs : Top.got[x] # Nowhere => f.got[x] # Nowhere
  BY <1>5, <1>17
<1>19. \A x \in Exprs : f.got[x] # Nowhere =>
         f.got[x] = F[x] /\ \A d \in Range(Body[x].args) : Top.got[d] # Nowhere
  BY <1>7, <1>9, <1>15, <1>17 DEF FrameExplained
<1>20. \A x \in Exprs : \A d \in Range(Body[x].args) : d \in Exprs
  BY BodyFacts
<1>21. FrameExplained(F, m, f)
  BY <1>3, <1>15, <1>16, <1>18, <1>19, <1>20 DEF FrameExplained
<1>22. Replace(f) /\ f.pc # "reduce"
  BY <1>1, <1>2, <1>3, <1>16
<1>23. LoadsInOrder' /\ Explained(F, r, m)'
  BY <1>3, <1>14, <1>16, <1>21, <1>22, ReplacedStep
<1>24. QED
  BY <1>23

-----------------------------------------------------------------------------
(***************************************************************************)
(* An entry is appended.                                                   *)
(***************************************************************************)
\* The rank of a call, were it an entry.
CallRanked(r, c, k) ==
  IF IsProgram(c)
    THEN /\ \A e \in Exprs : Body[e].subject = c.subject => k <= Rank[e]
         /\ \A d \in Wants[c.subject] : Rank[d] < k
    ELSE /\ \A j \in DOMAIN c.args : r[c.args[j]] < k
         /\ \A n \in Nat : (\A j \in DOMAIN c.args : r[c.args[j]] < n) => k <= n

LEMMA NewRank ==
  ASSUME IInv, NEW D, NEW r \in [Nat -> Nat], NEW m, NEW e \in Exprs,
         NEW c, c = CallOf(e, D),
         \A d \in Range(Body[e].args) : AtomExplained(D, r, m, d)
  PROVE  \E k \in Nat : k <= Rank[e] /\ CallRanked(r, c, k)
<1>1. /\ c.subject = Body[e].subject /\ DOMAIN c.args = DOMAIN Body[e].args
      /\ c.args = [i \in DOMAIN Body[e].args |-> D[Body[e].args[i]]]
      /\ IsProgram(c) <=> IsProgram(Body[e])
  BY CallParts
<1>2. Rank[e] \in Nat
  BY BodyFacts
<1>3. CASE IsProgram(c)
  <2>1. PICK S : S = {Rank[x] : x \in {y \in Exprs : Body[y].subject = c.subject}}
    OBVIOUS
  <2>2. S \in SUBSET Nat /\ Rank[e] \in S
    BY <1>1, <2>1, NestingAssumption
  <2>3. PICK k \in S : \A n \in S : k <= n
    BY <2>2, LeastOf
  <2>4. PICK x \in Exprs : k = Rank[x] /\ Body[x].subject = c.subject
    BY <2>1
  <2>5. c.subject \in Programs
    BY <1>1, <1>3, BodyFacts
  <2>6. IsProgram(Body[x])
    BY <2>4, <2>5, BodyFacts, ProgramsAssumption
  <2>7. \A d \in Wants[c.subject] : Rank[d] < k
    BY <2>4, <2>6, NestingAssumption
  <2>8. \A y \in Exprs : Body[y].subject = c.subject => k <= Rank[y]
    BY <2>1, <2>3
  <2>9. k \in Nat /\ k <= Rank[e]
    BY <2>2, <2>3
  <2>10. QED
    BY <1>3, <2>7, <2>8, <2>9 DEF CallRanked
<1>4. CASE ~IsProgram(c)
  <2>1. PICK S : S = {n \in Nat : \A j \in DOMAIN c.args : r[c.args[j]] < n}
    OBVIOUS
  <2>2. ASSUME NEW j \in DOMAIN c.args
        PROVE  r[c.args[j]] < Rank[e]
    <3>1. PICK d \in Exprs : d = Body[e].args[j] /\ d \in Range(Body[e].args)
      BY <1>1, <2>2, BodyFacts
    <3>2. c.args[j] = D[d]
      BY <1>1, <2>2, <3>1
    <3>3. r[D[d]] <= Rank[d] /\ D[d] \in Nat
      BY <3>1, EntryFacts DEF AtomExplained
    <3>4. Rank[d] < Rank[e]
      BY <3>1, BodyFacts
    <3>5. r[D[d]] \in Nat /\ Rank[d] \in Nat
      BY <3>3, NestingAssumption
    <3>6. QED
      BY <1>2, <3>2, <3>3, <3>4, <3>5
  <2>3. S \in SUBSET Nat /\ Rank[e] \in S
    BY <1>2, <2>1, <2>2
  <2>4. PICK k \in S : \A n \in S : k <= n
    BY <2>3, LeastOf
  <2>5. \A j \in DOMAIN c.args : r[c.args[j]] < k
    BY <2>1
  <2>6. \A n \in Nat : (\A j \in DOMAIN c.args : r[c.args[j]] < n) => k <= n
    BY <2>1, <2>4
  <2>7. k \in Nat /\ k <= Rank[e]
    BY <2>3, <2>4
  <2>8. QED
    BY <1>4, <2>5, <2>6, <2>7 DEF CallRanked
<1>5. QED
  BY <1>3, <1>4

\* While an operator call collects its operands, every program on the stack
\* above it is evaluated again: what it asks for has a handle already.
LEMMA NothingCollecting ==
  ASSUME IInv, LoadsInOrder, NEW D, NEW r \in [Nat -> Nat], NEW m, Explained(D, r, m),
         Top.pc = "evaluate", NEW e \in Wants[ProgramOf(Top)], D[e] = Nowhere
  PROVE  \A i \in 1 .. Depth : stack[i].pc # "operands"
<1>1. SUFFICES ASSUME NEW i \in 1 .. Depth, stack[i].pc = "operands"
               PROVE  FALSE
  OBVIOUS
<1>2. Depth \in Nat
  BY StackFacts DEF IInv
<1>3. Depth \in 1 .. Depth /\ i < Depth /\ Depth \in 2 .. Depth /\ Depth # 1
  <2>1. i # Depth
    BY <1>1 DEF Top
  <2>2. QED
    BY <1>2, <2>1
<1>4. Top.caller # "request"
  BY <1>1, <1>3 DEF LoadsInOrder, OperandsReloaded, Top
<1>5. FrameWellFormed(Depth, Top)
  BY <1>3, FrameOfStack DEF Top
<1>6. Top.index \in Handles /\ IsProgram(calls[Top.index]) /\ Top.index # Nowhere
  BY <1>3, <1>5, EntryFacts DEF FrameWellFormed
<1>7. e \in Wants[calls[Top.index].subject]
  BY <1>6 DEF ProgramOf
<1>8. PICK k \in 2 .. Depth : FirstLoad(stack[k], Top.index)
  BY <1>6, <1>7 DEF Explained, Settled
<1>9. k = Depth
  BY <1>3, <1>8, LoadedByOne DEF FirstLoad, Explained, Top
<1>10. QED
  BY <1>4, <1>8, <1>9 DEF FirstLoad, Top

\* The entries, after one was appended at h for the call c of the external
\* atom e; F, q and w say of h what D, r and m do of the others.
LEMMA NewEntryExplained ==
  ASSUME IInv, NEW D, NEW r, NEW m, Explained(D, r, m),
         NEW e \in Exprs, e \in Wanted, D[e] = Nowhere,
         NEW c, c = CallOf(e, D), NotFound(c),
         \A j \in DOMAIN c.args : c.args[j] \in Handles,
         \A d \in Range(Body[e].args) : d \in Exprs /\ d # e /\ AtomExplained(D, r, m, d),
         size' = size + 1, calls'[size] = c,
         \A x \in Handles : calls'[x] = calls[x],
         NEW F, F[e] = size, \A x \in Exprs : x # e => F[x] = D[x],
         NEW q, q[size] <= Rank[e], CallRanked(r, c, q[size]),
         \A x \in Handles : q[x] = r[x],
         NEW w, w[size] = Meaning[e], \A x \in Handles : w[x] = m[x]
  PROVE  EntriesExplained(F, q, w)'
<1> PICK h, k : h = size /\ k = q[h]
  OBVIOUS
<1>1. /\ h \in Nat /\ h \notin Handles /\ h # Nowhere
      /\ Handles' = Handles \cup {h}
  BY DEF IInv, TypeOK, Handles, Nowhere
<1>2. EntriesExplained(D, r, m)
  BY DEF Explained
<1>3. /\ c.subject = Body[e].subject /\ c.kv = Body[e].kv /\ c.type = Body[e].type
      /\ DOMAIN c.args = 1 .. Len(Body[e].args)
      /\ c.args = [i \in DOMAIN Body[e].args |-> D[Body[e].args[i]]]
      /\ IsProgram(c) <=> IsProgram(Body[e])
  BY CallParts
<1>4. ASSUME NEW x \in Handles'
      PROVE  \E d \in Wanted : F[d] = x
  <2>1. CASE x = h
    BY <2>1
  <2>2. CASE x \in Handles
    <3>1. PICK d \in Wanted : D[d] = x
      BY <1>2, <2>2 DEF EntriesExplained
    <3>2. d \in Exprs /\ d # e
      BY <2>2, <3>1, EntryFacts, UseAssumption DEF Wanted
    <3>3. QED
      BY <3>1, <3>2
  <2>3. QED
    BY <1>1, <2>1, <2>2
<1>5. CallsDistinct'
  <2>1. \A x \in Handles : ~Equivalent(calls[x], c) /\ ~Equivalent(c, calls[x])
    <3>1. \A x \in Handles : ~MustEqual(calls[x], c)
      BY DEF NotFound
    <3>2. QED
      BY <3>1 DEF Equivalent, MustEqual, MayEqual
  <2>2. SUFFICES ASSUME NEW x \in Handles', NEW y \in Handles',
                        Equivalent(calls'[x], calls'[y])
                 PROVE  x = y
    BY DEF CallsDistinct
  <2>3. CASE x \in Handles /\ y \in Handles
    BY <1>2, <2>2, <2>3 DEF EntriesExplained, CallsDistinct
  <2>4. CASE x = h /\ y \in Handles
    BY <2>1, <2>2, <2>4
  <2>5. CASE x \in Handles /\ y = h
    BY <2>1, <2>2, <2>5
  <2>6. QED
    BY <1>1, <2>3, <2>4, <2>5
<1>6. ASSUME NEW x \in Handles'
      PROVE  EntryRanked(q, x)' /\ EntryMeans(w, x)'
  <2>1. CASE x = h
    <3>1. \A j \in DOMAIN c.args : q[c.args[j]] = r[c.args[j]] /\ w[c.args[j]] = m[c.args[j]]
      OBVIOUS
    <3>2. EntryRanked(q, x)'
      BY <2>1, <3>1 DEF CallRanked, EntryRanked
    <3>3. \A d \in Range(Body[e].args) : m[D[d]] = Meaning[d]
      BY DEF AtomExplained
    <3>4. Equivalent(c, CallOf(e, D))
      BY DEF Equivalent
    <3>5. Meaning[e] =
            IF IsProgram(c)
              THEN Evaluate(c.subject, [d \in Reads[c.subject] |-> Meaning[d]])
              ELSE Apply(c.subject, [j \in DOMAIN c.args |-> m[c.args[j]]], c.kv)
      BY <3>3, <3>4, MeaningOfCall
    <3>6. [j \in DOMAIN c.args |-> w[c.args[j]]] = [j \in DOMAIN c.args |-> m[c.args[j]]]
      BY <3>1
    <3>7. EntryMeans(w, x)'
      BY <2>1, <3>5, <3>6 DEF EntryMeans
    <3>8. QED
      BY <3>2, <3>7
  <2>2. CASE x \in Handles
    <3>1. PICK b : b = calls[x] /\ b = calls'[x]
      BY <2>2
    <3>2. EntryRanked(r, x) /\ EntryMeans(m, x)
      BY <1>2, <2>2 DEF EntriesExplained
    <3>3. \A j \in DOMAIN b.args : q[b.args[j]] = r[b.args[j]] /\ w[b.args[j]] = m[b.args[j]]
      BY <2>2, <3>1, EntryFacts
    <3>4. [j \in DOMAIN b.args |-> w[b.args[j]]] = [j \in DOMAIN b.args |-> m[b.args[j]]]
      BY <3>3
    <3>5. q[x] = r[x] /\ w[x] = m[x]
      BY <2>2
    <3>6. EntryRanked(q, x)'
      BY <3>1, <3>2, <3>3, <3>5 DEF EntryRanked
    <3>7. EntryMeans(w, x)'
      BY <3>1, <3>2, <3>4, <3>5 DEF EntryMeans
    <3>8. QED
      BY <3>6, <3>7
  <2>3. QED
    BY <1>1, <2>1, <2>2
<1>7. Extends(F, D)
  BY DEF Extends
<1>8. ASSUME NEW x \in Exprs, F[x] # Nowhere
      PROVE  AtomExplained(F, q, w, x)'
  <2>1. CASE x = e
    <3>1. \A d \in Range(Body[e].args) : F[d] = D[d] /\ F[d] # Nowhere
      BY EntryFacts DEF AtomExplained
    <3>2. CallOf(e, F) = c
      BY <3>1, CallSame
    <3>3. Equivalent(calls'[h], CallOf(e, F))
      BY <3>2 DEF Equivalent
    <3>4. QED
      BY <1>1, <2>1, <3>1, <3>3 DEF AtomExplained
  <2>2. CASE x # e
    <3>1. D[x] # Nowhere /\ F[x] = D[x]
      BY <1>8, <2>2
    <3>2. AtomExplained(D, r, m, x)
      BY <1>2, <3>1 DEF EntriesExplained
    <3>3. AtomExplained(F, r, m, x)
      BY <1>7, <3>1, <3>2, AtomKept
    <3>4. F[x] \in Handles
      BY <3>3 DEF AtomExplained
    <3>5. calls'[F[x]] = calls[F[x]] /\ q[F[x]] = r[F[x]] /\ w[F[x]] = m[F[x]]
      BY <3>4
    <3>6. F[x] \in Handles'
      BY <1>1, <3>4
    <3>7. QED
      BY <3>3, <3>5, <3>6 DEF AtomExplained
  <2>3. QED
    BY <2>1, <2>2
<1>9. QED
  BY <1>4, <1>5, <1>6, <1>8 DEF EntriesExplained

\* The loads, after a frame was pushed for the new entry h.
LEMMA NewLoadInOrder ==
  ASSUME IInv, LoadsInOrder, NEW m, AnswersExplained(m),
         NEW D, Settled(D), NEW F, \A x \in Exprs : D[x] # Nowhere => F[x] # Nowhere,
         NEW w, \A x \in Handles : w[x] = m[x],
         \A i \in 1 .. Depth : stack[i].pc # "operands",
         size' = size + 1, elementsInCache' = elementsInCache,
         \A x \in Handles : calls'[x] = calls[x],
         answer'[size] = NULL, \A x \in Handles : answer'[x] = answer[x],
         NEW n \in Nat, n + 1 = Depth, Depth' = n + 2,
         \A i \in 1 .. n + 1 : stack'[i] = stack[i],
         NEW g, stack'[n + 2] = g, g.index = size, g.caller = "request",
         g.pc = IF IsProgram(calls'[size]) THEN "evaluate" ELSE "operands"
  PROVE  LoadsInOrder' /\ AnswersExplained(w)' /\ Settled(F)'
<1> PICK h : h = size
  OBVIOUS
<1>1. /\ h \in Nat /\ h \notin Handles /\ Handles' = Handles \cup {h}
  BY DEF IInv, TypeOK, Handles
<1>2. /\ \A i \in 1 .. n + 2 : i \in 1 .. n + 1 \/ i = n + 2
      /\ \A i \in 2 .. n + 2 : i \in 2 .. Depth \/ i = n + 2
      /\ \A i \in 2 .. Depth : i \in 1 .. n + 1 /\ i \in 2 .. n + 2
      /\ n + 2 \in 2 .. n + 2 /\ 1 .. n + 1 = 1 .. Depth
  OBVIOUS
<1>3. g.pc # "reduce"
  OBVIOUS
<1>4. \A i \in 2 .. Depth : stack'[i] = stack[i] /\ stack[i].index \in Handles
  BY <1>2, LoadedEntry
<1>5. OperandsReloaded'
  <2>1. SUFFICES ASSUME NEW i \in 1 .. n + 2, NEW j \in 1 .. n + 2,
                        i < j, stack'[i].pc = "operands"
                 PROVE  FALSE
    BY DEF OperandsReloaded
  <2>2. i \in 1 .. n + 1
    BY <2>1
  <2>3. QED
    BY <1>2, <2>1, <2>2
<1>6. LoadsEmpty'
  <2>1. SUFFICES ASSUME NEW i \in 2 .. n + 2, stack'[i].pc # "reduce"
                 PROVE  answer'[stack'[i].index] = NULL
    BY DEF LoadsEmpty
  <2>2. CASE i \in 2 .. Depth
    BY <1>4, <2>1, <2>2 DEF LoadsInOrder, LoadsEmpty
  <2>3. QED
    BY <1>2, <2>2
<1>7. CountMatchesResident'
  <2>1. Resident' = Resident
    BY <1>1 DEF Resident
  <2>2. QED
    BY <2>1 DEF LoadsInOrder, CountMatchesResident
<1>8. ResidentOrLoading'
  <2>1. SUFFICES ASSUME MaxCacheEntries < 0, NEW x \in Handles', answer'[x] = NULL
                 PROVE  \E i \in 2 .. n + 2 : stack'[i].index = x /\ stack'[i].pc # "reduce"
    BY DEF ResidentOrLoading
  <2>2. CASE x = h
    BY <1>2, <1>3, <2>2
  <2>3. CASE x \in Handles
    <3>1. PICK i \in 2 .. Depth : stack[i].index = x /\ stack[i].pc # "reduce"
      BY <2>1, <2>3 DEF LoadsInOrder, ResidentOrLoading
    <3>2. QED
      BY <1>2, <1>4, <3>1
  <2>4. QED
    BY <1>1, <2>2, <2>3
<1>9. LoadedOnce'
  BY <1>2, <1>4 DEF LoadsInOrder, LoadedOnce
<1>10. AnswersExplained(w)'
  BY <1>1 DEF AnswersExplained
<1>11. Settled(F)'
  <2>1. SUFFICES ASSUME NEW x \in Handles', IsProgram(calls'[x])
                 PROVE  \/ \A e \in Wants[calls'[x].subject] : F[e] # Nowhere
                        \/ \E i \in 2 .. n + 2 : FirstLoad(stack'[i], x)
    BY DEF Settled, FirstLoad, IsProgram
  <2>2. CASE x = h
    <3>1. FirstLoad(stack'[n + 2], x)
      BY <2>1, <2>2 DEF FirstLoad
    <3>2. QED
      BY <1>2, <3>1
  <2>3. CASE x \in Handles
    <3>1. calls'[x] = calls[x] /\ Wants[calls[x].subject] \subseteq Exprs
      BY <2>1, <2>3, EntryFacts, UseAssumption
    <3>2. CASE \A e \in Wants[calls[x].subject] : D[e] # Nowhere
      BY <3>1, <3>2
    <3>3. CASE \E i \in 2 .. Depth : FirstLoad(stack[i], x)
      BY <1>2, <1>4, <3>3
    <3>4. QED
      BY <2>1, <2>3, <3>1, <3>2, <3>3 DEF Settled
  <2>4. QED
    BY <1>1, <2>2, <2>3
<1>12. QED
  BY <1>5, <1>6, <1>7, <1>8, <1>9, <1>10, <1>11 DEF LoadsInOrder

LEMMA RequestNewExplained ==
  ASSUME IInv, LoadsInOrder,
         NEW D \in Denotations, NEW r \in [Nat -> Nat], NEW m \in [Nat -> Meanings],
         Explained(D, r, m), NEW e \in Exprs, RequestNew(e)
  PROVE  /\ LoadsInOrder'
         /\ \E F \in Denotations, q \in [Nat -> Nat], w \in [Nat -> Meanings] :
              Explained(F, q, w)'
         /\ \A i \in 1 .. Depth : stack[i].pc # "operands"
<1>1. PICK c, h, g : /\ c = CallOf(e, Top.got) /\ h = size
                     /\ g = LoadFrame(h, c, "request", e)
  OBVIOUS
<1>2. /\ Top.pc = "evaluate" /\ Ready(e) /\ NotFound(c)
      /\ size' = h + 1 /\ elementsInCache' = elementsInCache
      /\ calls' = [x \in 0 .. h |-> IF x = h THEN c ELSE calls[x]]
      /\ answer' = [x \in 0 .. h |-> IF x = h THEN NULL ELSE answer[x]]
      /\ Push(g)
  BY <1>1 DEF RequestNew, Running
<1>3. h \in Nat /\ h # Nowhere /\ h \notin Handles
      /\ h \in 0 .. h /\ \A x \in Handles : x \in 0 .. h /\ x # h /\ x \in Nat
  <2>1. h \in Nat /\ Handles = 0 .. h - 1
    BY <1>1 DEF IInv, TypeOK, Handles
  <2>2. h # Nowhere
    BY <2>1 DEF Nowhere
  <2>3. QED
    BY <2>1, <2>2
<1>4. /\ calls'[h] = c /\ \A x \in Handles : calls'[x] = calls[x]
      /\ answer'[h] = NULL /\ \A x \in Handles : answer'[x] = answer[x]
  <2>1. calls'[h] = c /\ \A x \in Handles : calls'[x] = calls[x]
    BY <1>2, <1>3
  <2>2. answer'[h] = NULL /\ \A x \in Handles : answer'[x] = answer[x]
    BY <1>2, <1>3
  <2>3. QED
    BY <2>1, <2>2
<1>5. /\ e \in Wanted
      /\ \A d \in Range(Body[e].args) :
           /\ d \in Exprs /\ d # e /\ Top.got[d] # Nowhere /\ Top.got[d] = D[d]
           /\ AtomExplained(D, r, m, d)
      /\ c = CallOf(e, D)
  BY <1>1, <1>2, RequestFacts
<1>6. D[e] = Nowhere
  <2>1. SUFFICES ASSUME D[e] # Nowhere
                 PROVE  FALSE
    OBVIOUS
  <2>2. D[e] \in Handles /\ Equivalent(calls[D[e]], c)
    BY <1>5, <2>1 DEF Explained, EntriesExplained, AtomExplained
  <2>3. MustEqual(calls[D[e]], c)
    BY <2>2, EquivalentFacts
  <2>4. QED
    BY <1>2, <2>2, <2>3 DEF NotFound
<1>7. \A j \in DOMAIN c.args : c.args[j] \in Handles
  <2>1. SUFFICES ASSUME NEW j \in DOMAIN c.args
                 PROVE  c.args[j] \in Handles
    OBVIOUS
  <2>2. /\ c.args = [i \in DOMAIN Body[e].args |-> D[Body[e].args[i]]]
        /\ DOMAIN c.args = DOMAIN Body[e].args
    BY <1>5, CallParts
  <2>3. Body[e].args[j] \in Range(Body[e].args)
    BY <2>1, <2>2, BodyFacts
  <2>4. c.args[j] = D[Body[e].args[j]]
    BY <2>1, <2>2
  <2>5. QED
    BY <1>5, <2>3, <2>4 DEF AtomExplained
<1>8. PICK k \in Nat : k <= Rank[e] /\ CallRanked(r, c, k)
  BY <1>5, NewRank
<1>9. PICK F \in Denotations : F[e] = h /\ \A x \in Exprs : x # e => F[x] = D[x]
  <2>1. [D EXCEPT ![e] = h] \in Denotations
    BY <1>3 DEF Denotations
  <2>2. /\ [D EXCEPT ![e] = h][e] = h
        /\ \A x \in Exprs : x # e => [D EXCEPT ![e] = h][x] = D[x]
    BY DEF Denotations
  <2>3. QED
    BY <2>1, <2>2
<1>10. PICK q \in [Nat -> Nat] : q[h] = k /\ \A x \in Handles : q[x] = r[x]
  <2>1. [r EXCEPT ![h] = k] \in [Nat -> Nat]
    BY <1>3
  <2>2. [r EXCEPT ![h] = k][h] = k /\ \A x \in Handles : [r EXCEPT ![h] = k][x] = r[x]
    BY <1>3
  <2>3. QED
    BY <2>1, <2>2
<1>11. PICK w \in [Nat -> Meanings] : w[h] = Meaning[e] /\ \A x \in Handles : w[x] = m[x]
  <2>1. PICK a \in Meanings : a = Meaning[e]
    BY DEF Meanings
  <2>2. [m EXCEPT ![h] = a] \in [Nat -> Meanings]
    BY <1>3
  <2>3. [m EXCEPT ![h] = a][h] = a /\ \A x \in Handles : [m EXCEPT ![h] = a][x] = m[x]
    BY <1>3
  <2>4. QED
    BY <2>1, <2>2, <2>3
<1>12. Extends(F, D) /\ \A x \in Exprs : D[x] # Nowhere => F[x] # Nowhere
  BY <1>3, <1>6, <1>9 DEF Extends
<1>13. EntriesExplained(F, q, w)'
  <2>1. size' = size + 1 /\ calls'[size] = c
    BY <1>1, <1>2, <1>4
  <2>2. F[e] = size /\ w[size] = Meaning[e]
    BY <1>1, <1>9, <1>11
  <2>3. q[size] <= Rank[e] /\ CallRanked(r, c, q[size])
    BY <1>1, <1>8, <1>10
  <2>4. \A d \in Range(Body[e].args) : d \in Exprs /\ d # e /\ AtomExplained(D, r, m, d)
    BY <1>5
  <2>5. /\ e \in Wanted /\ c = CallOf(e, D) /\ NotFound(c)
        /\ \A x \in Handles : calls'[x] = calls[x]
        /\ \A x \in Handles : q[x] = r[x]
        /\ \A x \in Handles : w[x] = m[x]
        /\ \A x \in Exprs : x # e => F[x] = D[x]
    BY <1>2, <1>4, <1>5, <1>9, <1>10, <1>11
  <2>6. QED
    BY <1>6, <1>7, <2>1, <2>2, <2>3, <2>4, <2>5, NewEntryExplained
<1>14. StackExplained(F, q, w) /\ StackExplained(D, r, m)
  BY <1>10, <1>11, <1>12, StackExplainedKept DEF Explained
<1>15. /\ g \in Frames /\ g.index = h /\ g.caller = "request" /\ g.want = e
       /\ g.pc = IF IsProgram(c) THEN "evaluate" ELSE "operands"
       /\ FrameExplained(F, w, g)
  <2>1. g \in Frames
    BY <1>1, <1>3, FrameType
  <2>2. /\ g.index = h /\ g.caller = "request" /\ g.want = e
        /\ g.pc = IF IsProgram(c) THEN "evaluate" ELSE "operands"
        /\ g.got = [d \in Exprs |-> Nowhere] /\ g.seen = [d \in Exprs |-> NULL]
    BY <1>1 DEF LoadFrame, Frame
  <2>3. g.pc # "release"
    BY <2>2
  <2>4. FrameExplained(F, w, g)
    BY <2>2, <2>3, LoadFrameExplained
  <2>5. QED
    BY <2>1, <2>2, <2>4
<1>16. PICK n \in Nat : n + 1 = Depth
  BY TopFacts
<1>17. Top \in Frames /\ PushOver(Top, g)
  BY <1>2, TopFacts, PushOverTop DEF IInv
<1>18. /\ Depth' = n + 2 /\ \A i \in 1 .. n : stack'[i] = stack[i]
       /\ stack'[n + 1] = Top /\ stack'[n + 2] = g
  BY <1>15, <1>16, <1>17, PushedFrames DEF IInv
<1>19. \A i \in 1 .. n + 1 : stack'[i] = stack[i]
  <2>1. \A i \in 1 .. n + 1 : i \in 1 .. n \/ i = n + 1
    BY <1>16
  <2>2. QED
    BY <1>16, <1>18, <2>1 DEF Top
<1>20. StackExplained(F, q, w)'
  <2>1. FrameExplained(F, w, Top)
    <3>1. Depth \in 1 .. Depth
      BY <1>16
    <3>2. QED
      BY <1>14, <3>1 DEF StackExplained, Top
  <2>2. LoadExplained(F, Top, g)
    BY <1>5, <1>9, <1>15 DEF LoadExplained
  <2>3. \A i \in 2 .. Depth : k < r[stack[i].index]
    BY <1>2, <1>8, WantedRank DEF Ready, Explained
  <2>4. \A i \in 2 .. Depth : q[g.index] < q[stack[i].index]
    BY <1>10, <1>15, <2>3, LoadedEntry
  <2>5. QED
    BY <1>14, <1>15, <1>16, <1>18, <2>1, <2>2, <2>4, StackGrown
<1>21. \A i \in 1 .. Depth : stack[i].pc # "operands"
  BY <1>2, <1>6, NothingCollecting DEF Ready
<1>22. LoadsInOrder' /\ AnswersExplained(w)' /\ Settled(F)'
  <2>1. /\ size' = size + 1 /\ elementsInCache' = elementsInCache
        /\ answer'[size] = NULL
        /\ \A x \in Handles : calls'[x] = calls[x]
        /\ \A x \in Handles : answer'[x] = answer[x]
    BY <1>1, <1>2, <1>4
  <2>2. /\ g.index = size /\ g.caller = "request"
        /\ g.pc = IF IsProgram(calls'[size]) THEN "evaluate" ELSE "operands"
    BY <1>1, <1>4, <1>15
  <2>3. AnswersExplained(m) /\ Settled(D)
    BY DEF Explained
  <2>4. QED
    BY <1>11, <1>12, <1>16, <1>18, <1>19, <1>21, <2>1, <2>2, <2>3, NewLoadInOrder
<1>23. Explained(F, q, w)'
  BY <1>13, <1>20, <1>22 DEF Explained
<1>24. QED
  BY <1>21, <1>22, <1>23

-----------------------------------------------------------------------------
(***************************************************************************)
(* The theorems.                                                           *)
(***************************************************************************)
LEMMA HandleInit ==
  ASSUME Init
  PROVE  HandleInv
<1>1. PICK f : f = Frame(Nowhere, "evaluate", "main", Nothing)
  OBVIOUS
<1>2. /\ f.index = Nowhere /\ f.pc = "evaluate" /\ f.caller = "main"
      /\ f.got = [d \in Exprs |-> Nowhere] /\ f.seen = [d \in Exprs |-> NULL]
  BY <1>1 DEF Frame
<1>3. /\ stack = <<f>> /\ Depth = 1 /\ stack[1] = f
      /\ 1 .. Depth = {1} /\ 2 .. Depth = {} /\ 1 .. Depth - 1 = {}
  BY <1>1 DEF Init, Depth
<1>4. Handles = {} /\ Resident = {} /\ elementsInCache = 0
  BY DEF Init, Handles, Resident
<1>5. LoadsInOrder
  <2>1. OperandsReloaded
    BY <1>3 DEF OperandsReloaded
  <2>2. LoadsEmpty /\ ResidentOrLoading /\ LoadedOnce
    BY <1>3, <1>4 DEF LoadsEmpty, ResidentOrLoading, LoadedOnce
  <2>3. CountMatchesResident
    BY <1>4, FS_EmptySet DEF CountMatchesResident
  <2>4. QED
    BY <2>1, <2>2, <2>3 DEF LoadsInOrder
<1>6. PICK D \in Denotations : \A e \in Exprs : D[e] = Nowhere
  <2>1. [e \in Exprs |-> Nowhere] \in Denotations
    BY DEF Denotations
  <2>2. QED
    BY <2>1
<1>7. PICK r \in [Nat -> Nat] : TRUE
  <2>1. [x \in Nat |-> x] \in [Nat -> Nat]
    OBVIOUS
  <2>2. QED
    BY <2>1
<1>8. PICK m \in [Nat -> Meanings] : TRUE
  <2>1. [x \in Nat |-> NULL] \in [Nat -> Meanings]
    BY DEF Meanings
  <2>2. QED
    BY <2>1
<1>9. EntriesExplained(D, r, m)
  BY <1>4, <1>6 DEF EntriesExplained, CallsDistinct
<1>10. FrameExplained(D, m, f)
  BY <1>2, LoadFrameExplained
<1>11. StackExplained(D, r, m)
  BY <1>3, <1>10 DEF StackExplained
<1>12. AnswersExplained(m) /\ Settled(D)
  BY <1>4 DEF AnswersExplained, Settled
<1>13. QED
  BY <1>5, <1>6, <1>7, <1>8, <1>9, <1>11, <1>12, InitInvariant DEF HandleInv, Explained

\* Every step keeps what is explained, and adds no entry while an operator
\* call is collecting its operands.
LEMMA HandleNext ==
  ASSUME PrefixFree, HandleInv, [Next]_vars
  PROVE  HandleInv' /\ (Collecting # {} => UNCHANGED entries)
<1>1. PICK D \in Denotations, r \in [Nat -> Nat], m \in [Nat -> Meanings] : Explained(D, r, m)
  BY DEF HandleInv
<1>2. IInv /\ LoadsInOrder /\ IInv'
  BY NextInvariant DEF HandleInv
<1>3. ASSUME NEW e \in Exprs, RequestNew(e)
      PROVE  HandleInv' /\ Collecting = {}
  BY <1>1, <1>2, <1>3, RequestNewExplained DEF HandleInv, Collecting
<1>4. ASSUME NEW e \in Exprs, RequestFound(e)
      PROVE  HandleInv' /\ UNCHANGED entries
  <2>1. PICK F \in Denotations : Explained(F, r, m)'
    BY <1>1, <1>2, <1>4, RequestFoundExplained
  <2>2. LoadsInOrder'
    BY <1>1, <1>2, <1>4, RequestFoundExplained
  <2>3. UNCHANGED entries
    BY <1>4 DEF RequestFound, entries
  <2>4. QED
    BY <1>2, <2>1, <2>2, <2>3 DEF HandleInv
<1>5. ASSUME LoadsInOrder', Explained(D, r, m)'
      PROVE  HandleInv'
  BY <1>2, <1>5 DEF HandleInv
<1>6. ASSUME NEW e \in Exprs, ReadResident(e) \/ ReadEvicted(e)
      PROVE  HandleInv' /\ UNCHANGED entries
  <2>1. LoadsInOrder' /\ Explained(D, r, m)'
    BY <1>1, <1>2, <1>6, ReadResidentExplained, ReadEvictedExplained
  <2>2. UNCHANGED entries
    BY <1>6 DEF ReadResident, ReadEvicted, entries
  <2>3. QED
    BY <1>5, <2>1, <2>2
<1>7. CASE LoadHexProgram \/ LoadOperatorCall
  <2>1. LoadsInOrder' /\ Explained(D, r, m)'
    BY <1>1, <1>2, <1>7, LoadHexProgramExplained, LoadOperatorCallExplained
  <2>2. UNCHANGED entries
    BY <1>7 DEF LoadHexProgram, LoadOperatorCall, Store, entries
  <2>3. QED
    BY <1>5, <2>1, <2>2
<1>8. CASE LockOperand
  <2>1. LoadsInOrder' /\ Explained(D, r, m)'
    BY <1>1, <1>2, <1>8, LockResidentExplained, LockMissingExplained
  <2>2. UNCHANGED entries
    BY <1>8 DEF LockOperand, entries
  <2>3. QED
    BY <1>5, <2>1, <2>2
<1>9. CASE ApplyOperator \/ ReleaseOperand
  <2>1. LoadsInOrder' /\ Explained(D, r, m)'
    BY <1>1, <1>2, <1>9, ApplyExplained, ReleaseExplained
  <2>2. UNCHANGED entries
    BY <1>9 DEF ApplyOperator, ReleaseOperand, entries
  <2>3. QED
    BY <1>5, <2>1, <2>2
<1>10. CASE Evict
  <2>1. LoadsInOrder' /\ Explained(D, r, m)'
    BY <1>1, <1>2, <1>10, EvictExplained
  <2>2. UNCHANGED entries
    BY <1>10 DEF Evict, entries
  <2>3. QED
    BY <1>5, <2>1, <2>2
<1>11. CASE ReturnHandle \/ ReturnAnswer \/ ReturnOperand
  <2>1. LoadsInOrder' /\ Explained(D, r, m)'
    BY <1>1, <1>2, <1>11, ReturnHandleExplained, ReturnAnswerExplained,
       ReturnOperandExplained
  <2>2. UNCHANGED entries
    BY <1>11 DEF ReturnHandle, ReturnAnswer, ReturnOperand, entries
  <2>3. QED
    BY <1>5, <2>1, <2>2
<1>12. CASE FinishMain \/ EvaluationThrows \/ OperatorThrows \/ ScanEntry \/ UNCHANGED vars
  <2>1. UNCHANGED <<size, calls, answer, elementsInCache, stack>>
    BY <1>12 DEF FinishMain, EvaluationThrows, OperatorThrows, ScanEntry, vars
  <2>2. LoadsInOrder' /\ Explained(D, r, m)'
    BY <1>1, <1>2, <2>1, IdleExplained
  <2>3. QED
    BY <1>5, <2>1, <2>2 DEF entries
<1>13. QED
  BY <1>3, <1>4, <1>6, <1>7, <1>8, <1>9, <1>10, <1>11, <1>12 DEF Next, Terminated

\* HandleInv holds in every state of every evaluation.
THEOREM HandleInvariant == PrefixFree => (Spec => []HandleInv)
<1> SUFFICES ASSUME PrefixFree
             PROVE  Spec => []HandleInv
  OBVIOUS
<1>1. Init => HandleInv
  BY HandleInit
<1>2. HandleInv /\ [Next]_vars => HandleInv'
  BY HandleNext
<1>3. QED
  BY <1>1, <1>2, PTL DEF Spec

\* operator[](HexCall) returns the handle of the call it was given, and the
\* handle goes on standing for that call.  HexCall::operator== does not compare
\* the numbers of operands, so this needs that no list of operands is a prefix
\* of another one of the same operator (without that, the run operand_prefix
\* shows a wrong handle).
THEOREM HandlesDenoteCalls == PrefixFree => (Spec => []HandleDenotesCall)
<1> SUFFICES ASSUME PrefixFree
             PROVE  Spec => []HandleDenotesCall
  OBVIOUS
<1>1. HandleInv => HandleDenotesCall
  <2>1. SUFFICES ASSUME HandleInv, NEW i \in 1 .. Depth, NEW e \in Exprs,
                        stack[i].got[e] # Nowhere
                 PROVE  /\ stack[i].got[e] \in Handles
                        /\ Equivalent(calls[stack[i].got[e]], CallOf(e, stack[i].got))
    BY DEF HandleDenotesCall
  <2>2. PICK D \in Denotations, r \in [Nat -> Nat], m \in [Nat -> Meanings] :
          Explained(D, r, m)
    BY <2>1 DEF HandleInv
  <2>3. PICK f : f = stack[i]
    OBVIOUS
  <2>4. FrameExplained(D, m, f)
    BY <2>2, <2>3 DEF Explained, StackExplained
  <2>5. f.got[e] = D[e] /\ \A d \in Range(Body[e].args) : f.got[d] = D[d]
    BY <2>1, <2>3, <2>4, BodyFacts DEF FrameExplained
  <2>6. AtomExplained(D, r, m, e)
    BY <2>1, <2>2, <2>3, <2>5 DEF Explained, EntriesExplained
  <2>7. CallOf(e, f.got) = CallOf(e, D)
    BY <2>5, CallSame
  <2>8. QED
    BY <2>3, <2>5, <2>6, <2>7 DEF AtomExplained
<1>2. QED
  BY <1>1, HandleInvariant, PTL

\* Caching is transparent: a program reads through a handle the answer that
\* evaluating the call from scratch would give, whatever was found, evicted and
\* loaded again before.
THEOREM MeaningDelivered == PrefixFree => (Spec => []ReadsDeliverMeaning)
<1> SUFFICES ASSUME PrefixFree
             PROVE  Spec => []ReadsDeliverMeaning
  OBVIOUS
<1>1. HandleInv => ReadsDeliverMeaning
  BY DEF HandleInv, Explained, StackExplained, FrameExplained, ReadsDeliverMeaning
<1>2. QED
  BY <1>1, HandleInvariant, PTL

\* load is entered only for entries that are not in the cache and not being
\* loaded further down the call stack: assert(cache[index].second == NULL)
\* cannot fail, and no answer is leaked or counted twice.
THEOREM LoadsDisjoint == PrefixFree => (Spec => []LoadsAreDisjoint)
<1> SUFFICES ASSUME PrefixFree
             PROVE  Spec => []LoadsAreDisjoint
  OBVIOUS
<1>1. HandleInv => LoadsAreDisjoint
  <2>1. SUFFICES ASSUME HandleInv
                 PROVE  LoadsAreDisjoint
    OBVIOUS
  <2>2. PICK D \in Denotations, r \in [Nat -> Nat], m \in [Nat -> Meanings] :
          Explained(D, r, m)
    BY <2>1 DEF HandleInv
  <2>3. \A i, j \in 2 .. Depth : stack[i].index = stack[j].index => i = j
    BY <2>1, <2>2, LoadedByOne DEF HandleInv, Explained
  <2>4. QED
    BY <2>1, <2>3 DEF HandleInv, LoadsInOrder, LoadsEmpty, LoadsAreDisjoint
<1>2. QED
  BY <1>1, HandleInvariant, PTL

\* elementsInCache, on which the limit is enforced, is the number of answers in
\* memory, also after nested loads and evictions within a load.
THEOREM CountIsExact == PrefixFree => (Spec => []CountMatchesResident)
<1> SUFFICES ASSUME PrefixFree
             PROVE  Spec => []CountMatchesResident
  OBVIOUS
<1>1. HandleInv => CountMatchesResident
  BY DEF HandleInv, LoadsInOrder
<1>2. QED
  BY <1>1, HandleInvariant, PTL

\* Without a limit every program is evaluated and every operator applied once.
THEOREM NothingLoadedAgain == PrefixFree => (Spec => []LoadedOnce)
<1> SUFFICES ASSUME PrefixFree
             PROVE  Spec => []LoadedOnce
  OBVIOUS
<1>1. HandleInv => LoadedOnce
  BY DEF HandleInv, LoadsInOrder
<1>2. QED
  BY <1>1, HandleInvariant, PTL

\* The reference into the vector `cache' that loadOperatorCall goes on using
\* while it loads operands does not dangle: no entry is appended meanwhile, as
\* all that is evaluated then is evaluated again.
THEOREM ReferencesStayValid == PrefixFree => (Spec => CallReferenceValid)
<1> SUFFICES ASSUME PrefixFree
             PROVE  Spec => CallReferenceValid
  OBVIOUS
<1>1. HandleInv /\ [Next]_vars => [Collecting # {} => UNCHANGED entries]_vars
  BY HandleNext
<1>2. QED
  BY <1>1, HandleInvariant, PTL DEF Spec, CallReferenceValid
=============================================================================
