--------------------------- MODULE MergingTaskProofs ---------------------------
(***************************************************************************)
(* The compiled plan does what the merging plan asks for.  For plans whose *)
(* identifiers tell sections with different arguments apart, what is       *)
(* derived for a section is what its operator, its arguments and its       *)
(* sources give; so the evaluation of the generated program implements     *)
(* MergingTask, in whatever order dlvhex proceeds.                         *)
(***************************************************************************)
EXTENDS MergingPlanProofs

SourcesOf(p, n) == p.nodes[n].sources

-----------------------------------------------------------------------------
(***************************************************************************)
(* What the theorems need of a plan.                                       *)
(***************************************************************************)
\* Sections that share their argument predicates (answersets_arg<id>/2 and
\* kv_arg<id>/2) fill them alike: with the same key-value arguments, and with
\* sources of the same identifiers.
ArgumentsTell(p) ==
  \A m, n \in Composed(p) :
    IdOfArguments(p, m) = IdOfArguments(p, n) =>
      /\ Parameters(p.nodes[m]) = Parameters(p.nodes[n])
      /\ DOMAIN SourcesOf(p, m) = DOMAIN SourcesOf(p, n)
      /\ \A i \in DOMAIN SourcesOf(p, m) :
           Identifiers(p)[SourcesOf(p, m)[i]] = Identifiers(p)[SourcesOf(p, n)[i]]

\* An operator is given equally many operands whenever it is given the same
\* key-value arguments: HexCall::operator== compares as many as the call in the
\* cache has.
CountsTell(p) ==
  \A m, n \in Composed(p) :
    /\ OperatorName(p.nodes[m]) = OperatorName(p.nodes[n])
    /\ Parameters(p.nodes[m]) = Parameters(p.nodes[n])
    => DOMAIN SourcesOf(p, m) = DOMAIN SourcesOf(p, n)

Telling(p) == Unambiguous(p) /\ BasesDefined(p) /\ ArgumentsTell(p) /\ CountsTell(p)

\* There is one [merging plan] section at most, with one child.
OneRoot(p) == \A r, s \in p.roots : r = s

-----------------------------------------------------------------------------
(***************************************************************************)
(* Meaning is recursive over the sections, which come after their sources. *)
(***************************************************************************)
BaseOf(p, name) == p.bases[CHOOSE i \in DOMAIN p.bases : LastValue(p.bases[i], "name") = name]

\* The answer of section n, given those of all sections.
AnswerFrom(p, f, n) ==
  IF IsComposed(p.nodes[n])
    THEN Apply(OperatorName(p.nodes[n]), [i \in DOMAIN SourcesOf(p, n) |-> f[SourcesOf(p, n)[i]]],
               SetToSeq(Parameters(p.nodes[n])))
    ELSE Content[BaseProgram(BaseOf(p, p.nodes[n].name))]

AnswersFirst(p, f, k) == f = [n \in 1 .. k |-> AnswerFrom(p, f, n)]

\* Sources come first.
LEMMA SourcesBefore ==
  ASSUME NEW p \in Plans, NEW n \in Composed(p), NEW i \in DOMAIN SourcesOf(p, n)
  PROVE  /\ SourcesOf(p, n)[i] \in 1 .. n - 1
         /\ SourcesOf(p, n)[i] \in DOMAIN p.nodes
         /\ n \in DOMAIN p.nodes /\ n \in Nat
<1>1. n \in DOMAIN p.nodes /\ IsComposed(p.nodes[n])
  BY DEF Composed
<1>2. SourcesOf(p, n)[i] \in 1 .. n - 1
  BY <1>1, PlansAssumption DEF SourcesOf
<1>3. Len(p.nodes) \in Nat /\ DOMAIN p.nodes = 1 .. Len(p.nodes)
  BY PlansAssumption DEF IsList
<1>4. QED
  BY <1>1, <1>2, <1>3

LEMMA AnswerIsLocal ==
  ASSUME NEW p \in Plans, NEW n \in DOMAIN p.nodes, NEW f, NEW g,
         IsComposed(p.nodes[n]) =>
           \A i \in DOMAIN SourcesOf(p, n) : f[SourcesOf(p, n)[i]] = g[SourcesOf(p, n)[i]]
  PROVE  AnswerFrom(p, f, n) = AnswerFrom(p, g, n)
<1>1. CASE IsComposed(p.nodes[n])
  <2>1. [i \in DOMAIN SourcesOf(p, n) |-> f[SourcesOf(p, n)[i]]]
          = [i \in DOMAIN SourcesOf(p, n) |-> g[SourcesOf(p, n)[i]]]
    BY <1>1
  <2>2. QED
    BY <1>1, <2>1 DEF AnswerFrom
<1>2. CASE ~IsComposed(p.nodes[n])
  BY <1>2 DEF AnswerFrom
<1>3. QED
  BY <1>1, <1>2

LEMMA AnswersExist ==
  ASSUME NEW p \in Plans, NEW k \in 0 .. Len(p.nodes)
  PROVE  \E f : AnswersFirst(p, f, k)
<1>0. Len(p.nodes) \in Nat /\ DOMAIN p.nodes = 1 .. Len(p.nodes)
  BY PlansAssumption DEF IsList
<1> DEFINE W == {n \in 0 .. Len(p.nodes) : ~ \E f : AnswersFirst(p, f, n)}
<1>1. ASSUME W # {}
      PROVE  FALSE
  <2>1. W \in SUBSET Nat
    BY <1>0
  <2>2. PICK n \in W : \A q \in W : n <= q
    BY <1>1, <2>1, LeastOf
  <2>3. n \in 0 .. Len(p.nodes) /\ ~ \E f : AnswersFirst(p, f, n)
    BY <2>2
  <2>4. CASE n = 0
    <3> PICK f : f = [m \in 1 .. 0 |-> <<>>]
      OBVIOUS
    <3>1. f = [m \in 1 .. 0 |-> AnswerFrom(p, f, m)]
      OBVIOUS
    <3>2. QED
      BY <2>3, <2>4, <3>1 DEF AnswersFirst
  <2>5. CASE n # 0
    <3>1. n - 1 \in 0 .. Len(p.nodes) /\ ~(n <= n - 1) /\ n \in Nat
      BY <1>0, <2>3, <2>5
    <3>2. n - 1 \notin W
      BY <2>2, <3>1
    <3>3. PICK g : AnswersFirst(p, g, n - 1)
      BY <3>1, <3>2
    <3>4. g = [m \in 1 .. n - 1 |-> AnswerFrom(p, g, m)]
      BY <3>3 DEF AnswersFirst
    <3>9. PICK f : f = [m \in 1 .. n |-> AnswerFrom(p, g, m)]
      OBVIOUS
    <3>5. \A m \in 1 .. n - 1 : f[m] = g[m]
      <4>1. \A m \in 1 .. n - 1 : m \in 1 .. n
        BY <3>1
      <4>2. \A m \in 1 .. n - 1 : g[m] = AnswerFrom(p, g, m)
        BY <3>4
      <4>3. QED
        BY <3>9, <4>1, <4>2
    <3>6. \A m \in 1 .. n : AnswerFrom(p, g, m) = AnswerFrom(p, f, m)
      <4>1. TAKE m \in 1 .. n
      <4>2. m \in DOMAIN p.nodes /\ \A q \in 1 .. m - 1 : q \in 1 .. n - 1
        BY <1>0, <2>3, <3>1
      <4>3. IsComposed(p.nodes[m]) =>
              \A i \in DOMAIN SourcesOf(p, m) : g[SourcesOf(p, m)[i]] = f[SourcesOf(p, m)[i]]
        BY <3>5, <4>2, SourcesBefore DEF Composed
      <4>4. QED
        BY <4>2, <4>3, AnswerIsLocal
    <3>7. f = [m \in 1 .. n |-> AnswerFrom(p, f, m)]
      BY <3>6, <3>9
    <3>8. QED
      BY <2>3, <3>7 DEF AnswersFirst
  <2>6. QED
    BY <2>4, <2>5
<1>2. QED
  BY <1>1

LEMMA MeaningSolved ==
  ASSUME plan \in Plans
  PROVE  Meaning = [n \in DOMAIN plan.nodes |-> AnswerFrom(plan, Meaning, n)]
<1> DEFINE Fits(f) == f = [n \in DOMAIN plan.nodes |-> AnswerFrom(plan, f, n)]
<1>1. Len(plan.nodes) \in 0 .. Len(plan.nodes) /\ DOMAIN plan.nodes = 1 .. Len(plan.nodes)
  BY PlansAssumption DEF IsList
<1>2. \E f : Fits(f)
  BY <1>1, AnswersExist DEF AnswersFirst
<1>3. Meaning = CHOOSE f : Fits(f)
  BY DEF Meaning, AnswerFrom, SourcesOf, BaseOf
<1> HIDE DEF Fits
<1>4. Fits(Meaning)
  BY <1>2, <1>3
<1>5. QED
  BY <1>4 DEF Fits

LEMMA MeaningAt ==
  ASSUME plan \in Plans, NEW n \in DOMAIN plan.nodes
  PROVE  Meaning[n] = AnswerFrom(plan, Meaning, n)
<1> DEFINE E(m) == AnswerFrom(plan, Meaning, m)
<1>1. Meaning = [m \in DOMAIN plan.nodes |-> E(m)]
  BY MeaningSolved
<1> HIDE DEF E
<1>2. Meaning[n] = E(n)
  BY <1>1
<1>3. QED
  BY <1>2 DEF E

\* Sections of one operator with one identifier ask for the same thing.
LEMMA SameIdentifier ==
  ASSUME NEW p \in Plans, Telling(p), NEW m \in Composed(p), NEW n \in DOMAIN p.nodes,
         Identifiers(p)[m] = Identifiers(p)[n]
  PROVE  /\ n \in Composed(p)
         /\ IdOfArguments(p, m) = IdOfArguments(p, n)
         /\ OperatorName(p.nodes[m]) = OperatorName(p.nodes[n])
         /\ Parameters(p.nodes[m]) = Parameters(p.nodes[n])
         /\ DOMAIN SourcesOf(p, m) = DOMAIN SourcesOf(p, n)
         /\ \A i \in DOMAIN SourcesOf(p, m) :
              Identifiers(p)[SourcesOf(p, m)[i]] = Identifiers(p)[SourcesOf(p, n)[i]]
<1>1. m \in DOMAIN p.nodes /\ IsComposed(p.nodes[m])
  BY DEF Composed
<1>2. /\ IsComposed(p.nodes[n])
      /\ NameOf(p.nodes[m]) = NameOf(p.nodes[n])
      /\ Rest(p, Identifiers(p), m) = Rest(p, Identifiers(p), n)
  BY <1>1, IdentifiersTell DEF Telling, Unambiguous
<1>3. n \in Composed(p)
  BY <1>2 DEF Composed
<1>4. IdOfArguments(p, m) = IdOfArguments(p, n)
  BY <1>2, <1>3, RestIsId
<1>5. OperatorName(p.nodes[m]) = OperatorName(p.nodes[n])
  BY <1>1, <1>2 DEF NameOf
<1>6. QED
  BY <1>3, <1>4, <1>5 DEF Telling, ArgumentsTell

LEMMA SameMeaning ==
  ASSUME plan \in Plans, Telling(plan), NEW k \in DOMAIN plan.nodes, NEW l \in DOMAIN plan.nodes,
         Identifiers(plan)[k] = Identifiers(plan)[l]
  PROVE  Meaning[k] = Meaning[l]
<1> DEFINE W == {m \in DOMAIN plan.nodes : \E n \in DOMAIN plan.nodes :
                   Identifiers(plan)[m] = Identifiers(plan)[n] /\ Meaning[m] # Meaning[n]}
<1>0. Len(plan.nodes) \in Nat /\ DOMAIN plan.nodes = 1 .. Len(plan.nodes)
  BY PlansAssumption DEF IsList
<1>1. ASSUME W # {}
      PROVE  FALSE
  <2>1. W \in SUBSET Nat
    BY <1>0
  <2>2. PICK m \in W : \A q \in W : m <= q
    BY <1>1, <2>1, LeastOf
  <2>3. PICK n \in DOMAIN plan.nodes :
          Identifiers(plan)[m] = Identifiers(plan)[n] /\ Meaning[m] # Meaning[n]
    BY <2>2
  <2>4. m \in DOMAIN plan.nodes
    BY <2>2
  <2>5. Meaning[m] = AnswerFrom(plan, Meaning, m) /\ Meaning[n] = AnswerFrom(plan, Meaning, n)
    BY <2>3, <2>4, MeaningAt
  <2>6. CASE IsComposed(plan.nodes[m])
    <3>1. m \in Composed(plan)
      BY <2>4, <2>6 DEF Composed
    <3>2. /\ n \in Composed(plan)
          /\ OperatorName(plan.nodes[m]) = OperatorName(plan.nodes[n])
          /\ Parameters(plan.nodes[m]) = Parameters(plan.nodes[n])
          /\ DOMAIN SourcesOf(plan, m) = DOMAIN SourcesOf(plan, n)
          /\ \A i \in DOMAIN SourcesOf(plan, m) :
               Identifiers(plan)[SourcesOf(plan, m)[i]] = Identifiers(plan)[SourcesOf(plan, n)[i]]
      BY <2>3, <3>1, SameIdentifier
    <3>3. ASSUME NEW i \in DOMAIN SourcesOf(plan, m)
          PROVE  Meaning[SourcesOf(plan, m)[i]] = Meaning[SourcesOf(plan, n)[i]]
      <4>1. /\ SourcesOf(plan, m)[i] \in 1 .. m - 1 /\ SourcesOf(plan, m)[i] \in DOMAIN plan.nodes
            /\ m \in Nat
        BY <3>1, SourcesBefore
      <4>2. SourcesOf(plan, n)[i] \in DOMAIN plan.nodes
        BY <3>2, SourcesBefore
      <4>3. ~(m <= SourcesOf(plan, m)[i])
        BY <4>1
      <4>4. SourcesOf(plan, m)[i] \notin W
        BY <2>2, <4>3
      <4>5. QED
        BY <3>2, <4>1, <4>2, <4>4
    <3>4. [i \in DOMAIN SourcesOf(plan, m) |-> Meaning[SourcesOf(plan, m)[i]]]
            = [i \in DOMAIN SourcesOf(plan, n) |-> Meaning[SourcesOf(plan, n)[i]]]
      BY <3>2, <3>3
    <3>5. AnswerFrom(plan, Meaning, m) = AnswerFrom(plan, Meaning, n)
      BY <2>6, <3>2, <3>4 DEF AnswerFrom, Composed
    <3>6. QED
      BY <2>3, <2>5, <3>5
  <2>7. CASE ~IsComposed(plan.nodes[m])
    <3>1. ~IsComposed(plan.nodes[n]) /\ NameOf(plan.nodes[m]) = NameOf(plan.nodes[n])
      BY <2>3, <2>4, <2>7, IdentifiersTell DEF Telling, Unambiguous
    <3>2. plan.nodes[m].name = plan.nodes[n].name
      BY <2>7, <3>1 DEF NameOf
    <3>3. AnswerFrom(plan, Meaning, m) = AnswerFrom(plan, Meaning, n)
      BY <2>7, <3>1, <3>2 DEF AnswerFrom
    <3>4. QED
      BY <2>3, <2>5, <3>3
  <2>8. QED
    BY <2>6, <2>7
<1>2. QED
  BY <1>1

-----------------------------------------------------------------------------
(***************************************************************************)
(* The invariant: each entry of the cache holds what its call gives, and   *)
(* each handle leads to the answer of what it was derived for.             *)
(***************************************************************************)
\* The entry of a belief base.
ProgramEntry(e) ==
  \E b \in ToSet(plan.bases) :
    /\ e.call.type = BaseProgram(b).type
    /\ e.call.subject = BaseProgram(b).subject
    /\ e.answer = Content[BaseProgram(b)]

\* The operator of section n exists and accepts what it is given.
Accepted(n) ==
  /\ OperatorName(plan.nodes[n]) \in Operators
  /\ Accepts(OperatorName(plan.nodes[n]), Len(SourcesOf(plan, n)),
             SetToSeq(Parameters(plan.nodes[n])))

\* The entry of a section: its operator has been applied to the entries that
\* the call names.
OperatorEntry(e) ==
  \E n \in Composed(plan) :
    /\ Accepted(n)
    /\ e.call.type = "OperatorCall"
    /\ e.call.subject = <<OperatorName(plan.nodes[n])>>
    /\ e.call.kv = SetToSeq(Parameters(plan.nodes[n]))
    /\ e.call.args \in [DOMAIN SourcesOf(plan, n) -> DOMAIN store]
    /\ e.answer = Apply(OperatorName(plan.nodes[n]),
                        [i \in DOMAIN SourcesOf(plan, n) |-> store[e.call.args[i]].answer],
                        SetToSeq(Parameters(plan.nodes[n])))

EntriesMean == \A h \in DOMAIN store : ProgramEntry(store[h]) \/ OperatorEntry(store[h])

SourcesMean ==
  \A t \in sources : \E b \in ToSet(plan.bases) :
    /\ ~Contradictory(b) /\ BaseProgram(b) \notin Broken
    /\ t.name = LastValue(b, "name")
    /\ store[t.handle].answer = Content[BaseProgram(b)]

AppliedMean ==
  \A t \in applied : \E n \in Composed(plan) :
    /\ t.id = Identifiers(plan)[n]
    /\ store[t.handle].answer = Meaning[n]
    /\ Accepted(n)

MeaningInv == Telling(plan) => EntriesMean /\ SourcesMean /\ AppliedMean

LEMMA SameLength ==
  ASSUME NEW s, NEW t, IsList(s), IsList(t), DOMAIN s = DOMAIN t
  PROVE  Len(s) = Len(t)
<1> PICK k, l : k = Len(s) /\ l = Len(t)
  OBVIOUS
<1>1. k \in Nat /\ l \in Nat /\ 1 .. k = 1 .. l
  BY DEF IsList
<1>2. k = l
  BY <1>1
<1>3. QED
  BY <1>2

\* A program is its type and its subject.
LEMMA ProgramIsRecord ==
  ASSUME NEW b, NEW c,
         BaseProgram(b).type = BaseProgram(c).type, BaseProgram(b).subject = BaseProgram(c).subject
  PROVE  BaseProgram(b) = BaseProgram(c)
BY DEF BaseProgram

LEMMA ProgramType ==
  ASSUME NEW b
  PROVE  BaseProgram(b).type # "OperatorCall"
BY DEF BaseProgram

\* A request leads to an entry that was found or is new, and changes no entry.
LEMMA RequestGives ==
  ASSUME store \in Seq(Entries), NEW c \in Calls, NEW computed, NEW h,
         Request(c, computed, h), computed \in Answers \/ FoundAt(h, c)
  PROVE  /\ store' \in Seq(Entries)
         /\ h \in DOMAIN store'
         /\ DOMAIN store \subseteq DOMAIN store'
         /\ \A k \in DOMAIN store : store'[k] = store[k]
         /\ \A k \in DOMAIN store' \ DOMAIN store :
              k = h /\ store'[k].call = c /\ store'[k].answer = computed
         /\ h \in DOMAIN store => MayEqual(store[h].call, c)
<1>1. CASE FoundAt(h, c) /\ UNCHANGED store
  BY <1>1 DEF FoundAt
<1>2. CASE /\ NotFound(c)
           /\ h = NextHandle
           /\ store' = Append(store, [call |-> c, answer |-> computed])
  <2> PICK e : e = [call |-> c, answer |-> computed]
    OBVIOUS
  <2>0. computed \in Answers
    BY <1>2 DEF FoundAt, NextHandle
  <2>1. e \in Entries /\ e.call = c /\ e.answer = computed
    BY <2>0 DEF Entries
  <2>2. store' = Append(store, e)
    BY <1>2
  <2>3. store' \in Seq(Entries)
    BY <2>1, <2>2
  <2>4. DOMAIN store' = 1 .. Len(store) + 1 /\ DOMAIN store = 1 .. Len(store) /\ Len(store) \in Nat
    BY <2>1, <2>2
  <2>5. store'[Len(store) + 1] = e
    BY <2>1, <2>2
  <2>6. \A k \in 1 .. Len(store) : store'[k] = store[k]
    BY <2>1, <2>2
  <2>7. h = Len(store) + 1
    BY <1>2 DEF NextHandle
  <2>8. QED
    BY <2>1, <2>3, <2>4, <2>5, <2>6, <2>7
<1>3. QED
  BY <1>1, <1>2 DEF Request

LEMMA AcceptedStays ==
  ASSUME plan' = plan, NEW n
  PROVE  Accepted(n)' <=> Accepted(n)
BY DEF Accepted

\* What holds of an entry holds when others are added.
LEMMA EntryKept ==
  ASSUME NEW e, plan' = plan, DOMAIN store \subseteq DOMAIN store',
         \A k \in DOMAIN store : store'[k] = store[k],
         ProgramEntry(e) \/ OperatorEntry(e)
  PROVE  (ProgramEntry(e) \/ OperatorEntry(e))'
<1>1. CASE ProgramEntry(e)
  BY <1>1 DEF ProgramEntry
<1>2. CASE OperatorEntry(e)
  <2>1. PICK n \in Composed(plan) :
          /\ Accepted(n)
          /\ e.call.type = "OperatorCall"
          /\ e.call.subject = <<OperatorName(plan.nodes[n])>>
          /\ e.call.kv = SetToSeq(Parameters(plan.nodes[n]))
          /\ e.call.args \in [DOMAIN SourcesOf(plan, n) -> DOMAIN store]
          /\ e.answer = Apply(OperatorName(plan.nodes[n]),
                              [i \in DOMAIN SourcesOf(plan, n) |-> store[e.call.args[i]].answer],
                              SetToSeq(Parameters(plan.nodes[n])))
    BY <1>2 DEF OperatorEntry
  <2>2. e.call.args \in [DOMAIN SourcesOf(plan, n) -> DOMAIN store']
    BY <2>1
  <2>3. [i \in DOMAIN SourcesOf(plan, n) |-> store[e.call.args[i]].answer]
          = [i \in DOMAIN SourcesOf(plan, n) |-> store'[e.call.args[i]].answer]
    BY <2>1
  <2>4. OperatorEntry(e)'
    BY <2>1, <2>2, <2>3, AcceptedStays DEF OperatorEntry
  <2>5. QED
    BY <2>4
<1>3. QED
  BY <1>1, <1>2

\* No belief base contradicts itself when the program is evaluated.
LEMMA NoContradiction ==
  ASSUME NEW p \in Plans, ErrorCount(p) = 0, NEW i \in DOMAIN p.bases
  PROVE  ~Contradictory(p.bases[i])
<1> DEFINE C == {k \in DOMAIN p.bases : Contradictory(p.bases[k])}
<1>1. IsFiniteSet(DOMAIN p.bases)
  BY PlansAssumption, ListFinite
<1>2. IsFiniteSet(C)
  BY <1>1, FS_Subset
<1>3. Cardinality(C) = 0
  BY DEF ErrorCount
<1>4. C = {}
  <2> HIDE DEF C
  <2>1. QED
    BY <1>2, <1>3, FS_EmptySet
<1>5. QED
  BY <1>4

\* What a belief base means.
LEMMA BaseMeaning ==
  ASSUME plan \in Plans, Telling(plan), ErrorCount(plan) = 0,
         NEW b \in ToSet(plan.bases),
         NEW n \in DOMAIN plan.nodes, ~IsComposed(plan.nodes[n]),
         plan.nodes[n].name = LastValue(b, "name")
  PROVE  Meaning[n] = Content[BaseProgram(b)]
<1> DEFINE F(i) == LastValue(plan.bases[i], "name") = plan.nodes[n].name
<1> PICK j : j = CHOOSE i \in DOMAIN plan.bases : F(i)
  OBVIOUS
<1>1. PICK k \in DOMAIN plan.bases : b = plan.bases[k]
  BY DEF ToSet
<1>2. j \in DOMAIN plan.bases /\ F(j)
  <2>1. F(k)
    BY <1>1
  <2> HIDE DEF F
  <2>2. QED
    BY <2>1
<1>3. ~Contradictory(plan.bases[j]) /\ ~Contradictory(b)
  BY <1>1, <1>2, NoContradiction
<1>4. plan.bases[j] \in ToSet(plan.bases)
  BY <1>2 DEF ToSet
<1>5. BaseProgram(plan.bases[j]) = BaseProgram(b)
  BY <1>2, <1>3, <1>4 DEF Telling, Unambiguous, BasesTell
<1>6. Meaning[n] = Content[BaseProgram(BaseOf(plan, plan.nodes[n].name))]
  BY MeaningAt DEF AnswerFrom
<1>7. BaseOf(plan, plan.nodes[n].name) = plan.bases[j]
  BY DEF BaseOf
<1>8. QED
  BY <1>5, <1>6, <1>7

\* A result stems from an operator or from the use of a belief base.
LEMMA ResultOrigin ==
  ASSUME NEW q \in Results
  PROVE  \/ q \in applied
         \/ \E u \in program.uses : \E t \in sources :
              t.name = u.name /\ q.id = u.id /\ q.handle = t.handle
<1> DEFINE F(u) == {[id |-> u.id, handle |-> s.handle] : s \in {t \in sources : t.name = u.name}}
<1>1. Results = applied \cup UNION {F(u) : u \in program.uses}
  BY DEF Results
<1>2. CASE q \notin applied
  <2>1. PICK u \in program.uses : q \in F(u)
    <3> HIDE DEF F
    <3>1. QED
      BY <1>1, <1>2
  <2>2. PICK s \in sources : s.name = u.name /\ q = [id |-> u.id, handle |-> s.handle]
    BY <2>1
  <2>3. q.id = u.id /\ q.handle = s.handle
    BY <2>2
  <2>4. QED
    BY <2>2, <2>3
<1>3. QED
  BY <1>2

LEMMA ResultsMean ==
  ASSUME TypeOK, Telling(plan), program = GenerateCode(plan), program.errors = 0,
         SourcesMean, AppliedMean,
         NEW q \in Results, NEW n \in DOMAIN plan.nodes, q.id = Identifiers(plan)[n]
  PROVE  /\ q.handle \in DOMAIN store
         /\ store[q.handle].answer = Meaning[n]
         /\ IsComposed(plan.nodes[n]) => Accepted(n)
<1>0. plan \in Plans /\ ErrorCount(plan) = 0 /\ program.uses = UseRules(plan)
  BY DEF TypeOK, GenerateCode
<1>1. CASE q \in applied
  <2>1. PICK m \in Composed(plan) :
          /\ q.id = Identifiers(plan)[m]
          /\ store[q.handle].answer = Meaning[m]
          /\ Accepted(m)
    BY <1>1 DEF AppliedMean
  <2>2. m \in DOMAIN plan.nodes
    BY DEF Composed
  <2>3. Meaning[m] = Meaning[n]
    BY <1>0, <2>1, <2>2, SameMeaning
  <2>4. Accepted(n)
    <3>1. /\ OperatorName(plan.nodes[m]) = OperatorName(plan.nodes[n])
          /\ Parameters(plan.nodes[m]) = Parameters(plan.nodes[n])
          /\ DOMAIN SourcesOf(plan, m) = DOMAIN SourcesOf(plan, n)
          /\ n \in Composed(plan)
      BY <1>0, <2>1, SameIdentifier
    <3>2. IsList(SourcesOf(plan, m)) /\ IsList(SourcesOf(plan, n))
      BY <1>0, <3>1, PlansAssumption DEF SourcesOf, Composed
    <3>3. Len(SourcesOf(plan, m)) = Len(SourcesOf(plan, n))
      BY <3>1, <3>2, SameLength
    <3>4. QED
      BY <2>1, <3>1, <3>3 DEF Accepted
  <2>5. q.handle \in DOMAIN store
    BY <1>1 DEF TypeOK, Handles
  <2>6. QED
    BY <2>1, <2>3, <2>4, <2>5
<1>2. CASE \E u \in program.uses : \E t \in sources :
             t.name = u.name /\ q.id = u.id /\ q.handle = t.handle
  <2>1. PICK u \in UseRules(plan), t \in sources :
          t.name = u.name /\ q.id = u.id /\ q.handle = t.handle
    BY <1>0, <1>2
  <2>2. PICK m \in DOMAIN plan.nodes :
          ~IsComposed(plan.nodes[m]) /\ u = [id |-> Identifiers(plan)[m], name |-> plan.nodes[m].name]
    BY DEF UseRules
  <2>3. Identifiers(plan)[m] = Identifiers(plan)[n] /\ plan.nodes[m].name = t.name
    BY <2>1, <2>2
  <2>4. ~IsComposed(plan.nodes[n])
    BY <1>0, <2>2, <2>3, IdentifiersTell DEF Telling, Unambiguous
  <2>5. PICK b \in ToSet(plan.bases) :
          t.name = LastValue(b, "name") /\ store[t.handle].answer = Content[BaseProgram(b)]
    BY <2>1 DEF SourcesMean
  <2>6. Meaning[m] = Content[BaseProgram(b)]
    BY <1>0, <2>2, <2>3, <2>5, BaseMeaning
  <2>7. Meaning[m] = Meaning[n]
    BY <1>0, <2>3, SameMeaning
  <2>8. t.handle \in DOMAIN store
    BY DEF TypeOK, Handles
  <2>9. QED
    BY <2>1, <2>4, <2>5, <2>6, <2>7, <2>8
<1>3. QED
  BY <1>1, <1>2, ResultOrigin

-----------------------------------------------------------------------------
(***************************************************************************)
(* What an operator is given: the operands and arguments of its section.   *)
(***************************************************************************)
\* The rule for the application of section n.
RuleOf(p, n) ==
  [head |-> Identifiers(p)[n], operator |-> OperatorName(p.nodes[n]), id |-> IdOfArguments(p, n)]

\* An argument rule is that of a source of a section.
LEMMA ArgumentOrigin ==
  ASSUME NEW p \in Plans, Telling(p), NEW n \in Composed(p),
         NEW a \in ArgumentRules(p), a.id = IdOfArguments(p, n)
  PROVE  \E i \in DOMAIN SourcesOf(p, n) :
           a.pos = i - 1 /\ a.from = Identifiers(p)[SourcesOf(p, n)[i]]
<1>1. PICK m \in Composed(p) : \E i \in DOMAIN p.nodes[m].sources :
        a = [id |-> IdOfArguments(p, m), pos |-> Position(i),
             from |-> Identifiers(p)[p.nodes[m].sources[i]]]
  BY DEF ArgumentRules
<1>2. PICK i \in DOMAIN SourcesOf(p, m) :
        a = [id |-> IdOfArguments(p, m), pos |-> Position(i),
             from |-> Identifiers(p)[SourcesOf(p, m)[i]]]
  BY <1>1 DEF SourcesOf
<1>3. IdOfArguments(p, m) = IdOfArguments(p, n)
  BY <1>2
<1>4. /\ DOMAIN SourcesOf(p, m) = DOMAIN SourcesOf(p, n)
      /\ Identifiers(p)[SourcesOf(p, m)[i]] = Identifiers(p)[SourcesOf(p, n)[i]]
  BY <1>3 DEF Telling, ArgumentsTell
<1>5. QED
  BY <1>2, <1>4 DEF Position

LEMMA FactOrigin ==
  ASSUME NEW id, NEW f \in ArgumentFacts(id)
  PROVE  \E a \in program.arguments : \E q \in Results :
           a.id = id /\ q.id = a.from /\ f.pos = a.pos /\ f.handle = q.handle
<1> DEFINE F(a) == {[pos |-> a.pos, handle |-> r.handle] : r \in {q \in Results : q.id = a.from}}
<1>1. ArgumentFacts(id) = UNION {F(a) : a \in {b \in program.arguments : b.id = id}}
  BY DEF ArgumentFacts
<1>2. PICK a \in program.arguments : a.id = id /\ f \in F(a)
  <2> HIDE DEF F
  <2>1. QED
    BY <1>1
<1>3. PICK q \in Results : q.id = a.from /\ f = [pos |-> a.pos, handle |-> q.handle]
  BY <1>2
<1>4. f.pos = a.pos /\ f.handle = q.handle
  BY <1>3
<1>5. QED
  BY <1>2, <1>3, <1>4

LEMMA PositionsOfSection ==
  ASSUME plan \in Plans, Telling(plan), program = GenerateCode(plan), program.errors = 0,
         RulesContributed,
         NEW n \in Composed(plan), RuleOf(plan, n) \in program.applications,
         InputComplete(RuleOf(plan, n))
  PROVE  /\ Len(SourcesOf(plan, n)) \in Nat
         /\ DOMAIN SourcesOf(plan, n) = 1 .. Len(SourcesOf(plan, n))
         /\ Positions(RuleOf(plan, n)) = 0 .. Len(SourcesOf(plan, n)) - 1
         /\ Cardinality(Positions(RuleOf(plan, n))) = Len(SourcesOf(plan, n))
<1> PICK r : r = RuleOf(plan, n)
  OBVIOUS
<1> PICK k : k = Len(SourcesOf(plan, n))
  OBVIOUS
<1>0. r.id = IdOfArguments(plan, n)
  BY DEF RuleOf
<1>1. k \in Nat /\ DOMAIN SourcesOf(plan, n) = 1 .. k
  BY PlansAssumption DEF SourcesOf, Composed, IsList
<1>2. ASSUME NEW x \in Positions(r)
      PROVE  x \in 0 .. k - 1
  <2>1. PICK f \in ArgumentFacts(r.id) : f.pos = x
    BY DEF Positions
  <2>2. PICK a \in program.arguments : a.id = r.id /\ f.pos = a.pos
    BY FactOrigin
  <2>3. a \in ArgumentRules(plan) /\ a.id = IdOfArguments(plan, n)
    BY <1>0, <2>2 DEF GenerateCode
  <2>4. PICK i \in DOMAIN SourcesOf(plan, n) : a.pos = i - 1
    BY <2>3, ArgumentOrigin
  <2>5. QED
    BY <1>1, <2>1, <2>2, <2>4
<1>3. ASSUME NEW x \in 0 .. k - 1
      PROVE  x \in Positions(r)
  <2> PICK i : i = x + 1
    OBVIOUS
  <2>1. i \in 1 .. k /\ Position(i) = x
    BY <1>1 DEF Position
  <2> PICK a : a = [id |-> IdOfArguments(plan, n), pos |-> Position(i),
                    from |-> Identifiers(plan)[plan.nodes[n].sources[i]]]
    OBVIOUS
  <2>2. a \in program.arguments /\ a.id = r.id /\ a.pos = x
    BY <1>0, <1>1, <2>1 DEF GenerateCode, ArgumentRules, SourcesOf
  <2>3. BasesDefined(plan)
    BY DEF Telling
  <2>4. PICK q \in Results : q.id = a.from
    BY <2>2, <2>3, SourceHasResult
  <2>5. [pos |-> a.pos, handle |-> q.handle] \in ArgumentFacts(r.id)
    BY <2>2, <2>4, ArgumentGivesFact
  <2>6. QED
    BY <2>2, <2>5 DEF Positions
<1>4. Positions(r) = 0 .. k - 1
  BY <1>2, <1>3
<1>5. Cardinality(0 .. k - 1) = k
  <2>1. CASE k = 0
    <3>1. 0 .. k - 1 = {}
      BY <2>1
    <3>2. QED
      BY <2>1, <3>1, FS_EmptySet
  <2>2. CASE k # 0
    <3>1. 0 \in Int /\ k - 1 \in Int /\ ~(0 > k - 1)
      BY <1>1, <2>2
    <3>2. Cardinality(0 .. k - 1) = (k - 1) - 0 + 1
      BY <3>1, FS_Interval
    <3>3. QED
      BY <1>1, <3>2
  <2>3. QED
    BY <2>1, <2>2
<1>6. QED
  BY <1>1, <1>4, <1>5

LEMMA OperandsOfSection ==
  ASSUME TypeOK, Telling(plan), program = GenerateCode(plan), program.errors = 0,
         SourcesMean, AppliedMean,
         NEW n \in Composed(plan),
         NEW args, DOMAIN args = DOMAIN SourcesOf(plan, n), Operands(RuleOf(plan, n), args),
         NEW i \in DOMAIN SourcesOf(plan, n)
  PROVE  store[args[i]].answer = Meaning[SourcesOf(plan, n)[i]]
<1> PICK r : r = RuleOf(plan, n)
  OBVIOUS
<1>0. r.id = IdOfArguments(plan, n) /\ plan \in Plans
  BY DEF RuleOf, TypeOK
<1>1. DOMAIN SourcesOf(plan, n) = 1 .. Len(SourcesOf(plan, n)) /\ Len(SourcesOf(plan, n)) \in Nat
  BY <1>0, PlansAssumption DEF SourcesOf, Composed, IsList
<1> PICK f : f = [pos |-> i - 1, handle |-> args[i]]
  OBVIOUS
<1>2. f \in ArgumentFacts(r.id) /\ f.pos = i - 1 /\ f.handle = args[i]
  BY DEF Operands
<1>3. PICK a \in program.arguments, q \in Results :
        a.id = r.id /\ q.id = a.from /\ f.pos = a.pos /\ f.handle = q.handle
  BY <1>2, FactOrigin
<1>4. a \in ArgumentRules(plan) /\ a.id = IdOfArguments(plan, n)
  BY <1>0, <1>3 DEF GenerateCode
<1>5. PICK j \in DOMAIN SourcesOf(plan, n) :
        a.pos = j - 1 /\ a.from = Identifiers(plan)[SourcesOf(plan, n)[j]]
  BY <1>0, <1>4, ArgumentOrigin
<1>6. i = j
  BY <1>1, <1>2, <1>3, <1>5
<1>7. SourcesOf(plan, n)[i] \in DOMAIN plan.nodes
  BY <1>0, SourcesBefore
<1>8. store[q.handle].answer = Meaning[SourcesOf(plan, n)[i]]
  BY <1>3, <1>5, <1>6, <1>7, ResultsMean
<1>9. QED
  BY <1>2, <1>3, <1>8

LEMMA ParametersOfSection ==
  ASSUME plan \in Plans, Telling(plan), program = GenerateCode(plan), NEW n \in Composed(plan)
  PROVE  ParameterFactsOf(RuleOf(plan, n).id) = Parameters(plan.nodes[n])
<1> PICK r : r = RuleOf(plan, n)
  OBVIOUS
<1>0. r.id = IdOfArguments(plan, n) /\ program.parameters = ParameterFacts(plan)
  BY DEF RuleOf, GenerateCode
<1>1. ASSUME NEW k \in ParameterFactsOf(r.id)
      PROVE  k \in Parameters(plan.nodes[n])
  <2>1. PICK q \in ParameterFacts(plan) : q.id = r.id /\ k = q.pair
    BY <1>0 DEF ParameterFactsOf
  <2>2. PICK m \in Composed(plan) : \E l \in Parameters(plan.nodes[m]) :
          q = [id |-> IdOfArguments(plan, m), pair |-> l]
    BY DEF ParameterFacts
  <2>3. IdOfArguments(plan, m) = IdOfArguments(plan, n) /\ k \in Parameters(plan.nodes[m])
    BY <1>0, <2>1, <2>2
  <2>4. Parameters(plan.nodes[m]) = Parameters(plan.nodes[n])
    BY <2>3 DEF Telling, ArgumentsTell
  <2>5. QED
    BY <2>3, <2>4
<1>2. ASSUME NEW k \in Parameters(plan.nodes[n])
      PROVE  k \in ParameterFactsOf(r.id)
  <2> PICK q : q = [id |-> IdOfArguments(plan, n), pair |-> k]
    OBVIOUS
  <2>1. q \in ParameterFacts(plan) /\ q.id = r.id /\ q.pair = k
    BY <1>0 DEF ParameterFacts
  <2>2. QED
    BY <1>0, <2>1 DEF ParameterFactsOf
<1>3. QED
  BY <1>1, <1>2

\* Listing a set loses nothing.
LEMMA SetListed ==
  ASSUME NEW S, IsFiniteSet(S)
  PROVE  /\ Cardinality(S) \in Nat
         /\ SetToSeq(S) \in [1 .. Cardinality(S) -> S]
         /\ Range(SetToSeq(S)) = S
<1> PICK k : k = Cardinality(S)
  OBVIOUS
<1>1. k \in Nat /\ ExistsBijection(1 .. k, S)
  BY FS_CardinalityType
<1>2. PICK f \in [1 .. k -> S] : IsInjective(f)
  BY <1>1 DEF ExistsBijection, Bijection, Injection, Surjection, IsInjective
<1> PICK g : g = SetToSeq(S)
  OBVIOUS
<1>3. g \in [1 .. k -> S] /\ IsInjective(g)
  BY <1>2 DEF SetToSeq
<1>4. g \in Injection(1 .. k, S)
  BY <1>3 DEF Injection, IsInjective
<1>5. Cardinality(1 .. k) = k
  <2>1. CASE k = 0
    <3>1. 1 .. k = {}
      BY <2>1
    <3>2. QED
      BY <2>1, <3>1, FS_EmptySet
  <2>2. CASE k # 0
    BY <1>1, <2>2, FS_Interval
  <2>3. QED
    BY <2>1, <2>2
<1>6. g \in Surjection(1 .. k, S)
  BY <1>4, <1>5, FS_Injection
<1>7. Range(g) = S
  BY <1>3, <1>6 DEF Surjection, Range
<1>8. QED
  BY <1>1, <1>3, <1>7

LEMMA ListedRange ==
  ASSUME NEW K \in SUBSET KeyValues
  PROVE  Range(SetToSeq(K)) = K
<1>1. IsFiniteSet(K)
  BY PlansAssumption, FS_Subset
<1>2. QED
  BY <1>1, SetListed

-----------------------------------------------------------------------------
(***************************************************************************)
(* The invariant is kept, action by action.                                *)
(***************************************************************************)
\* Nothing is derived before the program is there.
Started ==
  \/ sources = {} /\ applied = {}
  \/ program = GenerateCode(plan) /\ program.errors = 0

PlanInv == TypeOK /\ AskedOnce /\ AssemblyInv /\ UniqueInv /\ Started /\ MeaningInv

LEMMA MeaningStays ==
  ASSUME plan' = plan
  PROVE  Meaning' = Meaning
BY DEF Meaning

LEMMA MeaningKept ==
  ASSUME MeaningInv, UNCHANGED <<plan, store, sources, applied>>
  PROVE  MeaningInv'
<1>1. SUFFICES ASSUME Telling(plan)
               PROVE  EntriesMean' /\ SourcesMean' /\ AppliedMean'
  BY DEF MeaningInv
<1>2. EntriesMean /\ SourcesMean /\ AppliedMean
  BY <1>1 DEF MeaningInv
<1>3. EntriesMean'
  BY <1>2, AcceptedStays DEF EntriesMean, ProgramEntry, OperatorEntry
<1>4. SourcesMean'
  BY <1>2 DEF SourcesMean
<1>5. AppliedMean'
  BY <1>2, MeaningStays DEF AppliedMean, Accepted
<1>6. QED
  BY <1>3, <1>4, <1>5

LEMMA EvaluateMeans ==
  ASSUME TypeOK, AskedOnce, AssemblyInv, MeaningInv, NEW r \in pending, EvaluateBeliefBase(r)
  PROVE  MeaningInv'
<1>1. CASE r.program \in Broken
  <2>1. UNCHANGED <<plan, store, sources, applied>>
    BY <1>1 DEF EvaluateBeliefBase, Fail
  <2>2. QED
    BY <2>1, MeaningKept
<1>2. CASE r.program \notin Broken
  <2> PICK c : c = [type |-> r.program.type, subject |-> r.program.subject,
                    args |-> <<>>, kv |-> <<>>]
    OBVIOUS
  <2>1. r \in pending \cap program.sources /\ status = "evaluate"
    BY DEF EvaluateBeliefBase
  <2>2. /\ program = GenerateCode(plan)
        /\ r.program \in Programs /\ r.program.type \in CallTypes
    BY <2>1, SourcesOfProgram
  <2>3. c \in Calls
    <3>1. r.program.subject \in Subjects
      BY <2>2 DEF Subjects
    <3>2. QED
      BY <2>2, <3>1 DEF Calls
  <2>4. Content[r.program] \in Answers /\ plan \in Plans
    BY <2>2, PlansAssumption DEF TypeOK
  <2>5. PICK h \in 0 .. Len(store) + 1 :
          /\ Request(c, Content[r.program], h)
          /\ sources' = sources \cup {[name |-> r.name, handle |-> h]}
    BY <1>2 DEF EvaluateBeliefBase
  <2>6. store \in Seq(Entries)
    BY DEF TypeOK, Entries
  <2>7. /\ store' \in Seq(Entries)
        /\ h \in DOMAIN store'
        /\ DOMAIN store \subseteq DOMAIN store'
        /\ \A k \in DOMAIN store : store'[k] = store[k]
        /\ \A k \in DOMAIN store' \ DOMAIN store :
             k = h /\ store'[k].call = c /\ store'[k].answer = Content[r.program]
        /\ h \in DOMAIN store => MayEqual(store[h].call, c)
    BY <2>3, <2>4, <2>5, <2>6, RequestGives
  <2>8. UNCHANGED <<plan, program, applied>>
    BY <1>2 DEF EvaluateBeliefBase
  <2>9. SUFFICES ASSUME Telling(plan)
                 PROVE  EntriesMean' /\ SourcesMean' /\ AppliedMean'
    BY <2>8 DEF MeaningInv
  <2>10. EntriesMean /\ SourcesMean /\ AppliedMean
    BY <2>9 DEF MeaningInv
  <2>11. PICK b \in ToSet(plan.bases) :
           ~Contradictory(b) /\ r = [name |-> LastValue(b, "name"), program |-> BaseProgram(b)]
    BY <2>1, <2>2 DEF GenerateCode, SourceRules
  <2>12. r.name = LastValue(b, "name") /\ r.program = BaseProgram(b)
    BY <2>11
  <2>13. c.type = BaseProgram(b).type /\ c.subject = BaseProgram(b).subject
    BY <2>12
  <2>14. EntriesMean'
    <3>1. SUFFICES ASSUME NEW k \in DOMAIN store'
                   PROVE  (ProgramEntry(store[k]) \/ OperatorEntry(store[k]))'
      BY DEF EntriesMean
    <3>2. CASE k \in DOMAIN store
      <4> PICK e : e = store[k]
        OBVIOUS
      <4>1. ProgramEntry(e) \/ OperatorEntry(e)
        BY <2>10, <3>2 DEF EntriesMean
      <4>2. (ProgramEntry(e) \/ OperatorEntry(e))'
        BY <2>7, <2>8, <4>1, EntryKept
      <4>3. e = store'[k]
        BY <2>7, <3>2
      <4>4. QED
        BY <4>2, <4>3
    <3>3. CASE k \notin DOMAIN store
      <4>1. store'[k].call = c /\ store'[k].answer = Content[BaseProgram(b)]
        BY <2>7, <2>12, <3>3
      <4>2. QED
        BY <2>8, <2>13, <4>1 DEF ProgramEntry
    <3>4. QED
      BY <3>2, <3>3
  <2>15. store'[h].answer = Content[BaseProgram(b)]
    <3>1. CASE h \in DOMAIN store
      <4>1. store[h].call.type = c.type /\ store[h].call.subject = c.subject
        BY <2>7, <3>1 DEF MayEqual
      <4>2. store[h].call.type # "OperatorCall"
        BY <2>13, <4>1, ProgramType
      <4>3. ProgramEntry(store[h])
        BY <2>10, <3>1, <4>2 DEF EntriesMean, OperatorEntry
      <4>4. PICK d \in ToSet(plan.bases) :
              /\ store[h].call.type = BaseProgram(d).type
              /\ store[h].call.subject = BaseProgram(d).subject
              /\ store[h].answer = Content[BaseProgram(d)]
        BY <4>3 DEF ProgramEntry
      <4>5. BaseProgram(d) = BaseProgram(b)
        BY <2>13, <4>1, <4>4, ProgramIsRecord
      <4>6. QED
        BY <2>7, <3>1, <4>4, <4>5
    <3>2. CASE h \notin DOMAIN store
      BY <2>7, <2>12, <3>2
    <3>3. QED
      BY <3>1, <3>2
  <2>16. SourcesMean'
    <3>1. SUFFICES ASSUME NEW t \in sources'
                   PROVE  \E d \in ToSet(plan.bases) :
                            /\ ~Contradictory(d) /\ BaseProgram(d) \notin Broken
                            /\ t.name = LastValue(d, "name")
                            /\ store'[t.handle].answer = Content[BaseProgram(d)]
      BY <2>8 DEF SourcesMean
    <3>2. CASE t \in sources
      <4>1. t.handle \in DOMAIN store
        BY <3>2 DEF TypeOK, Handles
      <4>2. QED
        BY <2>7, <2>10, <3>2, <4>1 DEF SourcesMean
    <3>3. CASE t = [name |-> r.name, handle |-> h]
      BY <1>2, <2>11, <2>12, <2>15, <3>3
    <3>4. QED
      BY <2>5, <3>2, <3>3
  <2>17. AppliedMean'
    <3>1. \A t \in applied : t.handle \in DOMAIN store
      BY DEF TypeOK, Handles
    <3>2. QED
      BY <2>7, <2>8, <2>10, <3>1, MeaningStays, AcceptedStays DEF AppliedMean
  <2>18. QED
    BY <2>14, <2>16, <2>17
<1>3. QED
  BY <1>1, <1>2

\* What the application of an operator does, when it succeeds.
LEMMA ApplicationGives ==
  ASSUME TypeOK, NEW r \in pending, ApplyOperator(r), ~Fail("failed"), ~Fail("corrupted")
  PROVE  LET n == Cardinality(Positions(r))
             kv == SetToSeq(ParameterFactsOf(r.id))
         IN /\ r.operator \in Operators
            /\ UNCHANGED <<plan, program, sources, status, output>>
            /\ \E args \in [1 .. n -> DOMAIN store] : \E h :
                 /\ Operands(r, args)
                 /\ \/ Accepts(r.operator, n, kv)
                    \/ FoundAt(h, [type |-> "OperatorCall", subject |-> <<r.operator>>,
                                   args |-> args, kv |-> kv])
                 /\ Request([type |-> "OperatorCall", subject |-> <<r.operator>>,
                             args |-> args, kv |-> kv],
                            Apply(r.operator, [i \in 1 .. n |-> store[args[i]].answer], kv), h)
                 /\ applied' = applied \cup {[id |-> r.head, handle |-> h]}
                 /\ [type |-> "OperatorCall", subject |-> <<r.operator>>,
                     args |-> args, kv |-> kv] \in Calls
                 /\ Accepts(r.operator, n, kv) =>
                      Apply(r.operator, [i \in 1 .. n |-> store[args[i]].answer], kv) \in Answers
<1> PICK n : n = Cardinality(Positions(r))
  OBVIOUS
<1> PICK kv : kv = SetToSeq(ParameterFactsOf(r.id))
  OBVIOUS
<1>1. r \in pending \cap program.applications
  BY DEF ApplyOperator
<1>2. n \in Nat /\ ParameterFactsOf(r.id) \in SUBSET KeyValues
  BY <1>1, OperandsOfProgram
<1>3. kv \in Seq(KeyValues) /\ kv \in {SetToSeq(K) : K \in SUBSET KeyValues}
  BY <1>2, ListedParameters
<1>4. r.operator \in Operators
  BY DEF ApplyOperator
<1>5. PICK args \in [1 .. n -> DOMAIN store], h \in 0 .. Len(store) + 1 :
        /\ Operands(r, args)
        /\ \/ Accepts(r.operator, n, kv)
           \/ FoundAt(h, [type |-> "OperatorCall", subject |-> <<r.operator>>,
                          args |-> args, kv |-> kv])
        /\ Request([type |-> "OperatorCall", subject |-> <<r.operator>>,
                    args |-> args, kv |-> kv],
                   Apply(r.operator, [i \in 1 .. n |-> store[args[i]].answer], kv), h)
        /\ applied' = applied \cup {[id |-> r.head, handle |-> h]}
  BY DEF ApplyOperator
<1> PICK c : c = [type |-> "OperatorCall", subject |-> <<r.operator>>, args |-> args, kv |-> kv]
  OBVIOUS
<1> PICK inputs : inputs = [i \in 1 .. n |-> store[args[i]].answer]
  OBVIOUS
<1>6. store \in Seq(Entries)
  BY DEF TypeOK, Entries
<1>7. DOMAIN store = 1 .. Len(store) /\ Len(store) \in Nat
  BY <1>6
<1>8. c \in Calls
  <2>1. args \in [1 .. n -> Nat]
    BY <1>7
  <2>2. args \in Seq(Nat)
    BY <1>2, <2>1
  <2>3. <<r.operator>> \in Subjects
    BY <1>4 DEF Subjects
  <2>4. QED
    BY <1>3, <2>2, <2>3 DEF Calls, CallTypes
<1>9. inputs \in [1 .. n -> Answers]
  <2>1. \A i \in 1 .. n : store[args[i]] \in Entries
    BY <1>6, <1>7
  <2>2. \A i \in 1 .. n : store[args[i]].answer \in Answers
    BY <2>1 DEF Entries
  <2>3. QED
    BY <2>2
<1>10. Accepts(r.operator, n, kv) => Apply(r.operator, inputs, kv) \in Answers
  BY <1>2, <1>3, <1>4, <1>9, AppliedType
<1>11. UNCHANGED <<plan, program, sources, status, output>>
  BY DEF ApplyOperator
<1>12. QED
  BY <1>4, <1>5, <1>8, <1>10, <1>11

\* An operator computes what its section means.
LEMMA OperatorGives ==
  ASSUME TypeOK, Telling(plan), program = GenerateCode(plan), program.errors = 0,
         RulesContributed, SourcesMean, AppliedMean,
         NEW r \in program.applications, InputComplete(r),
         NEW args \in [1 .. Cardinality(Positions(r)) -> DOMAIN store], Operands(r, args)
  PROVE  \E n \in Composed(plan) :
           /\ r = RuleOf(plan, n)
           /\ Len(SourcesOf(plan, n)) = Cardinality(Positions(r))
           /\ DOMAIN SourcesOf(plan, n) = 1 .. Cardinality(Positions(r))
           /\ ParameterFactsOf(r.id) = Parameters(plan.nodes[n])
           /\ Apply(OperatorName(plan.nodes[n]),
                    [i \in DOMAIN SourcesOf(plan, n) |-> store[args[i]].answer],
                    SetToSeq(Parameters(plan.nodes[n]))) = Meaning[n]
<1>1. plan \in Plans /\ program.applications = ApplicationRules(plan)
  BY DEF TypeOK, GenerateCode
<1>2. PICK n \in Composed(plan) : r = RuleOf(plan, n)
  BY <1>1 DEF ApplicationRules, RuleOf
<1>3. /\ Len(SourcesOf(plan, n)) = Cardinality(Positions(r))
      /\ DOMAIN SourcesOf(plan, n) = 1 .. Cardinality(Positions(r))
  BY <1>1, <1>2, PositionsOfSection
<1>4. ParameterFactsOf(r.id) = Parameters(plan.nodes[n])
  BY <1>1, <1>2, ParametersOfSection
<1>5. DOMAIN args = DOMAIN SourcesOf(plan, n)
  BY <1>3
<1>6. \A i \in DOMAIN SourcesOf(plan, n) : store[args[i]].answer = Meaning[SourcesOf(plan, n)[i]]
  BY <1>2, <1>5, OperandsOfSection
<1>7. [i \in DOMAIN SourcesOf(plan, n) |-> store[args[i]].answer]
        = [i \in DOMAIN SourcesOf(plan, n) |-> Meaning[SourcesOf(plan, n)[i]]]
  BY <1>6
<1>8. n \in DOMAIN plan.nodes /\ IsComposed(plan.nodes[n])
  BY DEF Composed
<1>9. Meaning[n] = AnswerFrom(plan, Meaning, n)
  BY <1>1, <1>8, MeaningAt
<1>10. QED
  BY <1>2, <1>3, <1>4, <1>7, <1>8, <1>9 DEF AnswerFrom

\* An entry that is taken for the call of a section holds what the call gives.
LEMMA FoundMeans ==
  ASSUME plan \in Plans, Telling(plan), EntriesMean,
         NEW h \in DOMAIN store, NEW n \in Composed(plan),
         NEW c, c.type = "OperatorCall", c.subject = <<OperatorName(plan.nodes[n])>>,
         c.kv = SetToSeq(Parameters(plan.nodes[n])),
         c.args \in [DOMAIN SourcesOf(plan, n) -> DOMAIN store],
         MayEqual(store[h].call, c)
  PROVE  /\ Accepted(n)
         /\ store[h].answer = Apply(OperatorName(plan.nodes[n]),
                                    [i \in DOMAIN SourcesOf(plan, n) |-> store[c.args[i]].answer],
                                    SetToSeq(Parameters(plan.nodes[n])))
<1> PICK e : e = store[h]
  OBVIOUS
<1>1. /\ e.call.type = c.type /\ e.call.subject = c.subject
      /\ \A i \in DOMAIN e.call.args \cap DOMAIN c.args : e.call.args[i] = c.args[i]
      /\ Range(e.call.kv) = Range(c.kv)
  BY DEF MayEqual
<1>2. ~ProgramEntry(e)
  BY <1>1, ProgramType DEF ProgramEntry
<1>3. OperatorEntry(e)
  BY <1>2 DEF EntriesMean
<1>4. PICK m \in Composed(plan) :
        /\ Accepted(m)
        /\ e.call.subject = <<OperatorName(plan.nodes[m])>>
        /\ e.call.kv = SetToSeq(Parameters(plan.nodes[m]))
        /\ e.call.args \in [DOMAIN SourcesOf(plan, m) -> DOMAIN store]
        /\ e.answer = Apply(OperatorName(plan.nodes[m]),
                            [i \in DOMAIN SourcesOf(plan, m) |-> store[e.call.args[i]].answer],
                            SetToSeq(Parameters(plan.nodes[m])))
  BY <1>3 DEF OperatorEntry
<1>5. OperatorName(plan.nodes[m]) = OperatorName(plan.nodes[n])
  BY <1>1, <1>4
<1>6. Parameters(plan.nodes[m]) = Parameters(plan.nodes[n])
  <2>1. \A k \in Composed(plan) : Parameters(plan.nodes[k]) \in SUBSET KeyValues
    BY PlansAssumption DEF Composed
  <2>2. Range(SetToSeq(Parameters(plan.nodes[m]))) = Parameters(plan.nodes[m])
    BY <2>1, ListedRange
  <2>3. Range(SetToSeq(Parameters(plan.nodes[n]))) = Parameters(plan.nodes[n])
    BY <2>1, ListedRange
  <2>4. QED
    BY <1>1, <1>4, <2>2, <2>3
<1>7. DOMAIN SourcesOf(plan, m) = DOMAIN SourcesOf(plan, n)
  BY <1>5, <1>6 DEF Telling, CountsTell
<1>8. \A i \in DOMAIN SourcesOf(plan, n) : e.call.args[i] = c.args[i]
  BY <1>1, <1>4, <1>7
<1>9. [i \in DOMAIN SourcesOf(plan, m) |-> store[e.call.args[i]].answer]
        = [i \in DOMAIN SourcesOf(plan, n) |-> store[c.args[i]].answer]
  BY <1>7, <1>8
<1>10. Len(SourcesOf(plan, m)) = Len(SourcesOf(plan, n))
  <2>1. IsList(SourcesOf(plan, m)) /\ IsList(SourcesOf(plan, n))
    BY PlansAssumption DEF Composed, SourcesOf
  <2>2. QED
    BY <1>7, <2>1, SameLength
<1>11. Accepted(n)
  BY <1>4, <1>5, <1>6, <1>10 DEF Accepted
<1>12. QED
  BY <1>4, <1>5, <1>6, <1>9, <1>11

LEMMA ApplyMeans ==
  ASSUME TypeOK, AskedOnce, AssemblyInv, MeaningInv, NEW r \in pending, ApplyOperator(r)
  PROVE  MeaningInv'
<1>1. status = "evaluate" /\ r \in pending \cap program.applications /\ InputComplete(r)
  BY DEF ApplyOperator
<1>2. program = GenerateCode(plan) /\ program.errors = 0 /\ RulesContributed /\ plan \in Plans
  BY <1>1 DEF AssemblyInv, TypeOK
<1>3. CASE Fail("failed") \/ Fail("corrupted")
  <2>1. UNCHANGED <<plan, store, sources, applied>>
    BY <1>3 DEF Fail
  <2>2. QED
    BY <2>1, MeaningKept
<1>4. CASE ~Fail("failed") /\ ~Fail("corrupted")
  <2> DEFINE k == Cardinality(Positions(r))
             kv == SetToSeq(ParameterFactsOf(r.id))
             Call(args) == [type |-> "OperatorCall", subject |-> <<r.operator>>,
                            args |-> args, kv |-> kv]
             Gives(args) == Apply(r.operator, [i \in 1 .. k |-> store[args[i]].answer], kv)
  <2>1. /\ r.operator \in Operators
        /\ UNCHANGED <<plan, program, sources, status, output>>
    BY <1>4, ApplicationGives
  <2>2. PICK args, h :
          /\ args \in [1 .. k -> DOMAIN store]
          /\ Operands(r, args)
          /\ Accepts(r.operator, k, kv) \/ FoundAt(h, Call(args))
          /\ Request(Call(args), Gives(args), h)
          /\ applied' = applied \cup {[id |-> r.head, handle |-> h]}
          /\ Call(args) \in Calls
          /\ Accepts(r.operator, k, kv) => Gives(args) \in Answers
    BY <1>4, ApplicationGives
  <2>3. SUFFICES ASSUME Telling(plan)
                 PROVE  EntriesMean' /\ SourcesMean' /\ AppliedMean'
    BY <2>1 DEF MeaningInv
  <2>4. EntriesMean /\ SourcesMean /\ AppliedMean
    BY <2>3 DEF MeaningInv
  <2>5. PICK n \in Composed(plan) :
          /\ r = RuleOf(plan, n)
          /\ Len(SourcesOf(plan, n)) = k
          /\ DOMAIN SourcesOf(plan, n) = 1 .. k
          /\ ParameterFactsOf(r.id) = Parameters(plan.nodes[n])
          /\ Apply(OperatorName(plan.nodes[n]),
                   [i \in DOMAIN SourcesOf(plan, n) |-> store[args[i]].answer],
                   SetToSeq(Parameters(plan.nodes[n]))) = Meaning[n]
    BY <1>1, <1>2, <2>2, <2>3, <2>4, OperatorGives
  <2>6. r.head = Identifiers(plan)[n] /\ r.operator = OperatorName(plan.nodes[n])
    BY <2>5 DEF RuleOf
  <2>7. PICK c : c = Call(args)
    OBVIOUS
  <2>8. /\ c.type = "OperatorCall" /\ c.subject = <<OperatorName(plan.nodes[n])>>
        /\ c.kv = SetToSeq(Parameters(plan.nodes[n])) /\ c.args = args
        /\ c.args \in [DOMAIN SourcesOf(plan, n) -> DOMAIN store]
    BY <2>2, <2>5, <2>6, <2>7
  <2>9. Gives(args) = Meaning[n]
    BY <2>5, <2>6
  <2>10. store \in Seq(Entries)
    BY DEF TypeOK, Entries
  <2> HIDE DEF k, kv, Call, Gives
  <2>11. /\ c \in Calls /\ Request(c, Meaning[n], h)
         /\ Meaning[n] \in Answers \/ FoundAt(h, c)
    BY <2>2, <2>7, <2>9
  <2>12. /\ h \in DOMAIN store'
         /\ DOMAIN store \subseteq DOMAIN store'
         /\ \A q \in DOMAIN store : store'[q] = store[q]
         /\ \A q \in DOMAIN store' \ DOMAIN store :
              q = h /\ store'[q].call = c /\ store'[q].answer = Meaning[n]
         /\ h \in DOMAIN store => MayEqual(store[h].call, c)
    BY <2>10, <2>11, RequestGives
  <2>20. Accepted(n)
    <3>1. CASE Accepts(r.operator, k, kv)
      BY <2>1, <2>5, <2>6, <3>1 DEF Accepted, k, kv
    <3>2. CASE FoundAt(h, c)
      <4>1. h \in DOMAIN store /\ MayEqual(store[h].call, c)
        BY <3>2 DEF FoundAt
      <4>2. QED
        BY <1>2, <2>3, <2>4, <2>8, <4>1, FoundMeans
    <3>3. QED
      BY <2>2, <2>7, <3>1, <3>2
  <2>13. [i \in DOMAIN SourcesOf(plan, n) |-> store'[c.args[i]].answer]
           = [i \in DOMAIN SourcesOf(plan, n) |-> store[args[i]].answer]
    BY <2>8, <2>12
  <2>14. EntriesMean'
    <3>1. SUFFICES ASSUME NEW q \in DOMAIN store'
                   PROVE  (ProgramEntry(store[q]) \/ OperatorEntry(store[q]))'
      BY DEF EntriesMean
    <3>2. CASE q \in DOMAIN store
      <4> PICK e : e = store[q]
        OBVIOUS
      <4>1. ProgramEntry(e) \/ OperatorEntry(e)
        BY <2>4, <3>2 DEF EntriesMean
      <4>2. (ProgramEntry(e) \/ OperatorEntry(e))'
        BY <2>1, <2>12, <4>1, EntryKept
      <4>3. e = store'[q]
        BY <2>12, <3>2
      <4>4. QED
        BY <4>2, <4>3
    <3>3. CASE q \notin DOMAIN store
      <4>1. store'[q].call = c /\ store'[q].answer = Meaning[n]
        BY <2>12, <3>3
      <4>2. c.args \in [DOMAIN SourcesOf(plan, n) -> DOMAIN store']
        BY <2>8, <2>12
      <4>3. Meaning[n] = Apply(OperatorName(plan.nodes[n]),
                               [i \in DOMAIN SourcesOf(plan, n) |-> store'[c.args[i]].answer],
                               SetToSeq(Parameters(plan.nodes[n])))
        BY <2>5, <2>13
      <4>4. OperatorEntry(store[q])'
        BY <2>1, <2>8, <2>20, <4>1, <4>2, <4>3, AcceptedStays DEF OperatorEntry
      <4>5. QED
        BY <4>4
    <3>4. QED
      BY <3>2, <3>3
  <2>15. store'[h].answer = Meaning[n]
    <3>1. CASE h \in DOMAIN store
      <4>1. store[h].answer = Apply(OperatorName(plan.nodes[n]),
                                    [i \in DOMAIN SourcesOf(plan, n) |-> store[c.args[i]].answer],
                                    SetToSeq(Parameters(plan.nodes[n])))
        BY <1>2, <2>3, <2>4, <2>8, <2>12, <3>1, FoundMeans
      <4>2. QED
        BY <2>5, <2>8, <2>12, <3>1, <4>1
    <3>2. CASE h \notin DOMAIN store
      BY <2>12, <3>2
    <3>3. QED
      BY <3>1, <3>2
  <2>16. SourcesMean'
    <3>1. \A t \in sources : t.handle \in DOMAIN store
      BY DEF TypeOK, Handles
    <3>2. QED
      BY <2>1, <2>4, <2>12, <3>1 DEF SourcesMean
  <2>17. AppliedMean'
    <3>1. SUFFICES ASSUME NEW t \in applied'
                   PROVE  \E m \in Composed(plan) :
                            /\ t.id = Identifiers(plan)[m]
                            /\ store'[t.handle].answer = Meaning[m]
                            /\ Accepted(m)
      BY <2>1, MeaningStays, AcceptedStays DEF AppliedMean
    <3>2. CASE t \in applied
      <4>1. t.handle \in DOMAIN store
        BY <3>2 DEF TypeOK, Handles
      <4>2. QED
        BY <2>4, <2>12, <3>2, <4>1 DEF AppliedMean
    <3>3. CASE t = [id |-> r.head, handle |-> h]
      <4>1. t.id = Identifiers(plan)[n] /\ t.handle = h
        BY <2>6, <3>3
      <4>2. QED
        BY <2>15, <2>20, <4>1
    <3>4. QED
      BY <2>2, <3>2, <3>3
  <2>18. QED
    BY <2>14, <2>16, <2>17
<1>5. QED
  BY <1>3, <1>4

LEMMA NothingMeans ==
  ASSUME store = <<>>, sources = {}, applied = {}
  PROVE  MeaningInv
BY DEF MeaningInv, EntriesMean, SourcesMean, AppliedMean

LEMMA PlanInitial == Init => PlanInv
<1>1. SUFFICES ASSUME Init PROVE PlanInv
  OBVIOUS
<1>2. store = <<>> /\ sources = {} /\ applied = {} /\ status = "compile"
  BY <1>1 DEF Init
<1>3. AssemblyInv /\ Started
  BY <1>2 DEF AssemblyInv, OperandsAssembled, Started
<1>4. UniqueInv
  BY <1>2 DEF UniqueInv, SourcesOnce, AppliedOnce
<1>5. QED
  BY <1>1, <1>2, <1>3, <1>4, InitialInvariant, NothingMeans DEF PlanInv

LEMMA StartedStep == PlanInv /\ [Next]_vars => Started'
<1>1. SUFFICES ASSUME PlanInv, [Next]_vars PROVE Started'
  OBVIOUS
<1>2. status = "evaluate" => program = GenerateCode(plan) /\ program.errors = 0
  BY <1>1 DEF PlanInv, AssemblyInv
<1>3. status = "compile" => sources = {} /\ applied = {}
  BY <1>1 DEF PlanInv, UniqueInv
<1>4. Started
  BY <1>1 DEF PlanInv
<1>5. CASE Compile
  BY <1>3, <1>5 DEF Compile, Started
<1>6. ASSUME NEW r \in pending, EvaluateBeliefBase(r)
      PROVE  Started'
  <2>1. UNCHANGED <<plan, program>> /\ status = "evaluate"
    BY <1>6 DEF EvaluateBeliefBase, Fail
  <2>2. QED
    BY <1>2, <2>1 DEF Started
<1>7. ASSUME NEW r \in pending, ApplyOperator(r)
      PROVE  Started'
  <2>1. UNCHANGED <<plan, program>> /\ status = "evaluate"
    BY <1>7 DEF ApplyOperator, Fail
  <2>2. QED
    BY <1>2, <2>1 DEF Started
<1>8. CASE Extract
  <2>1. UNCHANGED <<plan, program>> /\ status = "evaluate"
    BY <1>8 DEF Extract, Fail
  <2>2. QED
    BY <1>2, <2>1 DEF Started
<1>9. CASE UNCHANGED vars
  BY <1>4, <1>9 DEF vars, Started
<1>10. QED
  BY <1>1, <1>5, <1>6, <1>7, <1>8, <1>9 DEF Next, Terminated

LEMMA MeaningStep == PlanInv /\ [Next]_vars => MeaningInv'
<1>1. SUFFICES ASSUME PlanInv, [Next]_vars PROVE MeaningInv'
  OBVIOUS
<1>2. TypeOK /\ AskedOnce /\ AssemblyInv /\ MeaningInv
  BY <1>1 DEF PlanInv
<1>3. CASE Compile
  BY <1>2, <1>3, MeaningKept DEF Compile
<1>4. ASSUME NEW r \in pending, EvaluateBeliefBase(r)
      PROVE  MeaningInv'
  BY <1>2, <1>4, EvaluateMeans
<1>5. ASSUME NEW r \in pending, ApplyOperator(r)
      PROVE  MeaningInv'
  BY <1>2, <1>5, ApplyMeans
<1>6. CASE Extract
  <2>1. UNCHANGED <<plan, store, sources, applied>>
    BY <1>6 DEF Extract, Fail
  <2>2. QED
    BY <1>2, <2>1, MeaningKept
<1>7. CASE UNCHANGED vars
  BY <1>2, <1>7, MeaningKept DEF vars
<1>8. QED
  BY <1>1, <1>3, <1>4, <1>5, <1>6, <1>7 DEF Next, Terminated

LEMMA PlanStep == PlanInv /\ [Next]_vars => PlanInv'
<1>1. SUFFICES ASSUME PlanInv, [Next]_vars PROVE PlanInv'
  OBVIOUS
<1>2. TypeOK /\ AskedOnce /\ AssemblyInv /\ UniqueInv
  BY <1>1 DEF PlanInv
<1>3. TypeOK' /\ AskedOnce'
  BY <1>1, <1>2, StepInvariant
<1>4. AssemblyInv' /\ UniqueInv'
  BY <1>1, <1>2, AssemblyStep, UniqueStep
<1>5. QED
  BY <1>1, <1>3, <1>4, StartedStep, MeaningStep DEF PlanInv

\* The handles of a section lead to its answer.
LEMMA HandlesMean ==
  ASSUME PlanInv, Telling(plan), NEW n \in DOMAIN plan.nodes, NEW h \in HandlesOf(n)
  PROVE  /\ h \in DOMAIN store
         /\ store[h].answer = Meaning[n]
         /\ IsComposed(plan.nodes[n]) => Accepted(n)
<1>1. PICK q \in Results : q.id = Identifiers(plan)[n] /\ q.handle = h
  BY DEF HandlesOf
<1>2. Results # {}
  BY <1>1
<1>3. ~(sources = {} /\ applied = {})
  BY <1>2 DEF Results
<1>4. program = GenerateCode(plan) /\ program.errors = 0
  BY <1>3 DEF PlanInv, Started
<1>5. SourcesMean /\ AppliedMean /\ TypeOK
  BY DEF PlanInv, MeaningInv
<1>6. QED
  BY <1>1, <1>4, <1>5, ResultsMean

\* In whatever order dlvhex evaluates a compiled plan, what it derives for a
\* section is what the plan asks for: the section's operator, applied with its
\* own arguments to the answers of its own sources, in their order, down to the
\* belief bases. The plans are those whose identifiers tell apart what the
\* strings of CodeGenerator.cpp are made from.
THEOREM ResultsAreMeant == Spec => [](Telling(plan) => MergedAsPlanned)
<1>1. PlanInv => (Telling(plan) => MergedAsPlanned)
  BY HandlesMean DEF MergedAsPlanned
<1>2. QED
  BY <1>1, PlanInitial, PlanStep, PTL DEF Spec

-----------------------------------------------------------------------------
(***************************************************************************)
(* The verdict. The evaluation delivers when nothing in the plan is at     *)
(* fault, and only then: a rule whose turn never came, an operator that is *)
(* given something else than the plan says, or operands that are not there *)
(* would show as a wrong verdict.                                          *)
(***************************************************************************)
Verdict ==
  /\ status = "done" => Faultless(plan)
  /\ status = "failed" => ~Faultless(plan)

VerdictInv == Telling(plan) /\ OneRoot(plan) => Verdict

\* What was derived for a section is a handle of it.
LEMMA ResultIsHandle ==
  ASSUME NEW n, NEW q \in Results, q.id = Identifiers(plan)[n]
  PROVE  HandlesOf(n) # {}
<1>1. q.handle \in HandlesOf(n)
  BY DEF HandlesOf
<1>2. QED
  BY <1>1

\* A section has a handle when its rules have been evaluated.
LEMMA EverySectionMerged ==
  ASSUME PlanInv, Telling(plan), status = "evaluate", pending = {}, NEW n \in DOMAIN plan.nodes
  PROVE  HandlesOf(n) # {}
<1>1. program = GenerateCode(plan) /\ program.errors = 0 /\ RulesContributed
  BY DEF PlanInv, AssemblyInv
<1>2. plan \in Plans /\ BasesDefined(plan)
  BY DEF PlanInv, TypeOK, Telling
<1>3. CASE n \in Composed(plan)
  <2> PICK r : r = RuleOf(plan, n)
    OBVIOUS
  <2>1. r \in program.applications /\ r.head = Identifiers(plan)[n]
    BY <1>1, <1>3 DEF GenerateCode, ApplicationRules, RuleOf
  <2>2. PICK t \in applied : t.id = r.head
    BY <1>1, <2>1 DEF RulesContributed
  <2>3. t \in Results
    BY DEF Results
  <2>4. QED
    BY <2>1, <2>2, <2>3, ResultIsHandle
<1>4. CASE n \notin Composed(plan)
  <2>1. ErrorCount(plan) = 0
    BY <1>1 DEF GenerateCode
  <2>2. PICK s \in SourceRules(plan) : s.name = plan.nodes[n].name
    BY <1>2, <1>4, <2>1, DefinedBaseHasRule
  <2>3. PICK t \in sources : t.name = s.name
    BY <1>1, <2>2 DEF RulesContributed, GenerateCode
  <2> PICK u : u = [id |-> Identifiers(plan)[n], name |-> plan.nodes[n].name]
    OBVIOUS
  <2>4. u \in program.uses /\ u.id = Identifiers(plan)[n] /\ u.name = t.name
    BY <1>1, <1>4, <2>2, <2>3 DEF GenerateCode, UseRules, Composed
  <2> PICK q : q = [id |-> u.id, handle |-> t.handle]
    OBVIOUS
  <2>5. q \in Results /\ q.id = Identifiers(plan)[n]
    BY <2>4, UseGivesResult
  <2>6. QED
    BY <2>5, ResultIsHandle
<1>5. QED
  BY <1>3, <1>4

\* Nothing is at fault when all rules have been evaluated.
LEMMA EvaluatedIsFaultless ==
  ASSUME PlanInv, Telling(plan), status = "evaluate", pending = {}
  PROVE  Faultless(plan)
<1>1. program = GenerateCode(plan) /\ program.errors = 0 /\ RulesContributed
  BY DEF PlanInv, AssemblyInv
<1>2. plan \in Plans /\ ErrorCount(plan) = 0 /\ SourcesMean
  BY <1>1 DEF PlanInv, TypeOK, GenerateCode, MeaningInv
<1>3. ASSUME NEW i \in DOMAIN plan.bases
      PROVE  ~Contradictory(plan.bases[i]) /\ BaseProgram(plan.bases[i]) \notin Broken
  <2>1. ~Contradictory(plan.bases[i]) /\ plan.bases[i] \in ToSet(plan.bases)
    BY <1>2, NoContradiction DEF ToSet
  <2> PICK s : s = [name |-> LastValue(plan.bases[i], "name"), program |-> BaseProgram(plan.bases[i])]
    OBVIOUS
  <2>2. s \in program.sources /\ s.name = LastValue(plan.bases[i], "name")
    BY <1>1, <2>1 DEF GenerateCode, SourceRules
  <2>3. PICK t \in sources : t.name = s.name
    BY <1>1, <2>2 DEF RulesContributed
  <2>4. PICK b \in ToSet(plan.bases) :
          ~Contradictory(b) /\ BaseProgram(b) \notin Broken /\ t.name = LastValue(b, "name")
    BY <1>2 DEF SourcesMean
  <2>5. BaseProgram(b) = BaseProgram(plan.bases[i])
    BY <2>1, <2>2, <2>3, <2>4 DEF Telling, Unambiguous, BasesTell
  <2>6. QED
    BY <2>1, <2>4, <2>5
<1>4. ASSUME NEW n \in Composed(plan)
      PROVE  Accepted(n)
  <2>1. n \in DOMAIN plan.nodes /\ IsComposed(plan.nodes[n])
    BY DEF Composed
  <2>2. PICK h \in HandlesOf(n) : TRUE
    BY <2>1, EverySectionMerged
  <2>3. QED
    BY <2>1, <2>2, HandlesMean
<1>5. BasesDefined(plan)
  BY DEF Telling
<1>6. QED
  BY <1>3, <1>4, <1>5 DEF Faultless, Accepted, BasesDefined, SourcesOf

LEMMA ErrorIsFault ==
  ASSUME NEW p, ErrorCount(p) # 0
  PROVE  ~Faultless(p)
<1>1. {i \in DOMAIN p.bases : Contradictory(p.bases[i])} # {}
  BY FS_EmptySet DEF ErrorCount
<1>2. QED
  BY <1>1 DEF Faultless

LEMMA BrokenIsFault ==
  ASSUME NEW p, NEW r \in SourceRules(p), r.program \in Broken
  PROVE  ~Faultless(p)
<1>1. PICK b \in ToSet(p.bases) : r = [name |-> LastValue(b, "name"), program |-> BaseProgram(b)]
  BY DEF SourceRules
<1>2. BaseProgram(b) \in Broken
  BY <1>1
<1>3. PICK i \in DOMAIN p.bases : b = p.bases[i]
  BY DEF ToSet
<1>4. QED
  BY <1>2, <1>3 DEF Faultless

LEMMA RejectionIsFault ==
  ASSUME PlanInv, Telling(plan), NEW r \in pending, ApplyOperator(r), status' = "failed"
  PROVE  ~Faultless(plan)
<1>1. status = "evaluate" /\ r \in program.applications /\ InputComplete(r)
  BY DEF ApplyOperator
<1>2. program = GenerateCode(plan) /\ program.errors = 0 /\ RulesContributed /\ plan \in Plans
  BY <1>1 DEF PlanInv, AssemblyInv, TypeOK
<1>3. PICK n \in Composed(plan) : r = RuleOf(plan, n)
  BY <1>1, <1>2 DEF GenerateCode, ApplicationRules, RuleOf
<1>4. /\ r.operator = OperatorName(plan.nodes[n])
      /\ Cardinality(Positions(r)) = Len(SourcesOf(plan, n))
      /\ ParameterFactsOf(r.id) = Parameters(plan.nodes[n])
  <2>1. r.operator = OperatorName(plan.nodes[n])
    BY <1>3 DEF RuleOf
  <2>2. Cardinality(Positions(r)) = Len(SourcesOf(plan, n))
    BY <1>1, <1>2, <1>3, PositionsOfSection
  <2>3. ParameterFactsOf(r.id) = Parameters(plan.nodes[n])
    BY <1>2, <1>3, ParametersOfSection
  <2>4. QED
    BY <2>1, <2>2, <2>3
<1>5. \/ r.operator \notin Operators
      \/ ~Accepts(r.operator, Cardinality(Positions(r)), SetToSeq(ParameterFactsOf(r.id)))
  BY <1>1 DEF ApplyOperator, Fail
<1>6. ~Accepted(n)
  BY <1>4, <1>5 DEF Accepted
<1>7. QED
  BY <1>6 DEF Faultless, Accepted, SourcesOf

\* The final results are those of the root of the merging plan.
LEMMA FinalsOfRoot ==
  ASSUME program = GenerateCode(plan), OneRoot(plan), NEW r \in plan.roots
  PROVE  FinalHandles = HandlesOf(r)
<1>1. program.finals = {Identifiers(plan)[s] : s \in plan.roots}
  BY DEF GenerateCode
<1>2. program.finals = {Identifiers(plan)[r]}
  BY <1>1 DEF OneRoot
<1>3. QED
  BY <1>2 DEF FinalHandles, HandlesOf

LEMMA NoFinals ==
  ASSUME program = GenerateCode(plan), plan.roots = {}
  PROVE  FinalHandles = {}
<1>1. program.finals = {}
  BY DEF GenerateCode
<1>2. QED
  BY <1>1 DEF FinalHandles

\* A section has one handle.
LEMMA OneHandle ==
  ASSUME PlanInv, Telling(plan), status = "evaluate", pending = {}, NEW n \in DOMAIN plan.nodes
  PROVE  \E h \in DOMAIN store : HandlesOf(n) = {h} /\ store[h].answer = Meaning[n]
<1>1. PICK h \in HandlesOf(n) : TRUE
  BY EverySectionMerged
<1>2. h \in DOMAIN store /\ store[h].answer = Meaning[n]
  BY HandlesMean
<1>3. ASSUME NEW k \in HandlesOf(n)
      PROVE  k = h
  <2>1. PICK q \in Results : q.id = Identifiers(plan)[n] /\ q.handle = h
    BY <1>1 DEF HandlesOf
  <2>2. PICK r \in Results : r.id = Identifiers(plan)[n] /\ r.handle = k
    BY DEF HandlesOf
  <2>3. program = GenerateCode(plan) /\ SourcesOnce /\ AppliedOnce /\ TypeOK
    BY DEF PlanInv, UniqueInv, Telling
  <2>4. QED
    BY <2>1, <2>2, <2>3, ResultsTell DEF Telling
<1>4. HandlesOf(n) = {h}
  BY <1>1, <1>3
<1>5. QED
  BY <1>2, <1>4

\* Whatever number is chosen, the final result has an answer set for it.
LEMMA ExtractionSucceeds ==
  ASSUME PlanInv, Telling(plan), OneRoot(plan), Extract
  PROVE  status' = "done"
<1>1. status = "evaluate" /\ pending = {}
  BY DEF Extract
<1>2. program = GenerateCode(plan) /\ plan \in Plans
  BY <1>1 DEF PlanInv, AssemblyInv, TypeOK
<1> DEFINE numbers == UNION {AnswerSetNrs(h) : h \in FinalHandles}
<1>3. \A h \in FinalHandles : AnswerSetNrs(h) = numbers
  <2>1. CASE plan.roots = {}
    BY <1>2, <2>1, NoFinals
  <2>2. CASE plan.roots # {}
    <3>1. PICK r \in plan.roots : TRUE
      BY <2>2
    <3>2. r \in DOMAIN plan.nodes
      BY <1>2, PlansAssumption
    <3>3. PICK h : HandlesOf(r) = {h}
      BY <1>1, <3>2, OneHandle
    <3>4. FinalHandles = {h}
      BY <1>2, <3>3, FinalsOfRoot
    <3>5. QED
      BY <3>4
  <2>3. QED
    BY <2>1, <2>2
<1>4. QED
  BY <1>3 DEF Extract

LEMMA VerdictStep == PlanInv /\ VerdictInv /\ [Next]_vars => VerdictInv'
<1>1. SUFFICES ASSUME PlanInv, VerdictInv, [Next]_vars, Telling(plan)', OneRoot(plan)'
               PROVE  Verdict'
  BY DEF VerdictInv
<1>2. plan' = plan
  BY <1>1 DEF Next, Compile, EvaluateBeliefBase, ApplyOperator, Extract, Terminated, Fail, vars
<1>3. Telling(plan) /\ OneRoot(plan)
  <2>1. Telling(plan)' => Telling(plan)
    BY <1>2
  <2>2. OneRoot(plan)' => OneRoot(plan)
    BY <1>2
  <2>3. QED
    BY <1>1, <2>1, <2>2
<1>4. SUFFICES /\ status' = "done" => Faultless(plan)
               /\ status' = "failed" => ~Faultless(plan)
  BY <1>2 DEF Verdict
<1>5. Verdict /\ TypeOK
  BY <1>1, <1>3 DEF VerdictInv, PlanInv
<1>6. CASE Compile
  <2>1. status' = "failed" => ErrorCount(plan) # 0
    BY <1>6 DEF Compile, GenerateCode
  <2>2. status' # "done"
    BY <1>6 DEF Compile
  <2>3. QED
    BY <2>1, <2>2, ErrorIsFault
<1>7. ASSUME NEW r \in pending, EvaluateBeliefBase(r)
      PROVE  /\ status' = "done" => Faultless(plan)
             /\ status' = "failed" => ~Faultless(plan)
  <2>1. status = "evaluate" /\ r \in program.sources
    BY <1>7 DEF EvaluateBeliefBase
  <2>2. r \in SourceRules(plan)
    BY <1>1, <2>1 DEF PlanInv, AssemblyInv, GenerateCode
  <2>3. status' = "failed" => r.program \in Broken
    BY <1>7, <2>1 DEF EvaluateBeliefBase
  <2>4. status' # "done"
    BY <1>7, <2>1 DEF EvaluateBeliefBase, Fail
  <2>5. QED
    BY <2>2, <2>3, <2>4, BrokenIsFault
<1>8. ASSUME NEW r \in pending, ApplyOperator(r)
      PROVE  /\ status' = "done" => Faultless(plan)
             /\ status' = "failed" => ~Faultless(plan)
  <2>1. status' # "done"
    BY <1>8 DEF ApplyOperator, Fail
  <2>2. QED
    BY <1>1, <1>3, <1>8, <2>1, RejectionIsFault
<1>9. CASE Extract
  <2>1. status' = "done"
    BY <1>1, <1>3, <1>9, ExtractionSucceeds
  <2>2. status = "evaluate" /\ pending = {}
    BY <1>9 DEF Extract
  <2>3. QED
    BY <1>1, <1>3, <2>1, <2>2, EvaluatedIsFaultless
<1>10. CASE UNCHANGED vars
  BY <1>5, <1>10 DEF vars, Verdict
<1>11. QED
  BY <1>1, <1>6, <1>7, <1>8, <1>9, <1>10 DEF Next, Terminated

\* The evaluation of a compiled plan is completed only if nothing in the plan
\* is at fault, and an error or exception is reported only if something is:
\* a contradictory definition, a program that cannot be evaluated, an operator
\* that does not exist or that rejects what the plan gives it. In whatever
\* order dlvhex proceeds, no operator is called before or without an operand.
THEOREM VerdictIsRight == Spec => [](Telling(plan) /\ OneRoot(plan) => Verdict)
<1>1. Init => PlanInv /\ VerdictInv
  <2>1. Init => VerdictInv
    BY DEF Init, VerdictInv, Verdict
  <2>2. QED
    BY <2>1, PlanInitial
<1>2. PlanInv /\ VerdictInv /\ [Next]_vars => (PlanInv /\ VerdictInv)'
  BY PlanStep, VerdictStep
<1>3. QED
  BY <1>1, <1>2, PTL DEF Spec, VerdictInv

-----------------------------------------------------------------------------
(***************************************************************************)
(* The output.                                                             *)
(***************************************************************************)
\* What the extraction rules can deliver: no strongly negated literals, and no
\* more arguments than the common signature declares.
Transferable(a, t) ==
  a.pred = t.pred =>
    /\ Len(a.args) = t.arity => ~a.neg
    /\ ~a.neg /\ t.arity > 0 => Len(a.args) <= t.arity

TransferableLiterals ==
  Faultless(plan) =>
    \A r \in plan.roots : \A s \in Meaning[r] : \A a \in s : \A t \in plan.signature :
      Transferable(a, t)

\* The rules for a predicate, applied to an answer set, give its literals.
LEMMA TransferGives ==
  ASSUME NEW s \in SUBSET Atoms, NEW t, t.pred \in STRING, t.arity \in Nat,
         \A a \in s : Transferable(a, t)
  PROVE  Transfer(t, s) = {a \in s : a.pred = t.pred /\ Len(a.args) = t.arity}
<1>0. ASSUME NEW a \in s
      PROVE  /\ a = [neg |-> a.neg, pred |-> a.pred, args |-> a.args]
             /\ a.neg \in BOOLEAN /\ a.args \in Seq(STRING) /\ Len(a.args) \in Nat
  <2>1. a \in [neg : BOOLEAN, pred : STRING, args : Seq(STRING)]
    BY LiteralsAssumption
  <2>2. QED
    BY <2>1
<1>1. ASSUME NEW a \in s
      PROVE  Symbol(a) = SymbolOf(t.pred) <=> a.pred = t.pred /\ a.neg = FALSE
  BY DEF Symbol, SymbolOf
<1>2. CASE t.arity > 0
  <2> DEFINE Long == {q \in Arguments(s, t.pred) : Len(q.args) >= t.arity}
  <2>1. ASSUME NEW a \in s, a.pred = t.pred, Len(a.args) = t.arity
        PROVE  a \in Transfer(t, s)
    <3>1. ~a.neg
      BY <2>1 DEF Transferable
    <3>2. a.neg = FALSE
      BY <1>0, <3>1
    <3> PICK o : o = [sign |-> 0, args |-> a.args]
      OBVIOUS
    <3>3. o \in Long /\ o.sign = 0 /\ o.args = a.args
      <4>1. Symbol(a) = SymbolOf(t.pred)
        BY <1>1, <2>1, <3>2
      <4>2. o \in Arguments(s, t.pred)
        BY <4>1 DEF Arguments
      <4>3. o.args = a.args /\ Len(o.args) >= t.arity
        BY <1>0, <2>1
      <4>4. QED
        BY <4>2, <4>3
    <3>4. SubSeq(o.args, 1, t.arity) = a.args
      BY <1>0, <2>1, <3>3
    <3>5. Atom(o.sign = 1, t.pred, SubSeq(o.args, 1, t.arity)) = a
      BY <1>0, <2>1, <3>2, <3>3, <3>4 DEF Atom
    <3>6. QED
      BY <1>2, <3>3, <3>5 DEF Transfer
  <2>2. ASSUME NEW x \in Transfer(t, s)
        PROVE  x \in s /\ x.pred = t.pred /\ Len(x.args) = t.arity
    <3>1. PICK o \in Long : x = Atom(o.sign = 1, t.pred, SubSeq(o.args, 1, t.arity))
      BY <1>2 DEF Transfer
    <3>2. PICK a \in s : Symbol(a) = SymbolOf(t.pred) /\ o = [sign |-> 0, args |-> a.args]
      BY DEF Arguments
    <3>3. a.pred = t.pred /\ a.neg = FALSE /\ o.sign = 0 /\ o.args = a.args
      BY <1>1, <3>2
    <3>4. Len(a.args) = t.arity
      BY <1>0, <1>2, <3>3 DEF Transferable
    <3>5. SubSeq(o.args, 1, t.arity) = a.args
      BY <1>0, <3>3, <3>4
    <3>6. x = a
      BY <1>0, <3>1, <3>3, <3>5 DEF Atom
    <3>7. QED
      BY <3>3, <3>4, <3>6
  <2>3. QED
    BY <2>1, <2>2
<1>3. CASE t.arity = 0
  <2> DEFINE Plain == {q \in Arguments(s, t.pred) :
                         q.sign = 0 /\ [pred |-> t.pred, arity |-> 0] \in Predicates(s)}
  <2>1. Transfer(t, s) = {Atom(FALSE, t.pred, <<>>) : o \in Plain}
    BY <1>3 DEF Transfer
  <2>2. ASSUME NEW a \in s, a.pred = t.pred, Len(a.args) = t.arity
        PROVE  a \in Transfer(t, s)
    <3>1. ~a.neg
      BY <2>2 DEF Transferable
    <3>2. a.neg = FALSE /\ a.args = <<>>
      BY <1>0, <1>3, <2>2, <3>1
    <3> PICK o : o = [sign |-> 0, args |-> a.args]
      OBVIOUS
    <3>3. ~Symbol(a).auxiliary
      BY <3>2 DEF Symbol
    <3>4. [pred |-> t.pred, arity |-> 0] \in Predicates(s)
      BY <1>3, <2>2, <3>3 DEF Predicates
    <3>5. o \in Plain
      BY <1>1, <2>2, <3>2, <3>4 DEF Arguments
    <3>6. a = Atom(FALSE, t.pred, <<>>)
      BY <1>0, <2>2, <3>2 DEF Atom
    <3>7. QED
      BY <2>1, <3>5, <3>6
  <2>3. ASSUME NEW x \in Transfer(t, s)
        PROVE  x \in s /\ x.pred = t.pred /\ Len(x.args) = t.arity
    <3>1. x = Atom(FALSE, t.pred, <<>>) /\ [pred |-> t.pred, arity |-> 0] \in Predicates(s)
      BY <2>1
    <3>2. PICK a \in s :
            ~Symbol(a).auxiliary /\ [pred |-> t.pred, arity |-> 0] = [pred |-> a.pred, arity |-> Len(a.args)]
      BY <3>1 DEF Predicates
    <3>3. a.pred = t.pred /\ Len(a.args) = 0 /\ a.neg = FALSE
      BY <1>0, <3>2 DEF Symbol
    <3>4. a.args = <<>>
      BY <1>0, <3>3
    <3>5. x = a
      BY <1>0, <3>1, <3>3, <3>4 DEF Atom
    <3>6. QED
      BY <1>3, <3>3, <3>5
  <2>4. QED
    BY <2>2, <2>3
<1>4. QED
  BY <1>2, <1>3

LEMMA TransferredIsRelevant ==
  ASSUME plan \in Plans, program = GenerateCode(plan), NEW s \in SUBSET Atoms,
         \A a \in s : \A t \in plan.signature : Transferable(a, t)
  PROVE  Transferred(s) = Task!Relevant(s)
<1>1. program.transfers = plan.signature
  BY DEF GenerateCode
<1>2. \A t \in plan.signature : t = [pred |-> t.pred, arity |-> t.arity] /\ t.pred \in STRING /\ t.arity \in Nat
  <2>1. TAKE t \in plan.signature
  <2>2. t \in [pred : STRING, arity : Nat]
    BY LiteralsAssumption
  <2>3. QED
    BY <2>2
<1>3. ASSUME NEW t \in plan.signature
      PROVE  Transfer(t, s) = {a \in s : a.pred = t.pred /\ Len(a.args) = t.arity}
  BY <1>2, TransferGives
<1> DEFINE F(t) == Transfer(t, s)
<1>4. Transferred(s) = UNION {F(t) : t \in plan.signature}
  BY <1>1 DEF Transferred
<1>5. ASSUME NEW a \in Transferred(s)
      PROVE  a \in Task!Relevant(s)
  <2>1. PICK t \in plan.signature : a \in F(t)
    <3> HIDE DEF F
    <3>1. QED
      BY <1>4
  <2>2. a \in s /\ a.pred = t.pred /\ Len(a.args) = t.arity
    BY <1>3, <2>1
  <2>3. [pred |-> a.pred, arity |-> Len(a.args)] \in plan.signature
    BY <1>2, <2>2
  <2>4. QED
    BY <2>2, <2>3 DEF Task!Relevant
<1>6. ASSUME NEW a \in Task!Relevant(s)
      PROVE  a \in Transferred(s)
  <2> PICK t : t = [pred |-> a.pred, arity |-> Len(a.args)]
    OBVIOUS
  <2>1. a \in s /\ t \in plan.signature /\ a.pred = t.pred /\ Len(a.args) = t.arity
    BY DEF Task!Relevant
  <2>2. a \in F(t)
    BY <1>3, <2>1
  <2> HIDE DEF F
  <2>3. QED
    BY <1>4, <2>1, <2>2
<1>7. QED
  BY <1>5, <1>6

\* The extraction delivers the literals of the final answer.
LEMMA ExtractionDelivers ==
  ASSUME PlanInv, Telling(plan), OneRoot(plan), TransferableLiterals, Extract
  PROVE  output' = [delivered |-> TRUE,
                    sets |-> {Task!Relevant(s) : s \in UNION {Meaning[r] : r \in plan.roots}}]
<1>1. status = "evaluate" /\ pending = {}
  BY DEF Extract
<1>2. program = GenerateCode(plan) /\ plan \in Plans /\ TypeOK
  BY <1>1 DEF PlanInv, AssemblyInv, TypeOK
<1>3. Faultless(plan)
  BY <1>1, EvaluatedIsFaultless
<1> DEFINE numbers == UNION {AnswerSetNrs(h) : h \in FinalHandles}
           Set(h, k) == SetToSeq(store[h].answer)[k]
           Joined(k) == UNION {Transferred(Set(h, k)) : h \in FinalHandles}
<1>4. output' = [delivered |-> TRUE, sets |-> {Joined(k) : k \in numbers}]
  <2>1. ~Fail("failed")
    BY <1>1, ExtractionSucceeds DEF Fail
  <2>2. QED
    BY <2>1 DEF Extract
<1>5. CASE plan.roots = {}
  <2>1. FinalHandles = {}
    BY <1>2, <1>5, NoFinals
  <2>2. {Joined(k) : k \in numbers} = {}
    BY <2>1
  <2>3. {Task!Relevant(s) : s \in UNION {Meaning[r] : r \in plan.roots}} = {}
    BY <1>5
  <2> HIDE DEF numbers, Joined
  <2>4. QED
    BY <1>4, <2>2, <2>3
<1>6. CASE plan.roots # {}
  <2>1. PICK r \in plan.roots : TRUE
    BY <1>6
  <2>2. r \in DOMAIN plan.nodes /\ plan.roots = {r}
    BY <1>2, <2>1, PlansAssumption DEF OneRoot
  <2>3. PICK h \in DOMAIN store : HandlesOf(r) = {h} /\ store[h].answer = Meaning[r]
    BY <1>1, <2>2, OneHandle
  <2>4. FinalHandles = {h}
    BY <1>2, <2>1, <2>3, FinalsOfRoot
  <2> DEFINE A == Meaning[r]
  <2>5. A \in Answers
    <3>1. store \in Seq(Entries)
      BY <1>2 DEF TypeOK, Entries
    <3>2. store[h] \in Entries
      BY <2>3, <3>1
    <3>3. QED
      BY <2>3, <3>2 DEF Entries
  <2>6. IsFiniteSet(A)
    <3>1. IsFiniteSet(SUBSET Atoms)
      BY LiteralsAssumption, FS_SUBSET
    <3>2. QED
      BY <2>5, <3>1, FS_Subset DEF Answers
  <2>7. /\ SetToSeq(A) \in [1 .. Cardinality(A) -> A]
        /\ Range(SetToSeq(A)) = A
    BY <2>6, SetListed
  <2>8. numbers = 1 .. Cardinality(A)
    BY <2>3, <2>4 DEF AnswerSetNrs
  <2>9. ASSUME NEW k \in numbers
        PROVE  SetToSeq(A)[k] \in A /\ Joined(k) = Task!Relevant(SetToSeq(A)[k])
    <3>1. SetToSeq(A)[k] \in A
      BY <2>7, <2>8
    <3>2. Joined(k) = Transferred(SetToSeq(A)[k])
      BY <2>3, <2>4
    <3>3. \A a \in SetToSeq(A)[k] : \A t \in plan.signature : Transferable(a, t)
      BY <1>3, <2>1, <3>1 DEF TransferableLiterals
    <3>4. SetToSeq(A)[k] \in SUBSET Atoms
      BY <2>5, <3>1 DEF Answers
    <3>5. QED
      BY <1>2, <3>1, <3>2, <3>3, <3>4, TransferredIsRelevant
  <2>10. \A s \in A : \E k \in numbers : s = SetToSeq(A)[k]
    BY <2>7, <2>8 DEF Range
  <2>11. {Joined(k) : k \in numbers} = {Task!Relevant(s) : s \in A}
    <3> HIDE DEF numbers, Joined, A
    <3>1. QED
      BY <2>9, <2>10
  <2>12. UNION {Meaning[q] : q \in plan.roots} = A
    BY <2>2
  <2> HIDE DEF numbers, Joined, A
  <2>13. QED
    BY <1>4, <2>11, <2>12
<1>7. QED
  BY <1>5, <1>6

-----------------------------------------------------------------------------
(***************************************************************************)
(* The refinement. Each evaluation of a rule merges the sections that wait *)
(* for it, the extraction delivers, and nothing else is seen.              *)
(***************************************************************************)
\* The operators of the abstract specification are those of this one.
LEMMA SameOperators ==
  /\ \A node : Task!IsComposed(node) <=> IsComposed(node)
  /\ \A node : Task!OperatorName(node) = OperatorName(node)
  /\ \A node : Task!Parameters(node) = Parameters(node)
  /\ \A s : Task!ToSet(s) = ToSet(s)
  /\ \A s : Task!SetToSeq(s) = SetToSeq(s)
  /\ \A b, k : Task!LastValue(b, k) = LastValue(b, k)
  /\ \A b : Task!BaseProgram(b) = BaseProgram(b)
  /\ Task!Operators = Operators
  /\ \A op, n, kv : Task!Accepts(op, n, kv) <=> Accepts(op, n, kv)
  /\ \A op, inputs, kv : Task!Apply(op, inputs, kv) = Apply(op, inputs, kv)
<1>1. ASSUME NEW node PROVE Task!IsComposed(node) <=> IsComposed(node)
  BY DEF Task!IsComposed, IsComposed
<1>2. ASSUME NEW b, NEW k PROVE Task!LastValue(b, k) = LastValue(b, k)
  BY DEF Task!LastValue, LastValue, Task!Values, Values, Task!Last, Last
<1>3. ASSUME NEW node PROVE Task!OperatorName(node) = OperatorName(node)
  BY <1>2 DEF Task!OperatorName, OperatorName
<1>4. ASSUME NEW node PROVE Task!Parameters(node) = Parameters(node)
  BY DEF Task!Parameters, Parameters, Task!ToSet, ToSet
<1>5. ASSUME NEW s PROVE Task!ToSet(s) = ToSet(s)
  BY DEF Task!ToSet, ToSet
<1>6. ASSUME NEW s PROVE Task!SetToSeq(s) = SetToSeq(s)
  BY DEF Task!SetToSeq, SetToSeq, Task!IsInjective, IsInjective, Task!Cardinality, Cardinality
<1>7. Task!Operators = Operators
  BY DEF Task!Operators, Operators, Task!BuiltIn, BuiltIn
<1>8. ASSUME NEW op, NEW n, NEW kv PROVE Task!Accepts(op, n, kv) <=> Accepts(op, n, kv)
  BY DEF Task!Accepts, Accepts, Task!BuiltIn, BuiltIn
<1>9. ASSUME NEW op, NEW inputs, NEW kv PROVE Task!Apply(op, inputs, kv) = Apply(op, inputs, kv)
  BY DEF Task!Apply, Apply, Task!OpUnion, OpUnion, Task!OpSetminus, OpSetminus,
         Task!UserOperator, UserOperator, Task!Range, Range
<1>10. ASSUME NEW b PROVE Task!BaseProgram(b) = BaseProgram(b)
  BY DEF Task!BaseProgram, BaseProgram, Task!Values, Values
<1>11. QED
  BY <1>1, <1>2, <1>3, <1>4, <1>5, <1>6, <1>7, <1>8, <1>9, <1>10

LEMMA TaskReady ==
  ASSUME NEW n,
         IsComposed(plan.nodes[n]) =>
           Accepted(n) /\ ToSet(SourcesOf(plan, n)) \subseteq DOMAIN MergedAnswers,
         ~IsComposed(plan.nodes[n]) =>
           \E i \in DOMAIN plan.bases : LastValue(plan.bases[i], "name") = plan.nodes[n].name
  PROVE  Task!Ready(n)
<1>1. CASE IsComposed(plan.nodes[n])
  BY <1>1, SameOperators DEF Task!Ready, Accepted, SourcesOf
<1>2. CASE ~IsComposed(plan.nodes[n])
  BY <1>2, SameOperators DEF Task!Ready
<1>3. QED
  BY <1>1, <1>2

LEMMA TaskResult ==
  ASSUME NEW n
  PROVE  Task!Result(n) = AnswerFrom(plan, MergedAnswers, n)
<1>1. CASE IsComposed(plan.nodes[n])
  BY <1>1, SameOperators DEF Task!Result, AnswerFrom, SourcesOf
<1>2. CASE ~IsComposed(plan.nodes[n])
  <2>1. (CHOOSE i \in DOMAIN plan.bases : Task!LastValue(plan.bases[i], "name") = plan.nodes[n].name)
          = CHOOSE i \in DOMAIN plan.bases : LastValue(plan.bases[i], "name") = plan.nodes[n].name
    BY DEF Task!LastValue, LastValue, Task!Values, Values, Task!Last, Last
  <2>2. Task!Result(n) = Content[BaseProgram(plan.bases[
          CHOOSE i \in DOMAIN plan.bases : LastValue(plan.bases[i], "name") = plan.nodes[n].name])]
    BY <1>2, <2>1, SameOperators DEF Task!Result
  <2>3. QED
    BY <1>2, <2>2 DEF AnswerFrom, BaseOf
<1>3. QED
  BY <1>1, <1>2

\* The answers that are merged so far are those of the plan.
LEMMA MergedMeans ==
  PlanInv /\ Telling(plan) =>
    /\ MergedAnswers = [n \in MergedSections |-> Meaning[n]]
    /\ \A n \in MergedSections : IsComposed(plan.nodes[n]) => Accepted(n)
<1>1. SUFFICES ASSUME PlanInv, Telling(plan)
               PROVE  /\ MergedAnswers = [n \in MergedSections |-> Meaning[n]]
                      /\ \A n \in MergedSections : IsComposed(plan.nodes[n]) => Accepted(n)
  OBVIOUS
<1>2. ASSUME NEW n \in MergedSections
      PROVE  /\ store[CHOOSE h \in HandlesOf(n) : TRUE].answer = Meaning[n]
             /\ IsComposed(plan.nodes[n]) => Accepted(n)
  <2>1. n \in DOMAIN plan.nodes /\ HandlesOf(n) # {}
    BY DEF MergedSections
  <2>2. (CHOOSE h \in HandlesOf(n) : TRUE) \in HandlesOf(n)
    BY <2>1
  <2>3. QED
    BY <1>1, <2>1, <2>2, HandlesMean
<1>3. QED
  BY <1>2 DEF MergedAnswers

LEMMA MergedMeansNext ==
  (PlanInv /\ Telling(plan))' =>
    /\ MergedAnswers' = [n \in MergedSections' |-> Meaning'[n]]
    /\ \A n \in MergedSections' : IsComposed(plan'.nodes[n]) => Accepted(n)'
<1>1. (PlanInv /\ Telling(plan) =>
         /\ MergedAnswers = [n \in MergedSections |-> Meaning[n]]
         /\ \A n \in MergedSections : IsComposed(plan.nodes[n]) => Accepted(n))'
  BY MergedMeans, PTL
<1>2. QED
  BY <1>1

LEMMA ResultOriginNext ==
  \A q \in Results' :
    \/ q \in applied'
    \/ \E u \in program'.uses : \E t \in sources' :
         t.name = u.name /\ q.id = u.id /\ q.handle = t.handle
<1>1. \A q \in Results :
        \/ q \in applied
        \/ \E u \in program.uses : \E t \in sources :
             t.name = u.name /\ q.id = u.id /\ q.handle = t.handle
  BY ResultOrigin
<1>2. (\A q \in Results :
         \/ q \in applied
         \/ \E u \in program.uses : \E t \in sources :
              t.name = u.name /\ q.id = u.id /\ q.handle = t.handle)'
  BY <1>1, PTL
<1>3. QED
  BY <1>2

\* What makes a section merged is derived in this step.
LEMMA NewResult ==
  ASSUME plan' = plan, program' = program,
         NEW n \in DOMAIN plan.nodes, HandlesOf(n) = {}, HandlesOf(n)' # {}
  PROVE  \/ \E q \in applied' \ applied : q.id = Identifiers(plan)[n]
         \/ \E u \in program.uses : \E t \in sources' \ sources :
              t.name = u.name /\ u.id = Identifiers(plan)[n]
<1>1. PICK q \in Results' : q.id = Identifiers(plan)[n]
  BY DEF HandlesOf
<1>2. CASE q \in applied'
  <2>1. CASE q \in applied
    <3>1. q \in Results
      BY <2>1 DEF Results
    <3>2. QED
      BY <1>1, <3>1, ResultIsHandle
  <2>2. QED
    BY <1>1, <1>2, <2>1
<1>3. CASE \E u \in program'.uses : \E t \in sources' :
             t.name = u.name /\ q.id = u.id /\ q.handle = t.handle
  <2>1. PICK u \in program.uses, t \in sources' : t.name = u.name /\ q.id = u.id
    BY <1>3
  <2>2. CASE t \in sources
    <3> PICK z : z = [id |-> u.id, handle |-> t.handle]
      OBVIOUS
    <3>1. z \in Results /\ z.id = Identifiers(plan)[n]
      BY <1>1, <2>1, <2>2, UseGivesResult
    <3>2. QED
      BY <3>1, ResultIsHandle
  <2>3. QED
    BY <1>1, <2>1, <2>2
<1>4. QED
  BY <1>1, <1>2, <1>3, ResultOriginNext

\* The evaluation of a belief base merges no section of an operator.
LEMMA EvaluateMerges ==
  ASSUME PlanInv, Telling(plan), NEW r \in pending, EvaluateBeliefBase(r),
         NEW n \in DOMAIN plan.nodes, HandlesOf(n) = {}, HandlesOf(n)' # {}
  PROVE  ~IsComposed(plan.nodes[n])
<1>1. plan' = plan /\ program' = program /\ applied' = applied /\ status = "evaluate"
  BY DEF EvaluateBeliefBase, Fail
<1>2. program = GenerateCode(plan) /\ plan \in Plans
  BY <1>1 DEF PlanInv, AssemblyInv, TypeOK
<1>3. PICK u \in program.uses : u.id = Identifiers(plan)[n]
  BY <1>1, NewResult
<1>4. PICK m \in DOMAIN plan.nodes :
        ~IsComposed(plan.nodes[m]) /\ u = [id |-> Identifiers(plan)[m], name |-> plan.nodes[m].name]
  BY <1>2 DEF GenerateCode, UseRules
<1>5. Identifiers(plan)[m] = Identifiers(plan)[n]
  BY <1>3, <1>4
<1>6. QED
  BY <1>2, <1>4, <1>5, IdentifiersTell DEF Telling, Unambiguous

\* An operator is applied when the sections it is for have merged sources.
LEMMA ApplyMerges ==
  ASSUME PlanInv, Telling(plan), NEW r \in pending, ApplyOperator(r),
         NEW n \in DOMAIN plan.nodes, HandlesOf(n) = {}, HandlesOf(n)' # {}
  PROVE  /\ IsComposed(plan.nodes[n])
         /\ ToSet(SourcesOf(plan, n)) \subseteq MergedSections
<1>1. /\ plan' = plan /\ program' = program /\ sources' = sources /\ status = "evaluate"
      /\ r \in program.applications /\ InputComplete(r)
  BY DEF ApplyOperator, Fail
<1>2. program = GenerateCode(plan) /\ program.errors = 0 /\ RulesContributed /\ plan \in Plans
  BY <1>1 DEF PlanInv, AssemblyInv, TypeOK
<1>3. PICK q \in applied' \ applied : q.id = Identifiers(plan)[n]
  BY <1>1, NewResult
<1>4. q.id = r.head
  <2>1. ~Fail("failed") /\ ~Fail("corrupted")
    BY <1>3 DEF Fail
  <2>2. PICK h : applied' = applied \cup {[id |-> r.head, handle |-> h]}
    BY <2>1 DEF ApplyOperator
  <2>3. q = [id |-> r.head, handle |-> h]
    BY <1>3, <2>2
  <2>4. QED
    BY <2>3
<1>5. PICK m \in Composed(plan) : r = RuleOf(plan, m)
  BY <1>1, <1>2 DEF GenerateCode, ApplicationRules, RuleOf
<1>6. r.head = Identifiers(plan)[m] /\ r.id = IdOfArguments(plan, m)
  BY <1>5 DEF RuleOf
<1>7. n \in Composed(plan) /\ IdOfArguments(plan, m) = IdOfArguments(plan, n)
  <2>1. Identifiers(plan)[m] = Identifiers(plan)[n]
    BY <1>3, <1>4, <1>6
  <2>2. QED
    BY <1>2, <2>1, SameIdentifier
<1>8. ASSUME NEW i \in DOMAIN SourcesOf(plan, n)
      PROVE  SourcesOf(plan, n)[i] \in MergedSections
  <2> PICK a : a = [id |-> IdOfArguments(plan, n), pos |-> Position(i),
                    from |-> Identifiers(plan)[SourcesOf(plan, n)[i]]]
    OBVIOUS
  <2>1. a \in program.arguments /\ a.id = r.id /\ a.from = Identifiers(plan)[SourcesOf(plan, n)[i]]
    BY <1>2, <1>6, <1>7 DEF GenerateCode, ArgumentRules, SourcesOf
  <2>2. PICK z \in Results : z.id = a.from
    BY <1>1, <1>2, <2>1, SourceHasResult DEF Telling
  <2>3. SourcesOf(plan, n)[i] \in DOMAIN plan.nodes
    BY <1>2, <1>7, SourcesBefore
  <2>4. QED
    BY <2>1, <2>2, <2>3, ResultIsHandle DEF MergedSections
<1>9. QED
  BY <1>7, <1>8 DEF Composed, ToSet

\* What has been derived stays.
LEMMA MergedStay ==
  ASSUME plan' = plan, program' = program, sources \subseteq sources', applied \subseteq applied'
  PROVE  MergedSections \subseteq MergedSections'
<1> DEFINE F(u) == {[id |-> u.id, handle |-> s.handle] : s \in {t \in sources : t.name = u.name}}
           G(u) == {[id |-> u.id, handle |-> s.handle] : s \in {t \in sources' : t.name = u.name}}
<1>1. \A u \in program.uses : F(u) \subseteq G(u)
  OBVIOUS
<1>2. Results = applied \cup UNION {F(u) : u \in program.uses}
  BY DEF Results
<1>3. Results' = applied' \cup UNION {G(u) : u \in program.uses}
  BY DEF Results
<1>4. Results \subseteq Results'
  <2> HIDE DEF F, G
  <2>1. QED
    BY <1>1, <1>2, <1>3
<1>5. \A n \in DOMAIN plan.nodes : HandlesOf(n) \subseteq HandlesOf(n)'
  BY <1>4 DEF HandlesOf
<1>6. QED
  BY <1>5 DEF MergedSections

LEMMA MergingStep ==
  ASSUME PlanInv, (PlanInv /\ Telling(plan))', Telling(plan), plan' = plan, output' = output,
         MergedSections \subseteq MergedSections',
         \A n \in MergedSections' \ MergedSections : IsComposed(plan.nodes[n]) =>
           ToSet(SourcesOf(plan, n)) \subseteq MergedSections
  PROVE  [Task!TaskNext]_(Task!taskVars)
<1> DEFINE N == MergedSections' \ MergedSections
<1>1. plan \in Plans /\ Meaning' = Meaning
  BY MeaningStays DEF PlanInv, TypeOK
<1>2. MergedAnswers = [n \in MergedSections |-> Meaning[n]]
  BY MergedMeans
<1>3. MergedAnswers' = [n \in MergedSections' |-> Meaning[n]]
  BY <1>1, MergedMeansNext
<1>4. MergedSections' \subseteq DOMAIN plan.nodes
  BY DEF MergedSections
<1>5. CASE N = {}
  <2>1. MergedSections' = MergedSections
    BY <1>5
  <2>2. MergedAnswers' = MergedAnswers
    BY <1>2, <1>3, <2>1
  <2>3. QED
    BY <2>2 DEF Task!taskVars
<1>6. CASE N # {}
  <2>1. ASSUME NEW n \in N
        PROVE  Task!Ready(n)
    <3>1. n \in DOMAIN plan.nodes
      BY <1>4
    <3>2. IsComposed(plan.nodes[n]) => Accepted(n)
      BY MergedMeansNext, AcceptedStays
    <3>3. IsComposed(plan.nodes[n]) => ToSet(SourcesOf(plan, n)) \subseteq DOMAIN MergedAnswers
      BY <1>2
    <3>4. ~IsComposed(plan.nodes[n]) =>
            \E i \in DOMAIN plan.bases : LastValue(plan.bases[i], "name") = plan.nodes[n].name
      BY <3>1 DEF Telling, BasesDefined, Composed
    <3>5. QED
      BY <3>2, <3>3, <3>4, TaskReady
  <2>2. ASSUME NEW n \in N
        PROVE  Task!Result(n) = Meaning[n]
    <3>1. n \in DOMAIN plan.nodes
      BY <1>4
    <3>2. ASSUME IsComposed(plan.nodes[n])
          PROVE  \A i \in DOMAIN SourcesOf(plan, n) :
                   MergedAnswers[SourcesOf(plan, n)[i]] = Meaning[SourcesOf(plan, n)[i]]
      <4>1. ToSet(SourcesOf(plan, n)) \subseteq MergedSections
        BY <3>2
      <4>2. \A i \in DOMAIN SourcesOf(plan, n) : SourcesOf(plan, n)[i] \in MergedSections
        BY <4>1 DEF ToSet
      <4>3. QED
        BY <1>2, <4>2
    <3>3. AnswerFrom(plan, MergedAnswers, n) = AnswerFrom(plan, Meaning, n)
      BY <1>1, <3>1, <3>2, AnswerIsLocal
    <3>4. QED
      BY <1>1, <3>1, <3>3, TaskResult, MeaningAt
  <2>3. N \in SUBSET (DOMAIN plan.nodes \ DOMAIN MergedAnswers)
    BY <1>2, <1>4
  <2>4. MergedAnswers' = [n \in DOMAIN MergedAnswers \cup N |->
                            IF n \in N THEN Task!Result(n) ELSE MergedAnswers[n]]
    <3>1. DOMAIN MergedAnswers \cup N = MergedSections'
      BY <1>2
    <3>2. \A n \in MergedSections' :
            Meaning[n] = IF n \in N THEN Task!Result(n) ELSE MergedAnswers[n]
      BY <1>2, <2>2
    <3>3. QED
      BY <1>3, <3>1, <3>2
  <2>5. Task!Merge
    <3> HIDE DEF N
    <3>1. QED
      BY <1>6, <2>1, <2>3, <2>4 DEF Task!Merge
  <2>6. QED
    BY <2>5 DEF Task!TaskNext
<1>7. QED
  BY <1>5, <1>6

LEMMA DeliveringStep ==
  ASSUME PlanInv, (PlanInv /\ Telling(plan))', Telling(plan), OneRoot(plan), TransferableLiterals,
         output = NotDelivered, Extract
  PROVE  Task!Deliver
<1>1. status = "evaluate" /\ pending = {} /\ UNCHANGED <<plan, program, sources, applied>>
  BY DEF Extract, Fail
<1>2. plan \in Plans
  BY DEF PlanInv, TypeOK
<1>3. MergedSections = DOMAIN plan.nodes
  BY <1>1, EverySectionMerged DEF MergedSections
<1>4. MergedAnswers = [n \in MergedSections |-> Meaning[n]]
  BY MergedMeans
<1>5. plan.roots \subseteq DOMAIN MergedAnswers
  BY <1>2, <1>3, <1>4, PlansAssumption
<1>6. MergedAnswers' = MergedAnswers
  <2>1. Results' = Results
    BY <1>1 DEF Results
  <2>2. \A n : HandlesOf(n)' = HandlesOf(n)
    BY <1>1, <2>1 DEF HandlesOf
  <2>3. MergedSections' = MergedSections
    BY <1>1, <2>2 DEF MergedSections
  <2>4. QED
    BY <1>1, <1>4, <2>3, MergedMeansNext, MeaningStays
<1>7. \A r \in plan.roots : MergedAnswers[r] = Meaning[r]
  BY <1>4, <1>5
<1>8. {MergedAnswers[r] : r \in plan.roots} = {Meaning[r] : r \in plan.roots}
  BY <1>7
<1>9. output' = [delivered |-> TRUE,
                 sets |-> {Task!Relevant(s) : s \in UNION {MergedAnswers[r] : r \in plan.roots}}]
  BY <1>8, ExtractionDelivers
<1>10. ~output.delivered
  BY DEF NotDelivered
<1>11. QED
  BY <1>1, <1>5, <1>6, <1>9, <1>10 DEF Task!Deliver

\* What the last two theorems need of the plan of a behaviour.
Deliverable == Telling(plan) /\ OneRoot(plan) /\ TransferableLiterals

\* Nothing is delivered before the end.
OutputInv == status # "done" => output = NotDelivered

LiteralsInv == Deliverable => LiteralsDelivered

LEMMA PlanKept ==
  ASSUME [Next]_vars
  PROVE  plan' = plan
BY DEF Next, Compile, EvaluateBeliefBase, ApplyOperator, Extract, Terminated, Fail, vars

LEMMA DeliverableStays ==
  ASSUME plan' = plan
  PROVE  Deliverable' <=> Deliverable
<1>1. Meaning' = Meaning
  BY MeaningStays
<1>2. TransferableLiterals' <=> TransferableLiterals
  BY <1>1 DEF TransferableLiterals
<1>3. Telling(plan)' <=> Telling(plan)
  OBVIOUS
<1>4. OneRoot(plan)' <=> OneRoot(plan)
  OBVIOUS
<1>5. QED
  BY <1>2, <1>3, <1>4 DEF Deliverable

LEMMA OutputStep == OutputInv /\ [Next]_vars => OutputInv'
<1>1. SUFFICES ASSUME OutputInv, [Next]_vars PROVE OutputInv'
  OBVIOUS
<1>2. CASE Compile
  BY <1>1, <1>2 DEF Compile, OutputInv
<1>3. CASE \E r \in pending : EvaluateBeliefBase(r)
  BY <1>1, <1>3 DEF EvaluateBeliefBase, Fail, OutputInv
<1>4. CASE \E r \in pending : ApplyOperator(r)
  BY <1>1, <1>4 DEF ApplyOperator, Fail, OutputInv
<1>5. CASE Extract
  <2>1. status = "evaluate"
    BY <1>5 DEF Extract
  <2>2. status' = "done" \/ output' = output
    BY <1>5 DEF Extract, Fail
  <2>3. QED
    BY <1>1, <2>1, <2>2 DEF OutputInv
<1>6. CASE UNCHANGED vars
  BY <1>1, <1>6 DEF vars, OutputInv
<1>7. QED
  BY <1>1, <1>2, <1>3, <1>4, <1>5, <1>6 DEF Next, Terminated

LEMMA LiteralsStep == PlanInv /\ LiteralsInv /\ [Next]_vars => LiteralsInv'
<1>1. SUFFICES ASSUME PlanInv, LiteralsInv, [Next]_vars, Deliverable', status' = "done",
                      NEW r \in plan.roots
               PROVE  output'.sets = {Task!Relevant(s) : s \in Meaning[r]}
  <2>1. ASSUME [Next]_vars
        PROVE  /\ plan' = plan /\ Meaning' = Meaning
               /\ \A s : Task!Relevant(s)' = Task!Relevant(s)
    BY <2>1, PlanKept, MeaningStays DEF Task!Relevant
  <2>2. QED
    BY <2>1 DEF LiteralsInv, LiteralsDelivered
<1>2. plan' = plan /\ Deliverable
  BY <1>1, PlanKept, DeliverableStays
<1>3. CASE Extract
  <2>1. output' = [delivered |-> TRUE,
                   sets |-> {Task!Relevant(s) : s \in UNION {Meaning[q] : q \in plan.roots}}]
    BY <1>1, <1>2, <1>3, ExtractionDelivers DEF Deliverable
  <2>2. plan.roots = {r}
    BY <1>1, <1>2 DEF Deliverable, OneRoot
  <2>3. UNION {Meaning[q] : q \in plan.roots} = Meaning[r]
    BY <2>2
  <2>4. QED
    BY <2>1, <2>3
<1>4. CASE UNCHANGED vars
  <2>1. LiteralsDelivered /\ status = "done" /\ output' = output
    BY <1>1, <1>2, <1>4 DEF LiteralsInv, vars
  <2>2. QED
    BY <1>1, <2>1 DEF LiteralsDelivered
<1>5. ~Compile
  BY <1>1 DEF Compile
<1>6. ~ \E q \in pending : EvaluateBeliefBase(q)
  BY <1>1 DEF EvaluateBeliefBase, Fail
<1>7. ~ \E q \in pending : ApplyOperator(q)
  BY <1>1 DEF ApplyOperator, Fail
<1>8. QED
  BY <1>1, <1>3, <1>4, <1>5, <1>6, <1>7 DEF Next, Terminated

\* The output of a plan holds the literals over the predicates of its common
\* signature that are in the answer of its merging plan section, and no others,
\* answer set by answer set, provided that the extraction rules can deliver
\* them: &arguments never reports a negative sign, and joins as many arguments
\* as the signature declares.
THEOREM SignatureDelivered == Spec => [](Deliverable => LiteralsDelivered)
<1>1. Init => PlanInv /\ LiteralsInv
  <2>1. Init => LiteralsInv
    BY DEF Init, LiteralsInv, LiteralsDelivered
  <2>2. QED
    BY <2>1, PlanInitial
<1>2. PlanInv /\ LiteralsInv /\ [Next]_vars => (PlanInv /\ LiteralsInv)'
  BY PlanStep, LiteralsStep
<1>3. QED
  BY <1>1, <1>2, PTL DEF Spec, LiteralsInv

LEMMA TaskStep ==
  /\ PlanInv /\ OutputInv /\ Deliverable
  /\ (PlanInv /\ Telling(plan))'
  /\ [Next]_vars
  => [Task!TaskNext]_(Task!taskVars)
<1>1. SUFFICES ASSUME PlanInv, OutputInv, Deliverable, (PlanInv /\ Telling(plan))', [Next]_vars
               PROVE  [Task!TaskNext]_(Task!taskVars)
  OBVIOUS
<1>2. Telling(plan) /\ OneRoot(plan) /\ TransferableLiterals
  BY <1>1 DEF Deliverable
<1>3. plan' = plan
  BY <1>1, PlanKept
<1>4. CASE Compile
  <2>1. sources = {} /\ applied = {}
    BY <1>1, <1>4 DEF Compile, PlanInv, UniqueInv
  <2>2. Results = {}
    BY <2>1 DEF Results
  <2>3. Results' = {}
    BY <1>4, <2>1 DEF Compile, Results
  <2>4. MergedSections' = {}
    BY <2>3 DEF MergedSections, HandlesOf
  <2>5. MergedSections = {}
    BY <2>2 DEF MergedSections, HandlesOf
  <2>6. output' = output
    BY <1>4 DEF Compile
  <2>7. QED
    BY <1>1, <1>2, <1>3, <2>4, <2>5, <2>6, MergingStep
<1>5. ASSUME NEW r \in pending, EvaluateBeliefBase(r)
      PROVE  [Task!TaskNext]_(Task!taskVars)
  <2>1. /\ output' = output /\ program' = program
        /\ sources \subseteq sources' /\ applied \subseteq applied'
    BY <1>5 DEF EvaluateBeliefBase, Fail
  <2>2. MergedSections \subseteq MergedSections'
    BY <1>3, <2>1, MergedStay
  <2>3. \A n \in MergedSections' \ MergedSections : ~IsComposed(plan.nodes[n])
    <3>1. TAKE n \in MergedSections' \ MergedSections
    <3>2. n \in DOMAIN plan.nodes /\ HandlesOf(n) = {} /\ HandlesOf(n)' # {}
      BY <1>3 DEF MergedSections
    <3>3. QED
      BY <1>1, <1>2, <1>5, <3>2, EvaluateMerges
  <2>4. QED
    BY <1>1, <1>2, <1>3, <2>1, <2>2, <2>3, MergingStep
<1>6. ASSUME NEW r \in pending, ApplyOperator(r)
      PROVE  [Task!TaskNext]_(Task!taskVars)
  <2>1. /\ output' = output /\ program' = program
        /\ sources \subseteq sources' /\ applied \subseteq applied'
    BY <1>6 DEF ApplyOperator, Fail
  <2>2. MergedSections \subseteq MergedSections'
    BY <1>3, <2>1, MergedStay
  <2>3. \A n \in MergedSections' \ MergedSections : ToSet(SourcesOf(plan, n)) \subseteq MergedSections
    <3>1. TAKE n \in MergedSections' \ MergedSections
    <3>2. n \in DOMAIN plan.nodes /\ HandlesOf(n) = {} /\ HandlesOf(n)' # {}
      BY <1>3 DEF MergedSections
    <3>3. QED
      BY <1>1, <1>2, <1>6, <3>2, ApplyMerges
  <2>4. QED
    BY <1>1, <1>2, <1>3, <2>1, <2>2, <2>3, MergingStep
<1>7. CASE Extract
  <2>1. output = NotDelivered
    BY <1>1, <1>7 DEF Extract, OutputInv
  <2>2. Task!Deliver
    BY <1>1, <1>2, <1>7, <2>1, DeliveringStep
  <2>3. QED
    BY <2>2 DEF Task!TaskNext
<1>8. CASE UNCHANGED vars
  <2>1. UNCHANGED <<plan, program, sources, applied, output>>
    BY <1>8 DEF vars
  <2>2. Results' = Results
    BY <2>1 DEF Results
  <2>3. MergedSections' = MergedSections
    BY <2>1, <2>2 DEF MergedSections, HandlesOf
  <2>4. QED
    BY <1>1, <1>2, <1>3, <2>1, <2>3, MergingStep
<1>9. QED
  BY <1>1, <1>4, <1>5, <1>6, <1>7, <1>8 DEF Next, Terminated

LEMMA TaskInitial == Init => Task!TaskInit
<1>1. SUFFICES ASSUME Init PROVE Task!TaskInit
  OBVIOUS
<1>2. sources = {} /\ applied = {} /\ plan \in Plans /\ output = NotDelivered
  BY <1>1 DEF Init
<1>3. MergedSections = {}
  BY <1>2 DEF MergedSections, HandlesOf, Results
<1>4. MergedAnswers = <<>>
  BY <1>3 DEF MergedAnswers
<1>5. QED
  BY <1>2, <1>4 DEF Task!TaskInit, Task!Pending, NotDelivered

\* "Translates merging plans into semantically equivalent HEX programs"
\* (documentation.dox): the evaluation of the generated program, through calls,
\* handles, identifiers and rules and in whatever order dlvhex proceeds, merges
\* the sections of the plan bottom up, each once its sources are merged and
\* from their answers, and delivers the literals of the common signature.
THEOREM PlanIsImplemented == Spec /\ Deliverable => ImplementsTask
<1>1. Init => PlanInv /\ OutputInv
  <2>1. Init => OutputInv
    BY DEF Init, OutputInv
  <2>2. QED
    BY <2>1, PlanInitial
<1>2. PlanInv /\ OutputInv /\ [Next]_vars => (PlanInv /\ OutputInv)'
  BY PlanStep, OutputStep
<1>3. Deliverable /\ [Next]_vars => Deliverable'
  BY PlanKept, DeliverableStays
<1>4. Deliverable => Telling(plan)
  BY DEF Deliverable
<1>5. QED
  BY <1>1, <1>2, <1>3, <1>4, TaskInitial, TaskStep, PTL DEF Spec, ImplementsTask, Task!TaskSpec
=============================================================================
