--------------------------- MODULE MergingPlanProofs ---------------------------
(***************************************************************************)
(* For all merging plans, belief bases and operators: the evaluation of a  *)
(* compiled plan stays within its types, so every handle that a rule has   *)
(* derived stands for an entry of the cache, and the cache never holds two *)
(* entries for one call.                                                   *)
(***************************************************************************)
EXTENDS MergingPlanEvaluation, RecursionLemmas, FiniteSetTheorems, TLAPS

Entries == [call : Calls, answer : Answers]

-----------------------------------------------------------------------------
(***************************************************************************)
(* What the code generator emits.                                          *)
(***************************************************************************)
LEMMA SourceRulesType ==
  ASSUME NEW p \in Plans, NEW r \in SourceRules(p)
  PROVE  r.program \in Programs /\ r.program.type \in CallTypes
<1>1. PICK b \in ToSet(p.bases) :
        ~Contradictory(b) /\ r = [name |-> LastValue(b, "name"), program |-> BaseProgram(b)]
  BY DEF SourceRules
<1>2. r.program = BaseProgram(b)
  BY <1>1
<1>3. BaseProgram(b) \in Programs
  BY <1>1, PlansAssumption
<1>4. BaseProgram(b).type \in CallTypes
  BY DEF BaseProgram, CallTypes
<1>5. QED
  BY <1>2, <1>3, <1>4

LEMMA ParameterFactsType ==
  ASSUME NEW p \in Plans, NEW q \in ParameterFacts(p)
  PROVE  q.pair \in KeyValues
<1>1. PICK n \in Composed(p) : \E k \in Parameters(p.nodes[n]) :
        q = [id |-> IdOfArguments(p, n), pair |-> k]
  BY DEF ParameterFacts
<1>2. Parameters(p.nodes[n]) \subseteq KeyValues
  BY PlansAssumption DEF Composed
<1>3. QED
  BY <1>1, <1>2

LEMMA ListFinite ==
  ASSUME NEW s, IsList(s)
  PROVE  IsFiniteSet(DOMAIN s)
<1>1. Len(s) \in Int /\ 1 \in Int /\ DOMAIN s = 1 .. Len(s)
  BY DEF IsList
<1>2. IsFiniteSet(1 .. Len(s))
  BY <1>1, FS_Interval
<1>3. QED
  BY <1>1, <1>2

\* The range of a function on a finite set.
LEMMA FiniteRange ==
  ASSUME NEW S, IsFiniteSet(S), NEW f, DOMAIN f = S
  PROVE  IsFiniteSet({f[x] : x \in S})
<1> DEFINE T == {f[x] : x \in S}
<1> PICK g : g = [x \in S |-> f[x]]
  OBVIOUS
<1>1. g \in Surjection(S, T)
  BY DEF Surjection
<1>2. IsFiniteSet(T)
  BY <1>1, FS_Surjection
<1>3. QED
  BY <1>2

\* The positions at which operands are passed are finitely many.
LEMMA FinitePositions ==
  ASSUME NEW p \in Plans
  PROVE  IsFiniteSet({a.pos : a \in ArgumentRules(p)})
<1> DEFINE Rule(n, i) == [id |-> IdOfArguments(p, n), pos |-> Position(i),
                          from |-> Identifiers(p)[p.nodes[n].sources[i]]]
           RulesOf(n) == {Rule(n, i) : i \in DOMAIN p.nodes[n].sources}
<1>1. IsFiniteSet(Composed(p))
  <2>1. IsFiniteSet(DOMAIN p.nodes)
    BY PlansAssumption, ListFinite
  <2>2. QED
    BY <2>1, FS_Subset DEF Composed
<1>2. \A n \in Composed(p) : IsFiniteSet(RulesOf(n))
  <2>1. TAKE n \in Composed(p)
  <2>2. IsFiniteSet(DOMAIN p.nodes[n].sources)
    BY PlansAssumption, ListFinite DEF Composed
  <2> PICK D : D = DOMAIN p.nodes[n].sources
    OBVIOUS
  <2> PICK f : f = [i \in D |-> Rule(n, i)]
    OBVIOUS
  <2>3. IsFiniteSet({f[i] : i \in D})
    <3> HIDE DEF Rule
    <3>1. IsFiniteSet(D)
      BY <2>2
    <3>2. DOMAIN f = D
      OBVIOUS
    <3>3. QED
      BY <3>1, <3>2, FiniteRange
  <2>4. {f[i] : i \in D} = RulesOf(n)
    OBVIOUS
  <2>5. QED
    BY <2>3, <2>4
<1>3. IsFiniteSet({RulesOf(n) : n \in Composed(p)})
  <2> HIDE DEF RulesOf
  <2> PICK f : f = [n \in Composed(p) |-> RulesOf(n)]
    OBVIOUS
  <2>1. IsFiniteSet({f[n] : n \in Composed(p)})
    BY <1>1, FiniteRange
  <2>2. QED
    BY <2>1
<1>4. IsFiniteSet(UNION {RulesOf(n) : n \in Composed(p)})
  BY <1>2, <1>3, FS_UNION
<1>5. ArgumentRules(p) = UNION {RulesOf(n) : n \in Composed(p)}
  BY DEF ArgumentRules
<1>6. IsFiniteSet(ArgumentRules(p))
  BY <1>4, <1>5
<1> PICK f : f = [a \in ArgumentRules(p) |-> a.pos]
  OBVIOUS
<1>7. IsFiniteSet({f[a] : a \in ArgumentRules(p)})
  BY <1>6, FiniteRange
<1>8. QED
  BY <1>7

\* The key-value arguments of an operator, listed in some order.
LEMMA ListedParameters ==
  ASSUME NEW K \in SUBSET KeyValues
  PROVE  SetToSeq(K) \in Seq(KeyValues)
<1>1. IsFiniteSet(K)
  BY PlansAssumption, FS_Subset
<1>2. Cardinality(K) \in Nat /\ ExistsBijection(1 .. Cardinality(K), K)
  BY <1>1, FS_CardinalityType
<1>3. PICK f \in [1 .. Cardinality(K) -> K] : IsInjective(f)
  BY <1>2 DEF ExistsBijection, Bijection, Injection, Surjection, IsInjective
<1>4. SetToSeq(K) \in [1 .. Cardinality(K) -> K]
  BY <1>3 DEF SetToSeq
<1>5. QED
  BY <1>2, <1>4
-----------------------------------------------------------------------------
(***************************************************************************)
(* An operator that accepts its arguments returns an answer.               *)
(***************************************************************************)
LEMMA AppliedType ==
  ASSUME NEW op \in Operators, NEW n \in Nat,
         NEW inputs \in [1 .. n -> Answers],
         NEW kv \in Seq(KeyValues), Accepts(op, n, kv)
  PROVE  Apply(op, inputs, kv) \in Answers
<1>1. CASE op = "union"
  <2>1. 1 \in 1 .. n /\ 2 \in 1 .. n
    BY <1>1 DEF Accepts, BuiltIn
  <2>2. inputs[1] \in SUBSET (SUBSET Atoms) /\ inputs[2] \in SUBSET (SUBSET Atoms)
    BY <2>1 DEF Answers
  <2>3. OpUnion(inputs[1], inputs[2]) \in Answers
    BY <2>2 DEF OpUnion, Answers
  <2>4. QED
    BY <1>1, <2>3 DEF Apply
<1>2. CASE op = "setminus"
  <2>1. 1 \in 1 .. n /\ 2 \in 1 .. n
    BY <1>2 DEF Accepts, BuiltIn
  <2>2. inputs[1] \in SUBSET (SUBSET Atoms) /\ inputs[2] \in SUBSET (SUBSET Atoms)
    BY <2>1 DEF Answers
  <2>3. OpSetminus(inputs[1], inputs[2]) \in Answers
    BY <2>2 DEF OpSetminus, Answers
  <2>4. QED
    BY <1>2, <2>3 DEF Apply
<1>3. CASE op \notin BuiltIn
  <2>1. Range(kv) \in SUBSET KeyValues
    BY DEF Range
  <2>2. op \in UserOperators
    BY <1>3 DEF Operators
  <2>3. Contribution[op][Range(kv)] \in SUBSET (SUBSET Atoms)
    BY <2>1, <2>2, OperatorsAssumption DEF Answers
  <2>4. UNION {UNION inputs[i] : i \in DOMAIN inputs} \subseteq Atoms
    BY DEF Answers
  <2>5. UserOperator(op, inputs, kv) \in Answers
    BY <2>3, <2>4 DEF UserOperator, Answers
  <2>6. QED
    BY <1>3, <2>5 DEF Apply, BuiltIn
<1>4. QED
  BY <1>1, <1>2, <1>3 DEF BuiltIn
-----------------------------------------------------------------------------
(***************************************************************************)
(* What holds of a generated program that is being evaluated.              *)
(***************************************************************************)
LEMMA SourcesOfProgram ==
  ASSUME TypeOK, NEW r \in pending \cap program.sources
  PROVE  /\ program = GenerateCode(plan)
         /\ r.program \in Programs
         /\ r.program.type \in CallTypes
<1>1. program = GenerateCode(plan)
  BY DEF TypeOK, NoProgram
<1>2. r \in SourceRules(plan)
  BY <1>1 DEF GenerateCode
<1>3. plan \in Plans
  BY DEF TypeOK
<1>4. QED
  BY <1>1, <1>2, <1>3, SourceRulesType

LEMMA OperandsOfProgram ==
  ASSUME TypeOK, NEW r \in pending \cap program.applications
  PROVE  /\ IsFiniteSet(Positions(r))
         /\ Cardinality(Positions(r)) \in Nat
         /\ ParameterFactsOf(r.id) \in SUBSET KeyValues
<1>1. program = GenerateCode(plan)
  BY DEF TypeOK, NoProgram
<1>2. plan \in Plans
  BY DEF TypeOK
<1>3. program.arguments = ArgumentRules(plan) /\ program.parameters = ParameterFacts(plan)
  BY <1>1 DEF GenerateCode
<1>4. Positions(r) \subseteq {a.pos : a \in ArgumentRules(plan)}
  <2>1. ASSUME NEW f \in ArgumentFacts(r.id)
        PROVE  f.pos \in {a.pos : a \in program.arguments}
    <3>1. PICK a \in {b \in program.arguments : b.id = r.id} :
            f \in {[pos |-> a.pos, handle |-> q.handle] : q \in {t \in Results : t.id = a.from}}
      BY <2>1 DEF ArgumentFacts
    <3>2. f.pos = a.pos
      BY <3>1
    <3>3. QED
      BY <3>1, <3>2
  <2>2. QED
    BY <2>1, <1>3 DEF Positions
<1>5. IsFiniteSet({a.pos : a \in ArgumentRules(plan)})
  BY <1>2, FinitePositions
<1>6. IsFiniteSet(Positions(r))
  BY <1>4, <1>5, FS_Subset
<1>7. Cardinality(Positions(r)) \in Nat
  BY <1>6, FS_CardinalityType
<1>8. ParameterFactsOf(r.id) \in SUBSET KeyValues
  <2>1. \A q \in ParameterFacts(plan) : q.pair \in KeyValues
    BY <1>2, ParameterFactsType
  <2>2. QED
    BY <2>1, <1>3 DEF ParameterFactsOf
<1>9. QED
  BY <1>6, <1>7, <1>8

-----------------------------------------------------------------------------
(***************************************************************************)
(* A lookup that misses is not repeated: the new entry differs from all    *)
(* that are there.                                                         *)
(***************************************************************************)
LEMMA RequestKeepsStore ==
  ASSUME store \in Seq(Entries), AskedOnce,
         NEW c \in Calls, NEW computed, NEW h, Request(c, computed, h),
         computed \in Answers \/ FoundAt(h, c)
  PROVE  /\ store' \in Seq(Entries)
         /\ DOMAIN store \subseteq DOMAIN store'
         /\ h \in DOMAIN store'
         /\ AskedOnce'
<1>1. CASE FoundAt(h, c) /\ UNCHANGED store
  <2>1. h \in DOMAIN store'
    BY <1>1 DEF FoundAt
  <2>2. AskedOnce'
    BY <1>1 DEF AskedOnce, Handles
  <2>3. QED
    BY <1>1, <2>1, <2>2
<1>2. CASE /\ NotFound(c)
           /\ h = NextHandle
           /\ store' = Append(store, [call |-> c, answer |-> computed])
  <2> PICK e : e = [call |-> c, answer |-> computed]
    OBVIOUS
  <2>0. computed \in Answers
    BY <1>2 DEF FoundAt, NextHandle
  <2>1. e \in Entries /\ e.call = c
    BY <2>0 DEF Entries
  <2>2. store' = Append(store, e)
    BY <1>2
  <2>3. store' \in Seq(Entries)
    BY <2>1, <2>2
  <2>4. DOMAIN store' = 1 .. Len(store) + 1 /\ DOMAIN store = 1 .. Len(store)
    BY <2>1, <2>2
  <2>5. h \in DOMAIN store' /\ DOMAIN store \subseteq DOMAIN store'
    BY <1>2, <2>4 DEF NextHandle
  <2>6. store'[Len(store) + 1] = e
    BY <2>1, <2>2
  <2>7. \A k \in 1 .. Len(store) : store'[k] = store[k]
    BY <2>1, <2>2
  <2>8. \A k \in DOMAIN store : ~Same(store[k].call, c) /\ ~Same(c, store[k].call)
    <3>1. TAKE k \in DOMAIN store
    <3>2. ~MustEqual(store[k].call, c)
      BY <1>2 DEF NotFound
    <3>3. QED
      BY <3>2 DEF Same, MustEqual, MayEqual
  <2>9. AskedOnce'
    <3>1. SUFFICES ASSUME NEW i \in DOMAIN store', NEW k \in DOMAIN store',
                          Same(store'[i].call, store'[k].call)
                   PROVE  i = k
      BY DEF AskedOnce, Handles, Same
    <3>2. CASE i = Len(store) + 1 /\ k = Len(store) + 1
      BY <3>2
    <3>3. CASE i = Len(store) + 1 /\ k \in 1 .. Len(store)
      BY <3>1, <3>3, <2>1, <2>4, <2>6, <2>7, <2>8
    <3>4. CASE i \in 1 .. Len(store) /\ k = Len(store) + 1
      BY <3>1, <3>4, <2>1, <2>4, <2>6, <2>7, <2>8
    <3>5. CASE i \in 1 .. Len(store) /\ k \in 1 .. Len(store)
      BY <3>1, <3>5, <2>4, <2>7 DEF AskedOnce, Handles
    <3>6. QED
      BY <2>4, <3>2, <3>3, <3>4, <3>5
  <2>10. QED
    BY <2>3, <2>5, <2>9
<1>3. QED
  BY <1>1, <1>2 DEF Request

-----------------------------------------------------------------------------
(***************************************************************************)
(* The inductive invariant, action by action.                              *)
(***************************************************************************)
LEMMA InitialInvariant == Init => TypeOK /\ AskedOnce
<1>1. SUFFICES ASSUME Init PROVE TypeOK /\ AskedOnce
  OBVIOUS
<1>2. TypeOK
  <2>1. store = <<>> /\ sources = {} /\ applied = {} /\ pending = {}
    BY <1>1 DEF Init
  <2>2. store \in Seq([call : Calls, answer : Answers])
    BY <2>1
  <2>3. QED
    BY <1>1, <2>1, <2>2 DEF Init, TypeOK, NotDelivered
<1>3. AskedOnce
  BY <1>1 DEF Init, AskedOnce, Handles
<1>4. QED
  BY <1>2, <1>3

LEMMA CompileInvariant ==
  ASSUME TypeOK, AskedOnce, Compile
  PROVE  TypeOK' /\ AskedOnce'
<1>1. UNCHANGED <<plan, store, sources, applied, output>>
  BY DEF Compile
<1>2. program' = GenerateCode(plan)
  BY DEF Compile
<1>3. pending' = program'.sources \cup program'.applications
  BY DEF Compile
<1>4. status' \in {"evaluate", "failed"}
  BY DEF Compile
<1>5. TypeOK'
  BY <1>1, <1>2, <1>3, <1>4 DEF TypeOK, Handles
<1>6. AskedOnce'
  BY <1>1 DEF AskedOnce, Handles
<1>7. QED
  BY <1>5, <1>6

LEMMA FailInvariant ==
  ASSUME TypeOK, AskedOnce, NEW how \in {"failed", "corrupted"}, Fail(how)
  PROVE  TypeOK' /\ AskedOnce'
<1>1. UNCHANGED <<plan, program, pending, store, sources, applied, output>> /\ status' = how
  BY DEF Fail
<1>2. TypeOK'
  BY <1>1 DEF TypeOK, Handles
<1>3. AskedOnce'
  BY <1>1 DEF AskedOnce, Handles
<1>4. QED
  BY <1>2, <1>3

LEMMA EvaluateInvariant ==
  ASSUME TypeOK, AskedOnce, NEW r \in pending, EvaluateBeliefBase(r)
  PROVE  TypeOK' /\ AskedOnce'
<1>1. CASE r.program \in Broken
  <2>1. Fail("failed")
    BY <1>1 DEF EvaluateBeliefBase
  <2>2. QED
    BY <2>1, FailInvariant
<1>2. CASE r.program \notin Broken
  <2> PICK c : c = [type |-> r.program.type, subject |-> r.program.subject,
                    args |-> <<>>, kv |-> <<>>]
    OBVIOUS
  <2>1. r \in pending \cap program.sources
    BY DEF EvaluateBeliefBase
  <2>2. r.program \in Programs /\ r.program.type \in CallTypes
    BY <2>1, SourcesOfProgram
  <2>3. c \in Calls
    <3>1. r.program.subject \in Subjects
      BY <2>2 DEF Subjects
    <3>2. QED
      BY <2>2, <3>1 DEF Calls
  <2>4. Content[r.program] \in Answers
    BY <2>2, PlansAssumption
  <2>5. PICK h \in 0 .. Len(store) + 1 :
          /\ Request(c, Content[r.program], h)
          /\ sources' = sources \cup {[name |-> r.name, handle |-> h]}
    BY <1>2 DEF EvaluateBeliefBase
  <2>6. store \in Seq(Entries)
    BY DEF TypeOK, Entries
  <2>7. /\ store' \in Seq(Entries)
        /\ DOMAIN store \subseteq DOMAIN store'
        /\ h \in DOMAIN store'
        /\ AskedOnce'
    BY <2>3, <2>4, <2>5, <2>6, RequestKeepsStore
  <2>8. pending' = pending \ {r} /\ UNCHANGED <<plan, program, applied, status, output>>
    BY <1>2 DEF EvaluateBeliefBase
  <2>9. \A s \in sources' : s.handle \in DOMAIN store'
    BY <2>5, <2>7 DEF TypeOK, Handles
  <2>10. \A q \in applied' : q.handle \in DOMAIN store'
    BY <2>7, <2>8 DEF TypeOK, Handles
  <2>11. TypeOK'
    BY <2>7, <2>8, <2>9, <2>10 DEF TypeOK, Handles, Entries
  <2>12. QED
    BY <2>7, <2>11
<1>3. QED
  BY <1>1, <1>2

LEMMA ApplyInvariant ==
  ASSUME TypeOK, AskedOnce, NEW r \in pending, ApplyOperator(r)
  PROVE  TypeOK' /\ AskedOnce'
<1> PICK n : n = Cardinality(Positions(r))
  OBVIOUS
<1> PICK kv : kv = SetToSeq(ParameterFactsOf(r.id))
  OBVIOUS
<1>1. r \in pending \cap program.applications
  BY DEF ApplyOperator
<1>2. n \in Nat /\ ParameterFactsOf(r.id) \in SUBSET KeyValues
  BY <1>1, OperandsOfProgram
<1>3. kv \in Seq(KeyValues) /\ kv \in {SetToSeq(K) : K \in SUBSET KeyValues}
  BY <1>2, ListedParameters
<1>4. CASE Overrun(r)
  <2>1. Fail("corrupted")
    BY <1>4 DEF ApplyOperator
  <2>2. QED
    BY <2>1, FailInvariant
<1>5. CASE Fail("failed")
  BY <1>5, FailInvariant
<1>6. CASE ~Overrun(r) /\ ~Fail("failed")
  <2>0. r.operator \in Operators
    BY <1>6 DEF ApplyOperator
  <2>1. PICK args \in [1 .. n -> DOMAIN store], h \in 0 .. Len(store) + 1 :
          /\ \/ Accepts(r.operator, n, kv)
             \/ FoundAt(h, [type |-> "OperatorCall", subject |-> <<r.operator>>,
                            args |-> args, kv |-> kv])
          /\ Request([type |-> "OperatorCall", subject |-> <<r.operator>>,
                      args |-> args, kv |-> kv],
                     Apply(r.operator, [i \in 1 .. n |-> store[args[i]].answer], kv), h)
          /\ applied' = applied \cup {[id |-> r.head, handle |-> h]}
          /\ pending' = pending \ {r} /\ UNCHANGED <<plan, program, sources, status, output>>
    BY <1>6 DEF ApplyOperator
  <2> PICK c : c = [type |-> "OperatorCall", subject |-> <<r.operator>>,
                    args |-> args, kv |-> kv]
    OBVIOUS
  <2> PICK inputs : inputs = [i \in 1 .. n |-> store[args[i]].answer]
    OBVIOUS
  <2>2. store \in Seq(Entries)
    BY DEF TypeOK, Entries
  <2>3. DOMAIN store = 1 .. Len(store) /\ Len(store) \in Nat
    BY <2>2
  <2>4. c \in Calls
    <3>1. args \in Seq(Nat)
      BY <1>2, <2>3
    <3>2. <<r.operator>> \in Subjects
      BY <2>0 DEF Subjects
    <3>3. QED
      BY <3>1, <3>2, <1>3 DEF Calls, CallTypes
  <2>5. inputs \in [1 .. n -> Answers]
    <3>1. \A i \in 1 .. n : store[args[i]] \in Entries
      BY <2>2, <2>3
    <3>2. \A i \in 1 .. n : store[args[i]].answer \in Answers
      BY <3>1 DEF Entries
    <3>3. QED
      BY <3>2
  <2>6. Apply(r.operator, inputs, kv) \in Answers \/ FoundAt(h, c)
    BY <1>2, <1>3, <2>0, <2>1, <2>5, AppliedType
  <2>7. /\ store' \in Seq(Entries)
        /\ DOMAIN store \subseteq DOMAIN store'
        /\ h \in DOMAIN store'
        /\ AskedOnce'
    BY <2>1, <2>2, <2>4, <2>6, RequestKeepsStore
  <2>8. pending' = pending \ {r} /\ UNCHANGED <<plan, program, sources, status, output>>
    BY <2>1
  <2>9. \A q \in applied' : q.handle \in DOMAIN store'
    BY <2>1, <2>7 DEF TypeOK, Handles
  <2>10. \A s \in sources' : s.handle \in DOMAIN store'
    BY <2>7, <2>8 DEF TypeOK, Handles
  <2>11. TypeOK'
    BY <2>7, <2>8, <2>9, <2>10 DEF TypeOK, Handles, Entries
  <2>12. QED
    BY <2>7, <2>11
<1>7. QED
  BY <1>4, <1>5, <1>6

LEMMA ExtractInvariant ==
  ASSUME TypeOK, AskedOnce, Extract
  PROVE  TypeOK' /\ AskedOnce'
<1>1. CASE Fail("failed")
  BY <1>1, FailInvariant
<1>2. CASE ~Fail("failed")
  <2>1. UNCHANGED <<plan, program, pending, store, sources, applied>>
    BY <1>2 DEF Extract
  <2>2. output'.delivered = TRUE /\ status' = "done"
    BY <1>2 DEF Extract
  <2>3. TypeOK'
    BY <2>1, <2>2 DEF TypeOK, Handles
  <2>4. AskedOnce'
    BY <2>1 DEF AskedOnce, Handles
  <2>5. QED
    BY <2>3, <2>4
<1>3. QED
  BY <1>1, <1>2

LEMMA StepInvariant == TypeOK /\ AskedOnce /\ [Next]_vars => TypeOK' /\ AskedOnce'
<1>1. SUFFICES ASSUME TypeOK, AskedOnce, [Next]_vars PROVE TypeOK' /\ AskedOnce'
  OBVIOUS
<1>2. CASE Compile
  BY <1>1, <1>2, CompileInvariant
<1>3. ASSUME NEW r \in pending, EvaluateBeliefBase(r)
      PROVE  TypeOK' /\ AskedOnce'
  BY <1>1, <1>3, EvaluateInvariant
<1>4. ASSUME NEW r \in pending, ApplyOperator(r)
      PROVE  TypeOK' /\ AskedOnce'
  BY <1>1, <1>4, ApplyInvariant
<1>5. CASE Extract
  BY <1>1, <1>5, ExtractInvariant
<1>6. CASE UNCHANGED vars
  <2>1. TypeOK'
    BY <1>1, <1>6 DEF TypeOK, Handles, vars
  <2>2. AskedOnce'
    BY <1>1, <1>6 DEF AskedOnce, Handles, vars
  <2>3. QED
    BY <2>1, <2>2
<1>7. QED
  BY <1>1, <1>2, <1>3, <1>4, <1>5, <1>6 DEF Next, Terminated

-----------------------------------------------------------------------------
(***************************************************************************)
(* The theorems.                                                           *)
(***************************************************************************)
\* Every handle in the extensions of sources/2 and results/2 stands for an
\* entry of the cache, and every entry is a call with an answer of the merging
\* operators (operator[] and OperatorAtom::retrieve).
THEOREM TypeCorrect == Spec => []TypeOK
<1>1. Init => TypeOK /\ AskedOnce
  BY InitialInvariant
<1>2. TypeOK /\ AskedOnce /\ [Next]_vars => (TypeOK /\ AskedOnce)'
  BY StepInvariant
<1>3. QED
  BY <1>1, <1>2, PTL DEF Spec

\* Whatever the plan, no program is evaluated and no operator is applied to
\* the same operands twice (operator[](const HexCall)).
THEOREM EveryCallAskedOnce == Spec => []AskedOnce
<1>1. Init => TypeOK /\ AskedOnce
  BY InitialInvariant
<1>2. TypeOK /\ AskedOnce /\ [Next]_vars => (TypeOK /\ AskedOnce)'
  BY StepInvariant
<1>3. QED
  BY <1>1, <1>2, PTL DEF Spec

-----------------------------------------------------------------------------
(***************************************************************************)
(* Operands. When an operator is applied, every rule that can derive one   *)
(* of its operands has been evaluated; if each rule had a source, there is *)
(* an operand for each position from 0 to the last.                        *)
(***************************************************************************)
\* Every belief base that the merging plan uses is defined.
BasesDefined(p) ==
  \A n \in DOMAIN p.nodes \ Composed(p) :
    \E i \in DOMAIN p.bases : LastValue(p.bases[i], "name") = p.nodes[n].name

\* Every rule that has been evaluated has contributed.
RulesContributed ==
  /\ \A s \in program.sources \ pending : \E t \in sources : t.name = s.name
  /\ \A r \in program.applications \ pending : \E t \in applied : t.id = r.head

AssemblyInv ==
  /\ status = "evaluate" =>
       /\ program = GenerateCode(plan)
       /\ program.errors = 0
       /\ RulesContributed
  /\ BasesDefined(plan) => OperandsAssembled

\* A program without errors has a rule for every belief base that is defined.
LEMMA DefinedBaseHasRule ==
  ASSUME NEW p \in Plans, ErrorCount(p) = 0, BasesDefined(p),
         NEW n \in DOMAIN p.nodes \ Composed(p)
  PROVE  \E s \in SourceRules(p) : s.name = p.nodes[n].name
<1>1. PICK i \in DOMAIN p.bases : LastValue(p.bases[i], "name") = p.nodes[n].name
  BY DEF BasesDefined
<1> DEFINE C == {k \in DOMAIN p.bases : Contradictory(p.bases[k])}
<1>2. C = {}
  <2>1. IsFiniteSet(DOMAIN p.bases)
    BY PlansAssumption, ListFinite
  <2>2. IsFiniteSet(C)
    BY <2>1, FS_Subset
  <2>3. Cardinality(C) = 0
    BY DEF ErrorCount
  <2> HIDE DEF C
  <2>4. QED
    BY <2>2, <2>3, FS_EmptySet
<1>3. ~Contradictory(p.bases[i]) /\ p.bases[i] \in ToSet(p.bases)
  BY <1>2 DEF ToSet
<1>4. [name |-> LastValue(p.bases[i], "name"), program |-> BaseProgram(p.bases[i])] \in SourceRules(p)
  BY <1>3 DEF SourceRules
<1>5. QED
  BY <1>1, <1>4

\* The rules for belief bases are not those for operators.
LEMMA RulesDisjoint ==
  ASSUME NEW p \in Plans, NEW s \in SourceRules(p)
  PROVE  s \notin ApplicationRules(p)
<1>1. "program" \in DOMAIN s
  BY DEF SourceRules
<1>2. \A r \in ApplicationRules(p) : "program" \notin DOMAIN r
  BY DEF ApplicationRules
<1>3. QED
  BY <1>1, <1>2

\* What results/2 and answersets_arg/2 hold, rule by rule.
LEMMA UseGivesResult ==
  ASSUME NEW u \in program.uses, NEW t \in sources, t.name = u.name
  PROVE  [id |-> u.id, handle |-> t.handle] \in Results
<1> DEFINE F(v) == {[id |-> v.id, handle |-> s.handle] : s \in {y \in sources : y.name = v.name}}
<1>1. [id |-> u.id, handle |-> t.handle] \in F(u)
  OBVIOUS
<1>2. Results = applied \cup UNION {F(v) : v \in program.uses}
  BY DEF Results
<1> HIDE DEF F
<1>3. QED
  BY <1>1, <1>2

LEMMA ArgumentGivesFact ==
  ASSUME NEW a \in program.arguments, NEW q \in Results, q.id = a.from
  PROVE  [pos |-> a.pos, handle |-> q.handle] \in ArgumentFacts(a.id)
<1> DEFINE F(b) == {[pos |-> b.pos, handle |-> z.handle] : z \in {y \in Results : y.id = b.from}}
           B == {b \in program.arguments : b.id = a.id}
<1>1. [pos |-> a.pos, handle |-> q.handle] \in F(a) /\ a \in B
  OBVIOUS
<1>2. ArgumentFacts(a.id) = UNION {F(b) : b \in B}
  BY DEF ArgumentFacts
<1> HIDE DEF F, B
<1>3. QED
  BY <1>1, <1>2

\* Each source of a section has a handle when its operator is applied.
LEMMA SourceHasResult ==
  ASSUME plan \in Plans, BasesDefined(plan), program = GenerateCode(plan), program.errors = 0,
         RulesContributed,
         NEW r \in program.applications, InputComplete(r),
         NEW a \in program.arguments, a.id = r.id
  PROVE  \E q \in Results : q.id = a.from
<1>1. PICK n \in Composed(plan) : \E i \in DOMAIN plan.nodes[n].sources :
        a = [id |-> IdOfArguments(plan, n), pos |-> Position(i),
             from |-> Identifiers(plan)[plan.nodes[n].sources[i]]]
  BY DEF GenerateCode, ArgumentRules
<1>0. PICK i \in DOMAIN plan.nodes[n].sources :
        a = [id |-> IdOfArguments(plan, n), pos |-> Position(i),
             from |-> Identifiers(plan)[plan.nodes[n].sources[i]]]
  BY <1>1
<1> PICK m : m = plan.nodes[n].sources[i]
  OBVIOUS
<1>2. a.from = Identifiers(plan)[m]
  BY <1>0
<1>3. m \in DOMAIN plan.nodes
  <2>1. n \in DOMAIN plan.nodes /\ IsComposed(plan.nodes[n])
    BY DEF Composed
  <2>2. m \in 1 .. n - 1
    BY <2>1, PlansAssumption
  <2>3. DOMAIN plan.nodes = 1 .. Len(plan.nodes) /\ Len(plan.nodes) \in Nat
    BY PlansAssumption DEF IsList
  <2>4. QED
    BY <2>1, <2>2, <2>3
<1>4. CASE m \in Composed(plan)
  <2> PICK q : q = [head |-> Identifiers(plan)[m], operator |-> OperatorName(plan.nodes[m]),
                    id |-> IdOfArguments(plan, m)]
    OBVIOUS
  <2>1. q \in program.applications
    BY <1>4 DEF GenerateCode, ApplicationRules
  <2>2. q.head = a.from
    BY <1>2
  <2>3. q \notin pending
    BY <2>1, <2>2 DEF InputComplete, Feeds, IsApplication
  <2>4. PICK t \in applied : t.id = q.head
    BY <2>1, <2>3 DEF RulesContributed
  <2>5. QED
    BY <2>2, <2>4 DEF Results
<1>5. CASE m \notin Composed(plan)
  <2>1. ErrorCount(plan) = 0
    BY DEF GenerateCode
  <2>2. PICK s \in SourceRules(plan) : s.name = plan.nodes[m].name
    BY <1>3, <1>5, <2>1, DefinedBaseHasRule
  <2> PICK u : u = [id |-> Identifiers(plan)[m], name |-> plan.nodes[m].name]
    OBVIOUS
  <2>3. u \in program.uses /\ u.id = a.from /\ u.name = s.name
    BY <1>2, <1>3, <1>5, <2>2 DEF GenerateCode, UseRules, Composed
  <2>4. s \in program.sources /\ s \notin program.applications
    BY <2>2, RulesDisjoint DEF GenerateCode
  <2>5. s \notin pending
    BY <2>3, <2>4 DEF InputComplete, Feeds, IsApplication
  <2>6. PICK t \in sources : t.name = s.name
    BY <2>4, <2>5 DEF RulesContributed
  <2> PICK q : q = [id |-> u.id, handle |-> t.handle]
    OBVIOUS
  <2>8. q \in Results
    BY <2>3, <2>6, UseGivesResult
  <2>9. QED
    BY <2>3, <2>8
<1>6. QED
  BY <1>4, <1>5

\* There is an operand for each position below one that has one.
LEMMA PositionsFromZero ==
  ASSUME plan \in Plans, BasesDefined(plan), program = GenerateCode(plan), program.errors = 0,
         RulesContributed,
         NEW r \in program.applications, InputComplete(r),
         NEW x \in Positions(r)
  PROVE  x \in Nat /\ 0 .. x \subseteq Positions(r)
<1>1. PICK f \in ArgumentFacts(r.id) : f.pos = x
  BY DEF Positions
<1>2. PICK a \in {b \in program.arguments : b.id = r.id} :
        f \in {[pos |-> a.pos, handle |-> q.handle] : q \in {t \in Results : t.id = a.from}}
  BY DEF ArgumentFacts
<1>3. a \in ArgumentRules(plan) /\ a.pos = x /\ a.id = r.id
  BY <1>1, <1>2 DEF GenerateCode
<1>4. PICK n \in Composed(plan) : \E i \in DOMAIN plan.nodes[n].sources :
        a = [id |-> IdOfArguments(plan, n), pos |-> Position(i),
             from |-> Identifiers(plan)[plan.nodes[n].sources[i]]]
  BY <1>3 DEF ArgumentRules
<1>0. PICK i \in DOMAIN plan.nodes[n].sources :
        a = [id |-> IdOfArguments(plan, n), pos |-> Position(i),
             from |-> Identifiers(plan)[plan.nodes[n].sources[i]]]
  BY <1>4
<1> PICK k : k = Len(plan.nodes[n].sources)
  OBVIOUS
<1>5. k \in Nat /\ DOMAIN plan.nodes[n].sources = 1 .. k
  BY PlansAssumption DEF IsList, Composed
<1>6. x = i - 1 /\ i \in 1 .. k
  BY <1>0, <1>3, <1>5 DEF Position
<1>7. ASSUME NEW y \in 0 .. x
      PROVE  y \in Positions(r)
  <2> PICK j : j = y + 1
    OBVIOUS
  <2>1. j \in 1 .. k /\ Position(j) = y
    BY <1>5, <1>6 DEF Position
  <2> PICK b : b = [id |-> IdOfArguments(plan, n), pos |-> Position(j),
                    from |-> Identifiers(plan)[plan.nodes[n].sources[j]]]
    OBVIOUS
  <2>2. b \in program.arguments /\ b.id = r.id /\ b.pos = y
    BY <1>0, <1>3, <1>5, <2>1 DEF GenerateCode, ArgumentRules
  <2>3. PICK q \in Results : q.id = b.from
    BY <2>2, SourceHasResult
  <2>4. [pos |-> b.pos, handle |-> q.handle] \in ArgumentFacts(r.id)
    BY <2>2, <2>3, ArgumentGivesFact
  <2>5. QED
    BY <2>2, <2>4 DEF Positions
<1>8. QED
  BY <1>5, <1>6, <1>7

\* A vector with as many elements as there are positions holds them all.
LEMMA NoOverrun ==
  ASSUME TypeOK, BasesDefined(plan), program = GenerateCode(plan), program.errors = 0,
         RulesContributed,
         NEW r \in pending \cap program.applications, InputComplete(r)
  PROVE  ~Overrun(r)
<1>1. plan \in Plans
  BY DEF TypeOK
<1>2. SUFFICES ASSUME NEW x \in Positions(r)
               PROVE  x \in 0 .. Cardinality(Positions(r)) - 1
  BY DEF Overrun
<1>3. x \in Nat /\ 0 .. x \subseteq Positions(r)
  BY <1>1, PositionsFromZero
<1>4. IsFiniteSet(Positions(r)) /\ Cardinality(Positions(r)) \in Nat
  BY OperandsOfProgram
<1>5. Cardinality(0 .. x) = x + 1
  BY <1>3, FS_Interval
<1>6. Cardinality(0 .. x) <= Cardinality(Positions(r))
  BY <1>3, <1>4, FS_Subset
<1>7. QED
  BY <1>3, <1>4, <1>5, <1>6

\* An evaluated rule leaves its contribution.
LEMMA ContributionsGrow ==
  ASSUME program' = program, RulesContributed,
         sources \subseteq sources', applied \subseteq applied',
         \A s \in program.sources : s \in pending \ pending' => \E t \in sources' : t.name = s.name,
         \A r \in program.applications : r \in pending \ pending' => \E t \in applied' : t.id = r.head
  PROVE  RulesContributed'
BY DEF RulesContributed

LEMMA FailAssembles ==
  ASSUME AssemblyInv, NEW how, how # "corrupted", how # "evaluate", Fail(how)
  PROVE  AssemblyInv'
BY DEF AssemblyInv, OperandsAssembled, Fail, BasesDefined

LEMMA CompileAssembles ==
  ASSUME AssemblyInv, Compile
  PROVE  AssemblyInv'
<1>1. program' = GenerateCode(plan) /\ plan' = plan
  BY DEF Compile
<1>2. pending' = program'.sources \cup program'.applications
  BY DEF Compile
<1>3. status' = IF program'.errors = 0 THEN "evaluate" ELSE "failed"
  BY <1>1 DEF Compile
<1>4. RulesContributed'
  BY <1>2 DEF RulesContributed
<1>5. QED
  BY <1>1, <1>3, <1>4 DEF AssemblyInv, OperandsAssembled

LEMMA EvaluateAssembles ==
  ASSUME TypeOK, AssemblyInv, NEW r \in pending, EvaluateBeliefBase(r)
  PROVE  AssemblyInv'
<1>1. CASE r.program \in Broken
  <2>1. Fail("failed")
    BY <1>1 DEF EvaluateBeliefBase
  <2>2. QED
    BY <2>1, FailAssembles
<1>2. CASE r.program \notin Broken
  <2>1. status = "evaluate" /\ r \in program.sources
    BY DEF EvaluateBeliefBase
  <2>2. PICK h : sources' = sources \cup {[name |-> r.name, handle |-> h]}
    BY <1>2 DEF EvaluateBeliefBase
  <2>3. pending' = pending \ {r} /\ UNCHANGED <<plan, program, applied, status, output>>
    BY <1>2 DEF EvaluateBeliefBase
  <2>4. program = GenerateCode(plan) /\ program.errors = 0 /\ RulesContributed
    BY <2>1 DEF AssemblyInv
  <2>5. plan \in Plans
    BY DEF TypeOK
  <2>6. r \notin program.applications
    BY <2>1, <2>4, <2>5, RulesDisjoint DEF GenerateCode
  <2> PICK t : t = [name |-> r.name, handle |-> h]
    OBVIOUS
  <2>7. t \in sources' /\ t.name = r.name
    BY <2>2
  <2>8. RulesContributed'
    BY <2>2, <2>3, <2>4, <2>6, <2>7, ContributionsGrow
  <2>9. QED
    BY <2>1, <2>3, <2>4, <2>8 DEF AssemblyInv, OperandsAssembled
<1>3. QED
  BY <1>1, <1>2

LEMMA ApplyAssembles ==
  ASSUME TypeOK, AssemblyInv, NEW r \in pending, ApplyOperator(r)
  PROVE  AssemblyInv'
<1>1. status = "evaluate" /\ r \in pending \cap program.applications /\ InputComplete(r)
  BY DEF ApplyOperator
<1>2. program = GenerateCode(plan) /\ program.errors = 0 /\ RulesContributed
  BY <1>1 DEF AssemblyInv
<1>3. CASE Fail("corrupted")
  <2>1. CASE BasesDefined(plan)
    <3>1. ~Overrun(r)
      BY <1>1, <1>2, <2>1, NoOverrun
    <3>2. status' # "corrupted"
      BY <3>1 DEF ApplyOperator, Fail
    <3>3. QED
      BY <1>3, <3>2 DEF Fail
  <2>2. CASE ~BasesDefined(plan)
    <3>1. status' = "corrupted" /\ plan' = plan
      BY <1>3 DEF Fail
    <3>2. ~BasesDefined(plan)'
      BY <2>2, <3>1 DEF BasesDefined
    <3>3. QED
      BY <3>1, <3>2 DEF AssemblyInv
  <2>3. QED
    BY <2>1, <2>2
<1>4. CASE Fail("failed")
  BY <1>4, FailAssembles
<1>5. CASE ~Fail("corrupted") /\ ~Fail("failed")
  <2>1. PICK h : applied' = applied \cup {[id |-> r.head, handle |-> h]}
    BY <1>5 DEF ApplyOperator
  <2>2. pending' = pending \ {r} /\ UNCHANGED <<plan, program, sources, status, output>>
    BY <1>5 DEF ApplyOperator
  <2>3. plan \in Plans
    BY DEF TypeOK
  <2>4. r \notin program.sources
    BY <1>1, <1>2, <2>3, RulesDisjoint DEF GenerateCode
  <2> PICK t : t = [id |-> r.head, handle |-> h]
    OBVIOUS
  <2>5. t \in applied' /\ t.id = r.head
    BY <2>1
  <2>6. RulesContributed'
    BY <1>2, <2>1, <2>2, <2>4, <2>5, ContributionsGrow
  <2>7. QED
    BY <1>1, <1>2, <2>2, <2>6 DEF AssemblyInv, OperandsAssembled
<1>6. QED
  BY <1>3, <1>4, <1>5

LEMMA AssemblyStep ==
  TypeOK /\ AssemblyInv /\ [Next]_vars => AssemblyInv'
<1>1. SUFFICES ASSUME TypeOK, AssemblyInv, [Next]_vars PROVE AssemblyInv'
  OBVIOUS
<1>2. CASE Compile
  BY <1>1, <1>2, CompileAssembles
<1>3. ASSUME NEW r \in pending, EvaluateBeliefBase(r)
      PROVE  AssemblyInv'
  BY <1>1, <1>3, EvaluateAssembles
<1>4. ASSUME NEW r \in pending, ApplyOperator(r)
      PROVE  AssemblyInv'
  BY <1>1, <1>4, ApplyAssembles
<1>5. CASE Extract
  <2>1. CASE Fail("failed")
    BY <1>1, <2>1, FailAssembles
  <2>2. CASE ~Fail("failed")
    <3>1. status' = "done" /\ plan' = plan
      BY <1>5, <2>2 DEF Extract
    <3>2. QED
      BY <3>1 DEF AssemblyInv, OperandsAssembled
  <2>3. QED
    BY <2>1, <2>2
<1>6. CASE UNCHANGED vars
  <2>1. UNCHANGED <<plan, program, pending, sources, applied, status>>
    BY <1>6 DEF vars
  <2>2. RulesContributed => RulesContributed'
    BY <2>1 DEF RulesContributed
  <2>3. BasesDefined(plan)' => BasesDefined(plan)
    BY <2>1
  <2>4. QED
    BY <1>1, <2>1, <2>2, <2>3 DEF AssemblyInv, OperandsAssembled
<1>7. QED
  BY <1>1, <1>2, <1>3, <1>4, <1>5, <1>6 DEF Next, Terminated

\* In whatever order dlvhex evaluates a compiled plan, the operands that reach
\* OperatorAtom::retrieve fill the vector it sizes by their number, and nothing
\* is written outside of it, provided that the plan defines the belief bases
\* it uses.
THEOREM OperandsFillVector == Spec => [](BasesDefined(plan) => OperandsAssembled)
<1>1. Init => TypeOK /\ AskedOnce /\ AssemblyInv
  BY InitialInvariant DEF Init, AssemblyInv, OperandsAssembled
<1>2. TypeOK /\ AskedOnce /\ AssemblyInv /\ [Next]_vars => (TypeOK /\ AskedOnce /\ AssemblyInv)'
  BY StepInvariant, AssemblyStep
<1>3. AssemblyInv => (BasesDefined(plan) => OperandsAssembled)
  BY DEF AssemblyInv
<1>4. QED
  BY <1>1, <1>2, <1>3, PTL DEF Spec

-----------------------------------------------------------------------------
(***************************************************************************)
(* Identifiers. translateRevisionPlan is recursive over the parse tree,    *)
(* whose sections come after their sources.                                *)
(***************************************************************************)
\* The identifiers of the sources of node n, given those of all nodes.
SourceIds(p, ids, n) == [i \in DOMAIN p.nodes[n].sources |-> ids[p.nodes[n].sources[i]]]

\* What follows the name in the identifier of node n.
Rest(p, ids, n) ==
  IF IsComposed(p.nodes[n]) THEN ApplicationId(SourceIds(p, ids, n)) ELSE <<>>

IdentifierFrom(p, ids, n) ==
  IF IsComposed(p.nodes[n])
    THEN Segments[OperatorName(p.nodes[n])] \o ApplicationId(SourceIds(p, ids, n))
    ELSE Segments[p.nodes[n].name]

IdentifiesFirst(p, ids, k) == ids = [n \in 1 .. k |-> IdentifierFrom(p, ids, n)]

\* The identifier of a node depends on those before it.
LEMMA IdentifierIsLocal ==
  ASSUME NEW p \in Plans, NEW n \in DOMAIN p.nodes, NEW f, NEW g,
         \A m \in 1 .. n - 1 : f[m] = g[m]
  PROVE  IdentifierFrom(p, f, n) = IdentifierFrom(p, g, n)
<1>1. CASE IsComposed(p.nodes[n])
  <2>1. \A i \in DOMAIN p.nodes[n].sources : p.nodes[n].sources[i] \in 1 .. n - 1
    BY <1>1, PlansAssumption
  <2>2. SourceIds(p, f, n) = SourceIds(p, g, n)
    BY <2>1 DEF SourceIds
  <2>3. QED
    BY <2>2 DEF IdentifierFrom
<1>2. CASE ~IsComposed(p.nodes[n])
  BY <1>2 DEF IdentifierFrom
<1>3. QED
  BY <1>1, <1>2

LEMMA IdentificationExists ==
  ASSUME NEW p \in Plans, NEW k \in 0 .. Len(p.nodes)
  PROVE  \E f : IdentifiesFirst(p, f, k)
<1>0. Len(p.nodes) \in Nat /\ DOMAIN p.nodes = 1 .. Len(p.nodes)
  BY PlansAssumption DEF IsList
<1> DEFINE W == {n \in 0 .. Len(p.nodes) : ~ \E f : IdentifiesFirst(p, f, n)}
<1>1. ASSUME W # {}
      PROVE  FALSE
  <2>1. W \in SUBSET Nat
    BY <1>0
  <2>2. PICK n \in W : \A q \in W : n <= q
    BY <1>1, <2>1, LeastOf
  <2>3. n \in 0 .. Len(p.nodes) /\ ~ \E f : IdentifiesFirst(p, f, n)
    BY <2>2
  <2>4. CASE n = 0
    <3> PICK f : f = [m \in 1 .. 0 |-> <<>>]
      OBVIOUS
    <3>1. f = [m \in 1 .. 0 |-> IdentifierFrom(p, f, m)]
      OBVIOUS
    <3>2. QED
      BY <2>3, <2>4, <3>1 DEF IdentifiesFirst
  <2>5. CASE n # 0
    <3>1. n - 1 \in 0 .. Len(p.nodes) /\ ~(n <= n - 1) /\ n \in Nat
      BY <1>0, <2>3, <2>5
    <3>2. n - 1 \notin W
      BY <2>2, <3>1
    <3>3. PICK g : IdentifiesFirst(p, g, n - 1)
      BY <3>1, <3>2
    <3>4. g = [m \in 1 .. n - 1 |-> IdentifierFrom(p, g, m)]
      BY <3>3 DEF IdentifiesFirst
    <3> PICK f : f = [m \in 1 .. n |-> IdentifierFrom(p, g, m)]
      OBVIOUS
    <3>5. \A m \in 1 .. n - 1 : f[m] = g[m]
      <4>1. \A m \in 1 .. n - 1 : m \in 1 .. n
        BY <3>1
      <4>2. \A m \in 1 .. n - 1 : g[m] = IdentifierFrom(p, g, m)
        BY <3>4
      <4>3. QED
        BY <4>1, <4>2
    <3>6. \A m \in 1 .. n : IdentifierFrom(p, g, m) = IdentifierFrom(p, f, m)
      <4>1. TAKE m \in 1 .. n
      <4>2. m \in DOMAIN p.nodes /\ \A q \in 1 .. m - 1 : q \in 1 .. n - 1
        BY <1>0, <2>3, <3>1
      <4>3. \A q \in 1 .. m - 1 : g[q] = f[q]
        BY <3>5, <4>2
      <4>4. QED
        BY <4>2, <4>3, IdentifierIsLocal
    <3>7. f = [m \in 1 .. n |-> IdentifierFrom(p, f, m)]
      BY <3>6
    <3>8. QED
      BY <2>3, <3>7 DEF IdentifiesFirst
  <2>6. QED
    BY <2>4, <2>5
<1>2. QED
  BY <1>1

LEMMA IdentifiersSolved ==
  ASSUME NEW p \in Plans
  PROVE  Identifiers(p) = [n \in DOMAIN p.nodes |-> IdentifierFrom(p, Identifiers(p), n)]
<1> DEFINE Fits(f) == f = [n \in DOMAIN p.nodes |-> IdentifierFrom(p, f, n)]
<1>1. Len(p.nodes) \in 0 .. Len(p.nodes) /\ DOMAIN p.nodes = 1 .. Len(p.nodes)
  BY PlansAssumption DEF IsList
<1>2. \E f : Fits(f)
  BY <1>1, IdentificationExists DEF IdentifiesFirst
<1>3. Identifiers(p) = CHOOSE f : Fits(f)
  BY DEF Identifiers, IdentifierFrom, SourceIds
<1> HIDE DEF Fits
<1>4. Fits(Identifiers(p))
  BY <1>2, <1>3
<1>5. QED
  BY <1>4 DEF Fits

LEMMA IdentifiersType ==
  ASSUME NEW p \in Plans, NEW k \in DOMAIN p.nodes
  PROVE  Identifiers(p)[k] \in Seq(STRING)
<1> PICK ids : ids = Identifiers(p)
  OBVIOUS
<1> DEFINE W == {n \in DOMAIN p.nodes : ids[n] \notin Seq(STRING)}
<1>0. Len(p.nodes) \in Nat /\ DOMAIN p.nodes = 1 .. Len(p.nodes)
  BY PlansAssumption DEF IsList
<1>1. ASSUME W # {}
      PROVE  FALSE
  <2>1. W \in SUBSET Nat
    BY <1>0
  <2>2. PICK n \in W : \A q \in W : n <= q
    BY <1>1, <2>1, LeastOf
  <2>3. n \in DOMAIN p.nodes /\ ids[n] \notin Seq(STRING)
    BY <2>2
  <2>4. ids[n] = IdentifierFrom(p, ids, n)
    BY <2>3, IdentifiersSolved
  <2>5. Segments[NameOf(p.nodes[n])] \in Seq(STRING)
    BY <2>3, SegmentsAssumption
  <2>6. CASE ~IsComposed(p.nodes[n])
    BY <2>3, <2>4, <2>5, <2>6 DEF IdentifierFrom, NameOf
  <2>7. CASE IsComposed(p.nodes[n])
    <3>1. SourceIds(p, ids, n) \in Seq(Seq(STRING))
      <4>1. IsList(p.nodes[n].sources)
        BY <2>3, <2>7, PlansAssumption
      <4>2. ASSUME NEW i \in DOMAIN p.nodes[n].sources
            PROVE  ids[p.nodes[n].sources[i]] \in Seq(STRING)
        <5>1. p.nodes[n].sources[i] \in 1 .. n - 1
          BY <2>3, <2>7, PlansAssumption
        <5>2. p.nodes[n].sources[i] \in DOMAIN p.nodes /\ ~(n <= p.nodes[n].sources[i])
          BY <1>0, <2>3, <5>1
        <5>3. QED
          BY <2>2, <5>2
      <4> PICK m : m = Len(p.nodes[n].sources)
        OBVIOUS
      <4>3. m \in Nat /\ DOMAIN p.nodes[n].sources = 1 .. m
        BY <4>1 DEF IsList
      <4>4. SourceIds(p, ids, n) \in [1 .. m -> Seq(STRING)]
        BY <4>2, <4>3 DEF SourceIds
      <4>5. QED
        BY <4>3, <4>4
    <3>2. ApplicationId(SourceIds(p, ids, n)) \in Seq(STRING)
      BY <3>1, FlattenType DEF ApplicationId
    <3>3. Segments[OperatorName(p.nodes[n])] \in Seq(STRING)
      BY <2>5, <2>7 DEF NameOf
    <3>4. IdentifierFrom(p, ids, n) \in Seq(STRING)
      BY <2>7, <3>2, <3>3, ConcatProperties DEF IdentifierFrom
    <3>5. QED
      BY <2>3, <2>4, <3>4
  <2>8. QED
    BY <2>6, <2>7
<1>2. QED
  BY <1>1

\* The names of operators and belief bases differ, and none continues another
\* with "_": there is no base "b" next to a base "b_3", and no base "union".
NamesTell(p) ==
  \A m, n \in DOMAIN p.nodes :
    IsPrefix(Segments[NameOf(p.nodes[m])], Segments[NameOf(p.nodes[n])]) =>
      /\ IsComposed(p.nodes[m]) <=> IsComposed(p.nodes[n])
      /\ NameOf(p.nodes[m]) = NameOf(p.nodes[n])

LEMMA IdentifierParts ==
  ASSUME NEW p \in Plans, NEW n \in DOMAIN p.nodes
  PROVE  /\ Identifiers(p)[n] = Segments[NameOf(p.nodes[n])] \o Rest(p, Identifiers(p), n)
         /\ Segments[NameOf(p.nodes[n])] \in Seq(STRING)
         /\ Rest(p, Identifiers(p), n) \in Seq(STRING)
<1> PICK ids : ids = Identifiers(p)
  OBVIOUS
<1>0. Len(p.nodes) \in Nat /\ DOMAIN p.nodes = 1 .. Len(p.nodes)
  BY PlansAssumption DEF IsList
<1>1. Segments[NameOf(p.nodes[n])] \in Seq(STRING)
  BY SegmentsAssumption
<1>2. ids[n] = IdentifierFrom(p, ids, n)
  BY IdentifiersSolved
<1>3. CASE ~IsComposed(p.nodes[n])
  <2>1. Rest(p, ids, n) = <<>> /\ ids[n] = Segments[NameOf(p.nodes[n])]
    BY <1>2, <1>3 DEF Rest, IdentifierFrom, NameOf
  <2>2. <<>> \in Seq(STRING)
    BY EmptySeq
  <2>3. Segments[NameOf(p.nodes[n])] \o <<>> = Segments[NameOf(p.nodes[n])]
    BY <1>1, ConcatEmptySeq
  <2>4. QED
    BY <1>1, <2>1, <2>2, <2>3
<1>4. CASE IsComposed(p.nodes[n])
  <2>1. ASSUME NEW i \in DOMAIN p.nodes[n].sources
        PROVE  ids[p.nodes[n].sources[i]] \in Seq(STRING)
    <3>1. p.nodes[n].sources[i] \in 1 .. n - 1
      BY <1>4, PlansAssumption
    <3>2. p.nodes[n].sources[i] \in DOMAIN p.nodes
      BY <1>0, <3>1
    <3>3. QED
      BY <3>2, IdentifiersType
  <2> PICK k : k = Len(p.nodes[n].sources)
    OBVIOUS
  <2>2. k \in Nat /\ DOMAIN p.nodes[n].sources = 1 .. k
    BY <1>4, PlansAssumption DEF IsList
  <2>3. SourceIds(p, ids, n) \in [1 .. k -> Seq(STRING)]
    BY <2>1, <2>2 DEF SourceIds
  <2>4. SourceIds(p, ids, n) \in Seq(Seq(STRING))
    BY <2>2, <2>3
  <2>5. Rest(p, ids, n) \in Seq(STRING)
    BY <1>4, <2>4, FlattenType DEF Rest, ApplicationId
  <2>6. ids[n] = Segments[NameOf(p.nodes[n])] \o Rest(p, ids, n)
    BY <1>2, <1>4 DEF IdentifierFrom, Rest, NameOf
  <2>7. QED
    BY <1>1, <2>5, <2>6
<1>5. QED
  BY <1>3, <1>4

\* With such names an identifier tells what its node merges.
LEMMA IdentifiersTell ==
  ASSUME NEW p \in Plans, NamesTell(p), NEW m \in DOMAIN p.nodes, NEW n \in DOMAIN p.nodes,
         Identifiers(p)[m] = Identifiers(p)[n]
  PROVE  /\ IsComposed(p.nodes[m]) <=> IsComposed(p.nodes[n])
         /\ NameOf(p.nodes[m]) = NameOf(p.nodes[n])
         /\ Rest(p, Identifiers(p), m) = Rest(p, Identifiers(p), n)
<1> PICK a, b, s, t : /\ a = Segments[NameOf(p.nodes[m])] /\ b = Segments[NameOf(p.nodes[n])]
                      /\ s = Rest(p, Identifiers(p), m) /\ t = Rest(p, Identifiers(p), n)
  OBVIOUS
<1>1. /\ a \in Seq(STRING) /\ b \in Seq(STRING) /\ s \in Seq(STRING) /\ t \in Seq(STRING)
      /\ a \o s = b \o t
  BY IdentifierParts
<1>2. Len(a) \in Nat /\ Len(b) \in Nat
  BY <1>1
<1>3. IsPrefix(a, b) \/ IsPrefix(b, a)
  <2>1. CASE Len(a) <= Len(b)
    BY <1>1, <2>1, BeginningsCompare
  <2>2. CASE Len(b) <= Len(a)
    BY <1>1, <2>2, BeginningsCompare
  <2>3. QED
    BY <1>2, <2>1, <2>2
<1>4. /\ IsComposed(p.nodes[m]) <=> IsComposed(p.nodes[n])
      /\ NameOf(p.nodes[m]) = NameOf(p.nodes[n])
  BY <1>3 DEF NamesTell
<1>5. s = t
  <2>1. a = b
    BY <1>4
  <2>2. QED
    BY <1>1, <2>1, ContinuationsAgree
<1>6. QED
  BY <1>4, <1>5

-----------------------------------------------------------------------------
(***************************************************************************)
(* One result for each section.                                            *)
(***************************************************************************)
\* Belief bases of one name are the same program.
BasesTell(p) ==
  \A b, c \in ToSet(p.bases) :
    ~Contradictory(b) /\ ~Contradictory(c) /\ LastValue(b, "name") = LastValue(c, "name") =>
      BaseProgram(b) = BaseProgram(c)

Unambiguous(p) == BasesTell(p) /\ NamesTell(p)

\* What was derived comes from a rule that has been evaluated, and each of them
\* has contributed one handle.
SourcesOnce ==
  /\ \A t \in sources : \E r \in program.sources \ pending : t.name = r.name
  /\ \A t, u \in sources : t.name = u.name => t.handle = u.handle

AppliedOnce ==
  /\ \A t \in applied : \E r \in program.applications \ pending : t.id = r.head
  /\ \A t, u \in applied : t.id = u.id => t.handle = u.handle

UniqueInv ==
  /\ status = "compile" => sources = {} /\ applied = {}
  /\ status # "compile" => program = GenerateCode(plan)
  /\ Unambiguous(plan) => SourcesOnce /\ AppliedOnce

\* Rules of one name, or one identifier, are one rule.
LEMMA SourceRulesTell ==
  ASSUME NEW p \in Plans, Unambiguous(p), NEW r \in SourceRules(p), NEW s \in SourceRules(p),
         r.name = s.name
  PROVE  r = s
<1>1. PICK b \in ToSet(p.bases) :
        ~Contradictory(b) /\ r = [name |-> LastValue(b, "name"), program |-> BaseProgram(b)]
  BY DEF SourceRules
<1>2. PICK c \in ToSet(p.bases) :
        ~Contradictory(c) /\ s = [name |-> LastValue(c, "name"), program |-> BaseProgram(c)]
  BY DEF SourceRules
<1>3. LastValue(b, "name") = LastValue(c, "name")
  BY <1>1, <1>2
<1>4. BaseProgram(b) = BaseProgram(c)
  BY <1>1, <1>2, <1>3 DEF Unambiguous, BasesTell
<1>5. QED
  BY <1>1, <1>2, <1>3, <1>4

LEMMA RestIsId ==
  ASSUME NEW p, NEW n \in Composed(p)
  PROVE  Rest(p, Identifiers(p), n) = IdOfArguments(p, n)
BY DEF Rest, IdOfArguments, SourceIds, Composed

LEMMA ApplicationRulesTell ==
  ASSUME NEW p \in Plans, Unambiguous(p),
         NEW r \in ApplicationRules(p), NEW s \in ApplicationRules(p), r.head = s.head
  PROVE  r = s
<1>1. PICK m \in Composed(p) :
        r = [head |-> Identifiers(p)[m], operator |-> OperatorName(p.nodes[m]),
             id |-> IdOfArguments(p, m)]
  BY DEF ApplicationRules
<1>2. PICK n \in Composed(p) :
        s = [head |-> Identifiers(p)[n], operator |-> OperatorName(p.nodes[n]),
             id |-> IdOfArguments(p, n)]
  BY DEF ApplicationRules
<1>3. Identifiers(p)[m] = Identifiers(p)[n]
  BY <1>1, <1>2
<1>4. /\ m \in DOMAIN p.nodes /\ IsComposed(p.nodes[m])
      /\ n \in DOMAIN p.nodes /\ IsComposed(p.nodes[n])
  BY DEF Composed
<1>5. /\ NameOf(p.nodes[m]) = NameOf(p.nodes[n])
      /\ Rest(p, Identifiers(p), m) = Rest(p, Identifiers(p), n)
  BY <1>3, <1>4, IdentifiersTell DEF Unambiguous
<1>6. OperatorName(p.nodes[m]) = OperatorName(p.nodes[n])
  BY <1>4, <1>5 DEF NameOf
<1>7. IdOfArguments(p, m) = IdOfArguments(p, n)
  BY <1>5, RestIsId
<1>8. QED
  BY <1>1, <1>2, <1>3, <1>6, <1>7

\* A belief base and an application have different identifiers.
LEMMA UseIsNoApplication ==
  ASSUME NEW p \in Plans, Unambiguous(p), NEW u \in UseRules(p), NEW r \in ApplicationRules(p)
  PROVE  u.id # r.head
<1>1. PICK m \in DOMAIN p.nodes :
        ~IsComposed(p.nodes[m]) /\ u = [id |-> Identifiers(p)[m], name |-> p.nodes[m].name]
  BY DEF UseRules
<1>2. PICK n \in Composed(p) :
        r = [head |-> Identifiers(p)[n], operator |-> OperatorName(p.nodes[n]),
             id |-> IdOfArguments(p, n)]
  BY DEF ApplicationRules
<1>3. n \in DOMAIN p.nodes /\ IsComposed(p.nodes[n])
  BY DEF Composed
<1>4. Identifiers(p)[m] # Identifiers(p)[n]
  BY <1>1, <1>3, IdentifiersTell DEF Unambiguous
<1>5. QED
  BY <1>1, <1>2, <1>4

\* Uses with one identifier are of one belief base.
LEMMA UseRulesTell ==
  ASSUME NEW p \in Plans, Unambiguous(p), NEW u \in UseRules(p), NEW v \in UseRules(p), u.id = v.id
  PROVE  u.name = v.name
<1>1. PICK m \in DOMAIN p.nodes :
        ~IsComposed(p.nodes[m]) /\ u = [id |-> Identifiers(p)[m], name |-> p.nodes[m].name]
  BY DEF UseRules
<1>2. PICK n \in DOMAIN p.nodes :
        ~IsComposed(p.nodes[n]) /\ v = [id |-> Identifiers(p)[n], name |-> p.nodes[n].name]
  BY DEF UseRules
<1>3. NameOf(p.nodes[m]) = NameOf(p.nodes[n])
  BY <1>1, <1>2, IdentifiersTell DEF Unambiguous
<1>4. QED
  BY <1>1, <1>2, <1>3 DEF NameOf

\* results/2 relates each identifier to one handle.
LEMMA ResultsTell ==
  ASSUME TypeOK, Unambiguous(plan), program = GenerateCode(plan), SourcesOnce, AppliedOnce,
         NEW q \in Results, NEW r \in Results, q.id = r.id
  PROVE  q.handle = r.handle
<1>1. plan \in Plans
  BY DEF TypeOK
<1> DEFINE F(u) == {[id |-> u.id, handle |-> s.handle] : s \in {t \in sources : t.name = u.name}}
           Used(x) == \E u \in program.uses : \E s \in sources :
                        s.name = u.name /\ x.id = u.id /\ x.handle = s.handle
<1>2. ASSUME NEW x \in Results PROVE x \in applied \/ Used(x)
  <2>1. CASE x \notin applied
    <3>1. Results = applied \cup UNION {F(u) : u \in program.uses}
      BY DEF Results
    <3>2. PICK u \in program.uses : x \in F(u)
      <4> HIDE DEF F
      <4>1. QED
        BY <2>1, <3>1
    <3>3. PICK s \in sources : s.name = u.name /\ x = [id |-> u.id, handle |-> s.handle]
      BY <3>2
    <3>4. x.id = u.id /\ x.handle = s.handle
      BY <3>3
    <3>5. QED
      BY <3>3, <3>4
  <2>2. QED
    BY <2>1
<1>3. program.uses = UseRules(plan) /\ program.applications = ApplicationRules(plan)
  BY DEF GenerateCode
<1>4. ASSUME NEW x \in applied, NEW y \in Results, Used(y) PROVE x.id # y.id
  <2>1. PICK a \in program.applications : x.id = a.head
    BY DEF AppliedOnce
  <2>2. PICK u \in program.uses : y.id = u.id
    BY <1>4
  <2>3. QED
    BY <1>1, <1>3, <2>1, <2>2, UseIsNoApplication
<1>5. CASE q \in applied /\ r \in applied
  BY <1>5 DEF AppliedOnce
<1>6. CASE Used(q) /\ Used(r)
  <2>1. PICK u \in program.uses, s \in sources :
          s.name = u.name /\ q.id = u.id /\ q.handle = s.handle
    BY <1>6
  <2>2. PICK v \in program.uses, t \in sources :
          t.name = v.name /\ r.id = v.id /\ r.handle = t.handle
    BY <1>6
  <2>3. u.name = v.name
    <3>1. u \in UseRules(plan) /\ v \in UseRules(plan) /\ u.id = v.id
      BY <1>3, <2>1, <2>2
    <3>2. QED
      BY <1>1, <3>1, UseRulesTell
  <2>4. QED
    BY <2>1, <2>2, <2>3 DEF SourcesOnce
<1>7. QED
  BY <1>2, <1>4, <1>5, <1>6

LEMMA UniqueGivesOneResult ==
  ASSUME TypeOK, UniqueInv, Unambiguous(plan)
  PROVE  OneResultPerSection
<1>1. SUFFICES ASSUME NEW n \in DOMAIN plan.nodes
               PROVE  Cardinality(HandlesOf(n)) <= 1
  BY DEF OneResultPerSection
<1>2. ASSUME NEW h \in HandlesOf(n), NEW k \in HandlesOf(n)
      PROVE  h = k
  <2>1. PICK q \in Results : q.id = Identifiers(plan)[n] /\ q.handle = h
    BY DEF HandlesOf
  <2>2. PICK r \in Results : r.id = Identifiers(plan)[n] /\ r.handle = k
    BY DEF HandlesOf
  <2>3. CASE status = "compile"
    <3>1. sources = {} /\ applied = {}
      BY <2>3 DEF UniqueInv
    <3>2. Results = {}
      BY <3>1 DEF Results
    <3>3. QED
      BY <3>2
  <2>4. CASE status # "compile"
    <3>1. program = GenerateCode(plan) /\ SourcesOnce /\ AppliedOnce
      BY <2>4 DEF UniqueInv
    <3>2. QED
      BY <2>1, <2>2, <3>1, ResultsTell
  <2>5. QED
    BY <2>3, <2>4
<1>3. CASE HandlesOf(n) = {}
  BY <1>3, FS_EmptySet
<1>4. CASE HandlesOf(n) # {}
  <2>1. PICK h \in HandlesOf(n) : TRUE
    BY <1>4
  <2>2. HandlesOf(n) = {h}
    BY <1>2
  <2>3. QED
    BY <2>2, FS_Singleton
<1>5. QED
  BY <1>3, <1>4

LEMMA UniqueKept ==
  ASSUME UniqueInv, UNCHANGED <<plan, program, pending, sources, applied>>,
         status' # "compile", program = GenerateCode(plan)
  PROVE  UniqueInv'
<1>1. /\ SourcesOnce => SourcesOnce'
      /\ AppliedOnce => AppliedOnce'
  BY DEF SourcesOnce, AppliedOnce
<1>2. Unambiguous(plan)' => Unambiguous(plan)
  BY DEF Unambiguous, BasesTell, NamesTell
<1>3. QED
  BY <1>1, <1>2 DEF UniqueInv

LEMMA FailUnique ==
  ASSUME UniqueInv, NEW how, how # "compile", status # "compile", Fail(how)
  PROVE  UniqueInv'
<1>1. UNCHANGED <<plan, program, pending, sources, applied>> /\ status' # "compile"
  BY DEF Fail
<1>2. program = GenerateCode(plan)
  BY DEF UniqueInv
<1>3. QED
  BY <1>1, <1>2, UniqueKept

LEMMA CompileUnique ==
  ASSUME UniqueInv, Compile
  PROVE  UniqueInv'
<1>1. status = "compile" /\ program' = GenerateCode(plan) /\ UNCHANGED <<plan, sources, applied>>
  BY DEF Compile
<1>2. status' # "compile"
  BY DEF Compile
<1>3. sources' = {} /\ applied' = {}
  BY <1>1 DEF UniqueInv
<1>4. SourcesOnce' /\ AppliedOnce'
  BY <1>3 DEF SourcesOnce, AppliedOnce
<1>5. QED
  BY <1>1, <1>2, <1>4 DEF UniqueInv

LEMMA EvaluateUnique ==
  ASSUME TypeOK, UniqueInv, NEW r \in pending, EvaluateBeliefBase(r)
  PROVE  UniqueInv'
<1>1. status = "evaluate" /\ r \in program.sources
  BY DEF EvaluateBeliefBase
<1>2. program = GenerateCode(plan) /\ plan \in Plans
  BY <1>1 DEF UniqueInv, TypeOK
<1>3. CASE r.program \in Broken
  <2>1. Fail("failed")
    BY <1>3 DEF EvaluateBeliefBase
  <2>2. QED
    BY <1>1, <2>1, FailUnique
<1>4. CASE r.program \notin Broken
  <2>1. PICK h : sources' = sources \cup {[name |-> r.name, handle |-> h]}
    BY <1>4 DEF EvaluateBeliefBase
  <2> PICK x : x = [name |-> r.name, handle |-> h]
    OBVIOUS
  <2>2. sources' = sources \cup {x} /\ x.name = r.name
    BY <2>1
  <2>3. pending' = pending \ {r} /\ UNCHANGED <<plan, program, applied, status, output>>
    BY <1>4 DEF EvaluateBeliefBase
  <2>4. ASSUME Unambiguous(plan)
        PROVE  SourcesOnce' /\ AppliedOnce'
    <3>1. SourcesOnce /\ AppliedOnce
      BY <2>4 DEF UniqueInv
    <3>2. ASSUME NEW t \in sources PROVE t.name # r.name
      <4>1. PICK s \in program.sources \ pending : t.name = s.name
        BY <3>1 DEF SourcesOnce
      <4>2. s # r
        BY <4>1
      <4>3. s \in SourceRules(plan) /\ r \in SourceRules(plan)
        BY <1>1, <1>2, <4>1 DEF GenerateCode
      <4>4. QED
        BY <1>2, <2>4, <4>1, <4>2, <4>3, SourceRulesTell
    <3>3. \A t \in sources' : \E s \in program'.sources \ pending' : t.name = s.name
      <4>1. TAKE t \in sources'
      <4>2. CASE t = x
        BY <1>1, <2>2, <2>3, <4>2
      <4>3. CASE t \in sources
        BY <2>3, <3>1, <4>3 DEF SourcesOnce
      <4>4. QED
        BY <2>2, <4>2, <4>3
    <3>4. \A t, u \in sources' : t.name = u.name => t.handle = u.handle
      BY <2>2, <3>1, <3>2 DEF SourcesOnce
    <3>5. SourcesOnce'
      BY <3>3, <3>4 DEF SourcesOnce
    <3>6. AppliedOnce'
      BY <2>3, <3>1 DEF AppliedOnce
    <3>7. QED
      BY <3>5, <3>6
  <2>5. Unambiguous(plan)' => Unambiguous(plan)
    BY <2>3
  <2>6. QED
    BY <1>1, <1>2, <2>3, <2>4, <2>5 DEF UniqueInv
<1>5. QED
  BY <1>3, <1>4

LEMMA ApplyUnique ==
  ASSUME TypeOK, UniqueInv, NEW r \in pending, ApplyOperator(r)
  PROVE  UniqueInv'
<1>1. status = "evaluate" /\ r \in program.applications
  BY DEF ApplyOperator
<1>2. program = GenerateCode(plan) /\ plan \in Plans
  BY <1>1 DEF UniqueInv, TypeOK
<1>3. CASE Fail("corrupted") \/ Fail("failed")
  BY <1>1, <1>3, FailUnique
<1>4. CASE ~Fail("corrupted") /\ ~Fail("failed")
  <2>1. PICK h : applied' = applied \cup {[id |-> r.head, handle |-> h]}
    BY <1>4 DEF ApplyOperator
  <2> PICK x : x = [id |-> r.head, handle |-> h]
    OBVIOUS
  <2>2. applied' = applied \cup {x} /\ x.id = r.head
    BY <2>1
  <2>3. pending' = pending \ {r} /\ UNCHANGED <<plan, program, sources, status, output>>
    BY <1>4 DEF ApplyOperator
  <2>4. ASSUME Unambiguous(plan)
        PROVE  SourcesOnce' /\ AppliedOnce'
    <3>1. SourcesOnce /\ AppliedOnce
      BY <2>4 DEF UniqueInv
    <3>2. ASSUME NEW t \in applied PROVE t.id # r.head
      <4>1. PICK s \in program.applications \ pending : t.id = s.head
        BY <3>1 DEF AppliedOnce
      <4>2. s # r
        BY <4>1
      <4>3. s \in ApplicationRules(plan) /\ r \in ApplicationRules(plan)
        BY <1>1, <1>2, <4>1 DEF GenerateCode
      <4>4. QED
        BY <1>2, <2>4, <4>1, <4>2, <4>3, ApplicationRulesTell
    <3>3. \A t \in applied' : \E s \in program'.applications \ pending' : t.id = s.head
      <4>1. TAKE t \in applied'
      <4>2. CASE t = x
        BY <1>1, <2>2, <2>3, <4>2
      <4>3. CASE t \in applied
        BY <2>3, <3>1, <4>3 DEF AppliedOnce
      <4>4. QED
        BY <2>2, <4>2, <4>3
    <3>4. \A t, u \in applied' : t.id = u.id => t.handle = u.handle
      BY <2>2, <3>1, <3>2 DEF AppliedOnce
    <3>5. AppliedOnce'
      BY <3>3, <3>4 DEF AppliedOnce
    <3>6. SourcesOnce'
      BY <2>3, <3>1 DEF SourcesOnce
    <3>7. QED
      BY <3>5, <3>6
  <2>5. Unambiguous(plan)' => Unambiguous(plan)
    BY <2>3
  <2>6. QED
    BY <1>1, <1>2, <2>3, <2>4, <2>5 DEF UniqueInv
<1>5. QED
  BY <1>3, <1>4

LEMMA UniqueStep ==
  TypeOK /\ UniqueInv /\ [Next]_vars => UniqueInv'
<1>1. SUFFICES ASSUME TypeOK, UniqueInv, [Next]_vars PROVE UniqueInv'
  OBVIOUS
<1>2. CASE Compile
  BY <1>1, <1>2, CompileUnique
<1>3. ASSUME NEW r \in pending, EvaluateBeliefBase(r)
      PROVE  UniqueInv'
  BY <1>1, <1>3, EvaluateUnique
<1>4. ASSUME NEW r \in pending, ApplyOperator(r)
      PROVE  UniqueInv'
  BY <1>1, <1>4, ApplyUnique
<1>5. CASE Extract
  <2>1. status = "evaluate"
    BY <1>5 DEF Extract
  <2>2. UNCHANGED <<plan, program, pending, sources, applied>> /\ status' # "compile"
    BY <1>5 DEF Extract, Fail
  <2>3. program = GenerateCode(plan)
    BY <1>1, <2>1 DEF UniqueInv
  <2>4. QED
    BY <1>1, <2>2, <2>3, UniqueKept
<1>6. CASE UNCHANGED vars
  <2>1. UNCHANGED <<plan, program, pending, sources, applied, status>>
    BY <1>6 DEF vars
  <2>2. (SourcesOnce => SourcesOnce') /\ (AppliedOnce => AppliedOnce')
    BY <2>1 DEF SourcesOnce, AppliedOnce
  <2>3. Unambiguous(plan)' => Unambiguous(plan)
    BY <2>1
  <2>4. QED
    BY <1>1, <2>1, <2>2, <2>3 DEF UniqueInv
<1>7. QED
  BY <1>1, <1>2, <1>3, <1>4, <1>5, <1>6 DEF Next, Terminated

\* No two sections, and no two evaluations of one, contribute different results
\* under one identifier, provided that no name of an operator or belief base
\* is or continues another one, and no belief base is defined in two ways: the
\* set of used identifiers, which translateRevisionPlan_composed looks up but
\* nothing ever fills, is not needed then.
THEOREM ResultsAreUnique == Spec => [](Unambiguous(plan) => OneResultPerSection)
<1>1. Init => TypeOK /\ AskedOnce /\ UniqueInv
  <2>1. SUFFICES ASSUME Init PROVE TypeOK /\ AskedOnce /\ UniqueInv
    OBVIOUS
  <2>2. sources = {} /\ applied = {} /\ status = "compile"
    BY <2>1 DEF Init
  <2>3. SourcesOnce /\ AppliedOnce
    BY <2>2 DEF SourcesOnce, AppliedOnce
  <2>4. QED
    BY <2>1, <2>2, <2>3, InitialInvariant DEF UniqueInv
<1>2. TypeOK /\ AskedOnce /\ UniqueInv /\ [Next]_vars => (TypeOK /\ AskedOnce /\ UniqueInv)'
  BY StepInvariant, UniqueStep
<1>3. TypeOK /\ UniqueInv => (Unambiguous(plan) => OneResultPerSection)
  BY UniqueGivesOneResult
<1>4. QED
  BY <1>1, <1>2, <1>3, PTL DEF Spec
=============================================================================
