------------------------ MODULE MergingPlanEvaluation ------------------------
(***************************************************************************)
(* A merging plan is compiled to a HEX program and dlvhex evaluates it     *)
(* with the external atoms of the plugin.                                  *)
(*                                                                         *)
(* The rules with external atoms are evaluated one at a time, in any order *)
(* in which the input of an atom is complete when it is evaluated.  The    *)
(* rules without are not steps: what they derive is a function of the      *)
(* state (Results, ArgumentFacts).  Handles are positions in `store', the  *)
(* answer cache as its clients see it when it has no limit; how it gets    *)
(* there, through nested loads, is module HexAnswerCache.                  *)
(***************************************************************************)
EXTENDS MergingPlanCompiler, HexCalls

VARIABLES
  plan,      \* the input
  program,   \* the generated program; none yet
  pending,   \* its rules with external atoms that are still to be evaluated
  store,     \* handle -> call and answer
  sources,   \* extension of sources/2: names with handles
  applied,   \* the part of results/2 that operators contributed
  status,    \* "compile", "evaluate", "done", "failed" (an error or exception),
             \* "corrupted" (memory was overwritten)
  output     \* the answer sets

vars == <<plan, program, pending, store, sources, applied, status, output>>

NoProgram ==
  [sources |-> {}, uses |-> {}, arguments |-> {}, parameters |-> {},
   applications |-> {}, finals |-> {}, transfers |-> {}, errors |-> 0]

NotDelivered == [delivered |-> FALSE, sets |-> {}]

IsApplication(r) == r \in program.applications

-----------------------------------------------------------------------------
(***************************************************************************)
(* What the rules without external atoms derive.                           *)
(***************************************************************************)
\* results/2: identifiers with handles.
Results ==
  applied \cup UNION {{[id |-> u.id, handle |-> s.handle] :
                         s \in {t \in sources : t.name = u.name}} : u \in program.uses}

\* answersets_arg<id>/2: positions with handles.
ArgumentFacts(id) ==
  UNION {{[pos |-> a.pos, handle |-> r.handle] :
            r \in {q \in Results : q.id = a.from}} :
           a \in {b \in program.arguments : b.id = id}}

\* kv_arg<id>/2. The mutant mixes the arguments of all operators.
AllParameterFacts(id) == {q.pair : q \in program.parameters}
ParameterFactsOf(id) == {q.pair : q \in {r \in program.parameters : r.id = id}}

\* A rule that may still derive an operand of application r.
Feeds(p, r) ==
  \E a \in {b \in program.arguments : b.id = r.id} :
    IF IsApplication(p)
      THEN p.head = a.from
      ELSE \E u \in program.uses : u.id = a.from /\ u.name = p.name

\* Mutant: an operator is applied as soon as there is an operand.
SomeInput(r) == ArgumentFacts(r.id) # {}
InputComplete(r) == \A p \in pending : ~Feeds(p, r)

-----------------------------------------------------------------------------
\* MPCompiler::convert: the program is passed on, unless an error was found.
Compile ==
  LET generated == GenerateCode(plan) IN
  /\ status = "compile"
  /\ program' = generated
  /\ pending' = generated.sources \cup generated.applications
  /\ status' = IF generated.errors = 0 THEN "evaluate" ELSE "failed"
  /\ UNCHANGED <<plan, store, sources, applied, output>>

\* operator[](const HexCall): the first equal call in the cache, if any.
FoundAt(h, c) ==
  /\ h \in DOMAIN store
  /\ MayEqual(store[h].call, c)
  /\ \A k \in 1 .. h - 1 : ~MustEqual(store[k].call, c)

\* Mutant: only the latest entry is looked at.
NotFoundLast(c) == \A k \in DOMAIN store : k = Len(store) => ~MustEqual(store[k].call, c)
NotFound(c) == \A k \in DOMAIN store : ~MustEqual(store[k].call, c)

\* The handle of a new entry (counted from 1 here). The mutant is off by one.
LastHandle == Len(store)
NextHandle == Len(store) + 1

\* The cache is asked for call c, whose answer is computed if it is new; h is
\* the handle it returns.
Request(c, computed, h) ==
  \/ FoundAt(h, c) /\ UNCHANGED store
  \/ /\ NotFound(c)
     /\ h = NextHandle
     /\ store' = Append(store, [call |-> c, answer |-> computed])

Fail(how) ==
  /\ status' = how
  /\ UNCHANGED <<plan, program, pending, store, sources, applied, output>>

\* &callhex0, &callhexfile0.
EvaluateBeliefBase(r) ==
  LET c == [type |-> r.program.type, subject |-> r.program.subject,
            args |-> <<>>, kv |-> <<>>] IN
  /\ status = "evaluate"
  /\ r \in pending \cap program.sources
  /\ IF r.program \in Broken
       THEN Fail("failed")
       ELSE /\ \E h \in 0 .. Len(store) + 1 :
                 /\ Request(c, Content[r.program], h)
                 /\ sources' = sources \cup {[name |-> r.name, handle |-> h]}
            /\ pending' = pending \ {r}
            /\ UNCHANGED <<plan, program, applied, status, output>>

\* OperatorAtom::retrieve collects a map from positions to handles; of several
\* handles for one position the last one in the order of the atoms' addresses
\* remains, which may be any. The vector of operands has as many elements as
\* there are positions, and a position beyond is written outside of it.
Positions(r) == {f.pos : f \in ArgumentFacts(r.id)}

Overrun(r) == \E i \in Positions(r) : i \notin 0 .. Cardinality(Positions(r)) - 1

Operands(r, args) ==
  \A i \in DOMAIN args : [pos |-> i - 1, handle |-> args[i]] \in ArgumentFacts(r.id)

\* Whether an operator accepts its operands and arguments turns out when it is
\* applied: not if the cache has an equal call.
ApplyOperator(r) ==
  LET n == Cardinality(Positions(r))
      kv == SetToSeq(ParameterFactsOf(r.id))
      accepted == Accepts(r.operator, n, kv)
  IN
  /\ status = "evaluate"
  /\ r \in pending \cap program.applications
  /\ InputComplete(r)
  /\ IF Overrun(r)
       THEN Fail("corrupted")
       ELSE IF r.operator \notin Operators
       THEN Fail("failed")
       ELSE \E args \in [1 .. n -> DOMAIN store] :
              LET c == [type |-> "OperatorCall", subject |-> <<r.operator>>,
                        args |-> args, kv |-> kv]
                  inputs == [i \in 1 .. n |-> store[args[i]].answer]
              IN
              /\ Operands(r, args)
              /\ \/ NotFound(c) /\ ~accepted /\ Fail("failed")
                 \/ /\ \E h \in 0 .. Len(store) + 1 :
                         /\ accepted \/ FoundAt(h, c)
                         /\ Request(c, Apply(r.operator, inputs, kv), h)
                         /\ applied' = applied \cup {[id |-> r.head, handle |-> h]}
                    /\ pending' = pending \ {r}
                    /\ UNCHANGED <<plan, program, sources, status, output>>

-----------------------------------------------------------------------------
(***************************************************************************)
(* The extraction of the final answer sets (writeAnswerSetExtraction).     *)
(***************************************************************************)
\* dlvhex represents a strongly negated atom by one over an auxiliary
\* predicate symbol.
Symbol(a) == [auxiliary |-> a.neg, pred |-> a.pred]
SymbolOf(pred) == [auxiliary |-> FALSE, pred |-> pred]

\* &predicates[H, S].
Predicates(s) ==
  {[pred |-> a.pred, arity |-> Len(a.args)] : a \in {b \in s : ~Symbol(b).auxiliary}}

\* &arguments[H, S, p]: one occurrence per atom over p, with its sign and its
\* arguments. The running number serves as their key only. The sign that is
\* reported is always 0.
Arguments(s, pred) ==
  {[sign |-> 0, args |-> a.args] : a \in {b \in s : Symbol(b) = SymbolOf(pred)}}

\* The two rules for a predicate. With arguments, the rule joins the arguments
\* at 0 .. arity-1 of an occurrence; without, it asks &predicates for the
\* arity.
Transfer(t, s) ==
  IF t.arity > 0
    THEN {Atom(o.sign = 1, t.pred, SubSeq(o.args, 1, t.arity)) :
            o \in {q \in Arguments(s, t.pred) : Len(q.args) >= t.arity}}
    ELSE {Atom(FALSE, t.pred, <<>>) :
            o \in {q \in Arguments(s, t.pred) :
                     q.sign = 0 /\ [pred |-> t.pred, arity |-> 0] \in Predicates(s)}}

Transferred(s) == UNION {Transfer(t, s) : t \in program.transfers}

\* finalresult/1.
FinalHandles == {r.handle : r \in {q \in Results : q.id \in program.finals}}

\* One number of an answer set is selected, for all final results alike.
AnswerSetNrs(h) == 1 .. Cardinality(store[h].answer)

Extract ==
  LET numbers == UNION {AnswerSetNrs(h) : h \in FinalHandles}
      set(h, k) == SetToSeq(store[h].answer)[k]
  IN
  /\ status = "evaluate"
  /\ pending = {}
  /\ IF program.transfers # {} /\ \E h \in FinalHandles : AnswerSetNrs(h) # numbers
       THEN Fail("failed")
       ELSE /\ output' = [delivered |-> TRUE,
                          sets |-> {UNION {Transferred(set(h, k)) : h \in FinalHandles} :
                                      k \in numbers}]
            /\ status' = "done"
            /\ UNCHANGED <<plan, program, pending, store, sources, applied>>
-----------------------------------------------------------------------------
Init ==
  /\ plan \in Plans
  /\ program = NoProgram
  /\ pending = {}
  /\ store = <<>>
  /\ sources = {}
  /\ applied = {}
  /\ status = "compile"
  /\ output = NotDelivered

Ended == status \in {"done", "failed", "corrupted"}

\* So that a state without successor is a deadlock of the evaluation.
Terminated == Ended /\ UNCHANGED vars

Next ==
  \/ Compile
  \/ \E r \in pending : EvaluateBeliefBase(r)
  \/ \E r \in pending : ApplyOperator(r)
  \/ Extract
  \/ Terminated

Spec == Init /\ [][Next]_vars

\* dlvhex goes on evaluating as long as there is an atom to evaluate.
FairSpec == Spec /\ WF_vars(Next)
-----------------------------------------------------------------------------
(***************************************************************************)
(* Properties.                                                             *)
(***************************************************************************)
Handles == DOMAIN store

Subjects == {c.subject : c \in Programs} \cup {<<o>> : o \in Operators}

Calls == [type : CallTypes, subject : Subjects, args : Seq(Nat),
          kv : {<<>>} \cup {SetToSeq(K) : K \in SUBSET KeyValues}]

\* Every handle that was given out stands for an entry of the cache.
TypeOK ==
  /\ plan \in Plans
  /\ program \in {NoProgram, GenerateCode(plan)}
  /\ pending \subseteq program.sources \cup program.applications
  /\ store \in Seq([call : Calls, answer : Answers])
  /\ \A s \in sources : s.handle \in Handles
  /\ \A r \in applied : r.handle \in Handles
  /\ status \in {"compile", "evaluate", "done", "failed", "corrupted"}
  /\ output.delivered \in BOOLEAN

\* The sections of the plan for which a result was derived, with its answer.
HandlesOf(n) == {r.handle : r \in {q \in Results : q.id = Identifiers(plan)[n]}}

MergedSections == {n \in DOMAIN plan.nodes : HandlesOf(n) # {}}

MergedAnswers ==
  [n \in MergedSections |-> store[CHOOSE h \in HandlesOf(n) : TRUE].answer]

\* The compiled program does what the plan asks for ("semantically equivalent
\* HEX programs", documentation.dox): in whatever order dlvhex evaluates it,
\* each section is merged after its sources, from their answers in order and
\* with its own arguments, and the literals of the signature are delivered.
Task == INSTANCE MergingTask WITH merged <- MergedAnswers
ImplementsTask == Task!TaskSpec

\* No two sections, and no two evaluations of one, contribute different
\* results under one identifier: joining its rules never mixes answers.
OneResultPerSection == \A n \in DOMAIN plan.nodes : Cardinality(HandlesOf(n)) <= 1

\* The operands that the generated rules assemble fill the argument vector of
\* OperatorAtom::retrieve exactly: nothing is written outside of it.
OperandsAssembled == status # "corrupted"

\* Belief bases and sections that ask for the same thing share one entry of
\* the cache: nothing is evaluated or merged twice.
Same(c, d) == c.type = d.type /\ c.subject = d.subject /\ c.args = d.args
              /\ Range(c.kv) = Range(d.kv)

AskedOnce == \A h, k \in Handles : Same(store[h].call, store[k].call) => h = k

\* Nothing in the plan is at fault: the definitions of the belief bases do not
\* contradict themselves, their programs can be evaluated, and the operators
\* exist and accept what they are given.
Faultless(p) ==
  /\ \A i \in DOMAIN p.bases :
       ~Contradictory(p.bases[i]) /\ BaseProgram(p.bases[i]) \notin Broken
  /\ \A n \in Composed(p) :
       LET op == OperatorName(p.nodes[n]) IN
       /\ op \in Operators
       /\ Accepts(op, Len(p.nodes[n].sources), SetToSeq(Parameters(p.nodes[n])))
  /\ \A n \in DOMAIN p.nodes \ Composed(p) :
       \E i \in DOMAIN p.bases : LastValue(p.bases[i], "name") = p.nodes[n].name

\* The evaluation of every plan ends, with the result if nothing is at fault,
\* with an error otherwise.
Delivery == <>[](Ended /\ (status = "done" <=> Faultless(plan)))

\* The answer of a section according to the plan.
Meaning ==
  LET m[n \in DOMAIN plan.nodes] ==
        LET node == plan.nodes[n] IN
        IF IsComposed(node)
          THEN Apply(OperatorName(node), [i \in DOMAIN node.sources |-> m[node.sources[i]]],
                     SetToSeq(Parameters(node)))
          ELSE LET i == CHOOSE i \in DOMAIN plan.bases :
                          LastValue(plan.bases[i], "name") = node.name
               IN Content[BaseProgram(plan.bases[i])]
  IN m

\* "Translates merging plans into semantically equivalent HEX programs"
\* (documentation.dox), by an identifier that "is unique for this operator
\* application" (CodeGenerator.cpp): what is derived for a section is what
\* its operator, arguments and sources give.
MergedAsPlanned ==
  \A n \in DOMAIN plan.nodes : \A h \in HandlesOf(n) : store[h].answer = Meaning[n]

\* The predicates of the common signature "will be output by dlvhex after the
\* merging plan was processed", and &arguments "returns the sign of the
\* predicate: 0 for positive and 1 for (strongly) negated" (documentation.dox):
\* the output holds the literals of the signature that were merged.
LiteralsDelivered ==
  status = "done" =>
    \A r \in plan.roots : output.sets = {Task!Relevant(s) : s \in Meaning[r]}
=============================================================================
