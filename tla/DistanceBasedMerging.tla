------------------------- MODULE DistanceBasedMerging -------------------------
(***************************************************************************)
(* The distance based operators (OpDBO.cpp; OpDalal.cpp is the same code   *)
(* under another name). An application merges the answers of several       *)
(* belief bases by writing a logic program, which guesses a group decision *)
(* over all atoms of the sources, selects one answer set of each source,   *)
(* charges a cost for every difference between the two, and is solved by   *)
(* dlv; only the cheapest group decisions remain.                          *)
(*                                                                         *)
(* Two counters are static variables of the class: they keep their values  *)
(* from one application to the next, while all else is local to apply().   *)
(*                                                                         *)
(* A predicate name is a pair of a text and the decimal number it ends in  *)
(* (0 for none), so that appending a number to a name is arithmetic. The   *)
(* written program is kept as what tells two programs apart: the names,    *)
(* the atoms that a selected answer set derives, and the cost rules.       *)
(***************************************************************************)
EXTENDS Integers, Sequences, FiniteSets, FiniteSetsExt

CONSTANTS
  Propositions,      \* ground positive atoms: records with pred and args
  PropositionOrder,  \* the order of std::set<Atom>, as a sequence
  Calls,             \* what apply() may be called with
  DistanceKey,       \* key of the cost model: "bsdistance" or "penalize"
  Aberrations,       \* shortcuts that charge both kinds of difference
  MaxApplications    \* bound on the applications

VARIABLES
  ri,            \* static counter of findUniqueAtomName
  sourceNr,      \* static counter of writeCostComputationRules
  noPredicate,   \* dlvhex' global option NoPredicate
  applications,  \* applications so far
  pc,            \* where apply() is
  call,          \* sources and parameters of the current application
  at,            \* position in the loop that pc is in
  src,           \* the source that is being added
  names,         \* the predicate names made so far, by the role they have
  setting,       \* what the parameters have set
  merged,        \* what was written for the sources added so far
  result         \* the answer of the last application

vars == <<ri, sourceNr, noPredicate, applications, pc, call, at, src, names, setting,
          merged, result>>

ASSUME OrderAssumption ==
  /\ PropositionOrder \in Seq(Propositions)
  /\ \A p \in Propositions : \E k \in DOMAIN PropositionOrder : PropositionOrder[k] = p
  /\ MaxApplications \in Nat

ASSUME CallsAssumption ==
  \A c \in Calls : c.sources \in Seq(Seq(SUBSET [prop : Propositions, neg : BOOLEAN]))

-------------------------------------------------------------------------------
(* Names.                                                                  *)

Texts == {p.pred[1] : p \in Propositions} \cup {"optimize", "cost", "costSum", "as_"}

Names == Texts \X Nat

Plain(text) == <<text, 0>>

\* The number n written behind a number that has already been written.
Shift(n) == IF n < 10 THEN 10 ELSE IF n < 100 THEN 100 ELSE 1000

\* The name that is tried when the counter is n: the first one ever is not
\* numbered.
Candidate(prefix, n) ==
  IF n = 0 THEN prefix ELSE <<prefix[1], prefix[2] * Shift(n + 1) + n + 1>>

\* All atoms of the sources, without their signs; none is ignored yet.
SourceAtoms ==
  {p \in Propositions :
     \E s \in DOMAIN call.sources : \E a \in DOMAIN call.sources[s] :
       \E l \in call.sources[s][a] : l.prop = p}

SourcePredicates == {p.pred : p \in SourceAtoms}

\* Mutant: the predicates of the sources are not recorded.
NamesMade == {names[r] : r \in DOMAIN names}

UsedPredNames == SourcePredicates \cup {names[r] : r \in DOMAIN names}

\* Mutant: the search does not go on to the next number.
FindAtomNameOnce(role, prefix) ==
  /\ Candidate(prefix, ri) \notin UsedPredNames
  /\ names' = [r \in DOMAIN names \cup {role} |->
                 IF r = role THEN Candidate(prefix, ri) ELSE names[r]]
  /\ ri' = ri + 1

\* The first name that is not in use becomes the name of the role.
FindUniqueAtomName(role, prefix) ==
  \E n \in ri .. ri + Cardinality(UsedPredNames) :
    /\ Candidate(prefix, n) \notin UsedPredNames
    /\ \A m \in ri .. n - 1 : Candidate(prefix, m) \in UsedPredNames
    /\ names' = [r \in DOMAIN names \cup {role} |->
                   IF r = role THEN Candidate(prefix, n) ELSE names[r]]
    /\ ri' = n + 1

OptAtom == <<"optimize">>
CostAtom == <<"cost">>
CostSum == <<"costSum">>
Local(s, pred) == <<"local", s, pred>>
Selector(s, a) == <<"as_", s, a>>

GlobalRoles == <<OptAtom, CostAtom, CostSum>>

-------------------------------------------------------------------------------
(* The cost model: what an individual says about an atom, what the group   *)
(* decides, and the cost of that, in tenths.                               *)

Kinds == <<"+", "not", "-", "not-">>

KindSet == {Kinds[k] : k \in DOMAIN Kinds}

KindPairs == [k \in 1 .. 16 |-> <<Kinds[((k - 1) \div 4) + 1], Kinds[((k - 1) % 4) + 1]>>]

Free == [i \in KindSet |-> [g \in KindSet |-> 0]]

Ignoring(d) == [d EXCEPT !["+"]["not"] = 10, !["-"]["not-"] = 10]

Unfounded(d) == [d EXCEPT !["not"]["+"] = 10]

\* A rule of the cost model is one of the shortcuts or a triple; entries it
\* does not name keep their values.
Shortcut(name) == [rule |-> name]

Triple(i, g, factor) == [rule |-> "triple", individual |-> i, group |-> g, factor |-> factor]

ParsePenalize(d, p) ==
  CASE p.rule = "ignoring"    -> Ignoring(d)
    [] p.rule = "unfounded"   -> Unfounded(d)
    [] p.rule \in Aberrations -> Unfounded(Ignoring(d))
    [] p.rule = "triple"      -> [d EXCEPT ![p.individual][p.group] = p.factor]
    [] OTHER                  -> d

-------------------------------------------------------------------------------
(* Starting an application and reading its parameters.                     *)

Arity == Len(call.sources)

NoCall == [sources |-> <<>>, params |-> <<>>]

NoSetting == [weights |-> <<>>, maxint |-> 0, ignored |-> {}, distance |-> Free,
              distanceSet |-> FALSE, aggregate |-> "sum", constraints |-> {},
              noPred |-> 0, micomp |-> 0]

Init ==
  /\ ri = 0
  /\ sourceNr = 0
  /\ noPredicate \in {0, 1}
  /\ applications = 0
  /\ pc = "idle"
  /\ call = NoCall
  /\ at = 1
  /\ src = 1
  /\ names = <<>>
  /\ setting = NoSetting
  /\ merged = <<>>
  /\ result = {}

\* Mutant: the rules of the application before are kept.
ApplyKeepingRules(c) ==
  /\ pc = "idle"
  /\ applications < MaxApplications
  /\ applications' = applications + 1
  /\ call' = c
  /\ noPredicate' = 0
  /\ setting' = [NoSetting EXCEPT !.weights = [s \in DOMAIN c.sources |-> 1],
                                  !.noPred = noPredicate]
  /\ names' = <<>>
  /\ result' = {}
  /\ at' = 1
  /\ src' = 1
  /\ pc' = "naming"
  /\ UNCHANGED <<ri, sourceNr, merged>>

Apply(c) ==
  /\ pc = "idle"
  /\ applications < MaxApplications
  /\ applications' = applications + 1
  /\ call' = c
  /\ noPredicate' = 0
  /\ setting' = [NoSetting EXCEPT !.weights = [s \in DOMAIN c.sources |-> 1],
                                  !.noPred = noPredicate]
  /\ names' = <<>>
  /\ merged' = <<>>
  /\ result' = {}
  /\ at' = 1
  /\ src' = 1
  /\ pc' = "naming"
  /\ UNCHANGED <<ri, sourceNr>>

\* The names of the optimisation atom and of the two cost atoms.
NameGlobal ==
  /\ pc = "naming"
  /\ at <= Len(GlobalRoles)
  /\ FindUniqueAtomName(GlobalRoles[at], Plain(GlobalRoles[at][1]))
  /\ at' = IF at = Len(GlobalRoles) THEN 1 ELSE at + 1
  /\ pc' = IF at = Len(GlobalRoles) THEN "parsing" ELSE pc
  /\ UNCHANGED <<sourceNr, noPredicate, applications, call, src, setting, merged, result>>

Parameter == call.params[at]

\* Text that is not a constraint.
Unreadable == {{}}

\* What a parameter sets. A constraint or a constraint file is a set of
\* constraints, a constraint a set of literals.
Parsed(p) ==
  CASE p.key \in {"constraint", "constraintfile"} ->
         [setting EXCEPT !.constraints = @ \cup p.value]
    [] p.key = "weights"   -> [setting EXCEPT !.weights = p.value]
    [] p.key = DistanceKey -> [setting EXCEPT !.distance = ParsePenalize(@, p.value),
                                              !.distanceSet = TRUE]
    [] p.key = "aggregate" -> [setting EXCEPT !.aggregate = p.value]
    [] p.key = "maxint"    -> [setting EXCEPT !.maxint = p.value]
    [] p.key = "ignore"    -> [setting EXCEPT !.ignored = @ \cup p.value]
    [] OTHER               -> setting

\* Parameters that parseParameters rejects: constraints and cost rules that
\* cannot be read, and numbers that make no sense.
Rejected(p) ==
  \/ p.key \in {"constraint", "constraintfile"} /\ p.value = Unreadable
  \/ p.key = DistanceKey /\ p.value.rule = "malformed"
  \/ p.key = "weights" /\ Len(p.value) # Arity
  \/ p.key = "weights" /\ \E s \in DOMAIN p.value : p.value[s] <= 0
  \/ p.key = "maxint" /\ p.value <= 0

ParseParameter ==
  /\ pc = "parsing"
  /\ at <= Len(call.params)
  /\ ~Rejected(Parameter)
  /\ setting' = Parsed(Parameter)
  /\ at' = at + 1
  /\ UNCHANGED <<ri, sourceNr, noPredicate, applications, pc, call, src, names, merged, result>>

\* An application that fails before the program is run leaves the option
\* as it has set it.
RejectParameter ==
  /\ pc = "parsing"
  /\ at <= Len(call.params)
  /\ Rejected(Parameter)
  /\ pc' = "failed"
  /\ UNCHANGED <<ri, sourceNr, noPredicate, applications, call, at, src, names, setting,
                 merged, result>>

\* A sum over no source has no first summand, and cannot be parsed.
AggregateParses == setting.aggregate # "malformed" /\ (setting.aggregate = "sum" => Arity > 0)

BuildAggregateFunction ==
  /\ pc = "parsing"
  /\ at > Len(call.params)
  /\ AggregateParses
  /\ setting' = [setting EXCEPT !.distance = IF setting.distanceSet THEN @ ELSE Ignoring(Free)]
  /\ at' = 1
  /\ pc' = "renaming"
  /\ UNCHANGED <<ri, sourceNr, noPredicate, applications, call, src, names, merged, result>>

RejectAggregate ==
  /\ pc = "parsing"
  /\ at > Len(call.params)
  /\ ~AggregateParses
  /\ pc' = "failed"
  /\ UNCHANGED <<ri, sourceNr, noPredicate, applications, call, at, src, names, setting,
                 merged, result>>

-------------------------------------------------------------------------------
(* Writing the program, source by source.                                  *)

\* Mutant: a predicate that was renamed for one source is not renamed again.
RenameAtomOnce ==
  /\ pc = "renaming"
  /\ src <= Arity
  /\ at <= Len(PropositionOrder)
  /\ LET p == PropositionOrder[at]
         renamed == \E s \in 1 .. src : Local(s, p.pred) \in DOMAIN names
     IN  \/ /\ p \in SourceAtoms /\ ~renamed
            /\ FindUniqueAtomName(Local(src, p.pred), p.pred)
         \/ /\ p \in SourceAtoms => renamed
            /\ UNCHANGED <<ri, names>>
  /\ at' = at + 1
  /\ UNCHANGED <<sourceNr, noPredicate, applications, pc, call, src, setting, merged, result>>

\* Every predicate of every source gets a name of its own in this source.
RenameSourceAtom ==
  /\ pc = "renaming"
  /\ src <= Arity
  /\ at <= Len(PropositionOrder)
  /\ LET p == PropositionOrder[at]
     IN  \/ /\ p \in SourceAtoms
            /\ Local(src, p.pred) \notin DOMAIN names
            /\ FindUniqueAtomName(Local(src, p.pred), p.pred)
         \/ /\ p \in SourceAtoms => Local(src, p.pred) \in DOMAIN names
            /\ UNCHANGED <<ri, names>>
  /\ at' = at + 1
  /\ UNCHANGED <<sourceNr, noPredicate, applications, pc, call, src, setting, merged, result>>

SourceRenamed ==
  /\ pc = "renaming"
  /\ src <= Arity
  /\ at > Len(PropositionOrder)
  /\ at' = 1
  /\ pc' = "selecting"
  /\ UNCHANGED <<ri, sourceNr, noPredicate, applications, call, src, names, setting, merged,
                 result>>

\* One propositional atom for each answer set of the source.
WriteAnswerSetSelection ==
  /\ pc = "selecting"
  /\ at <= Len(call.sources[src])
  /\ FindUniqueAtomName(Selector(src, at), Plain("as_"))
  /\ at' = at + 1
  /\ UNCHANGED <<sourceNr, noPredicate, applications, pc, call, src, setting, merged, result>>

\* What is derived, under the local names, when an answer set is selected.
Derived(s, a) ==
  {[pred |-> names[Local(s, l.prop.pred)], args |-> l.prop.args, neg |-> l.neg] :
     l \in {m \in call.sources[s][a] : m.prop.pred \notin setting.ignored}}

AtomList == SelectSeq(PropositionOrder, LAMBDA p : p \in SourceAtoms)

\* One rule for each atom and each kind of difference that has a cost, with
\* its running number within the source.
CostRules(s) ==
  LET kinds == SelectSeq(KindPairs, LAMBDA k : setting.distance[k[1]][k[2]] > 0)
      atoms == AtomList
  IN  {[prop       |-> atoms[((n - 1) \div Len(kinds)) + 1],
        individual |-> kinds[((n - 1) % Len(kinds)) + 1][1],
        group      |-> kinds[((n - 1) % Len(kinds)) + 1][2],
        nr         |-> n - 1] : n \in 1 .. Len(atoms) * Len(kinds)}

\* Mutant: the weights are not used.
AmountUnweighted(s, rule) == setting.distance[rule.individual][rule.group] \div 10

\* The factor is truncated after it was multiplied by the weight.
Amount(s, rule) == (setting.weights[s] * setting.distance[rule.individual][rule.group]) \div 10

WriteCostComputation ==
  /\ pc = "selecting"
  /\ at > Len(call.sources[src])
  /\ LET rules == CostRules(src)
     IN  /\ merged' =
              Append(merged, [number  |-> sourceNr,
                              derives |-> [a \in DOMAIN call.sources[src] |-> Derived(src, a)],
                              rules   |-> rules])
         /\ setting' =
              [setting EXCEPT !.micomp = @ + MapThenSumSet(LAMBDA r : Amount(src, r), rules)]
  /\ sourceNr' = sourceNr + 1
  /\ src' = src + 1
  /\ at' = 1
  /\ pc' = "renaming"
  /\ UNCHANGED <<ri, noPredicate, applications, call, names, result>>

ProgramComplete ==
  /\ pc = "renaming"
  /\ src > Arity
  /\ setting' = [setting EXCEPT !.maxint = IF setting.micomp > @ THEN setting.micomp ELSE @]
  /\ pc' = "solving"
  /\ UNCHANGED <<ri, sourceNr, noPredicate, applications, call, at, src, names, merged, result>>

-------------------------------------------------------------------------------
(* The answer sets of the program, as dlv computes them.                   *)

\* A group decision accepts some atoms and denies the others.
Decisions ==
  LET atoms == SourceAtoms
  IN  {{[prop |-> p, neg |-> p \notin accepted] : p \in atoms} : accepted \in SUBSET atoms}

HoldsForGroup(d, p, kind) ==
  CASE kind = "+"    -> [prop |-> p, neg |-> FALSE] \in d
    [] kind = "not"  -> [prop |-> p, neg |-> FALSE] \notin d
    [] kind = "-"    -> [prop |-> p, neg |-> TRUE] \in d
    [] kind = "not-" -> [prop |-> p, neg |-> TRUE] \notin d

Admissible(d) == \A c \in setting.constraints : \E l \in c : ~HoldsForGroup(d, l.prop, l.kind)

\* The choices of one answer set for each source.
Selections ==
  {f \in [DOMAIN call.sources -> 1 .. 1 + Max({Len(call.sources[s]) : s \in DOMAIN call.sources} \cup {0})] :
     \A s \in DOMAIN call.sources : f[s] <= Len(call.sources[s])}

LocalAtoms(f) == UNION {merged[s].derives[f[s]] : s \in DOMAIN merged}

HoldsForIndividual(derived, s, prop, kind) ==
  LET lit(neg) == [pred |-> names[Local(s, prop.pred)], args |-> prop.args, neg |-> neg]
  IN  CASE kind = "+"    -> lit(FALSE) \in derived
        [] kind = "not"  -> lit(FALSE) \notin derived
        [] kind = "-"    -> lit(TRUE) \in derived
        [] kind = "not-" -> lit(TRUE) \notin derived

\* The costs charged to a source: dlv's #sum ranges over pairs of a cost and
\* a number.
Charged(d, derived, s) ==
  {<<Amount(s, r), r.nr>> :
     r \in {q \in merged[s].rules : /\ HoldsForGroup(d, q.prop, q.group)
                                    /\ HoldsForIndividual(derived, s, q.prop, q.individual)}}

Total(S) == MapThenSumSet(LAMBDA c : c[1], S)

\* The derived sums, by the number of the source; integers above maxint do
\* not exist for dlv.
CostSums(d, f) ==
  LET derived == LocalAtoms(f)
      sums    == {<<merged[s].number, Total(Charged(d, derived, s))>> : s \in DOMAIN merged}
  IN  {c \in sums : c[2] <= setting.maxint}

Sum(sums) == MapThenSumSet(LAMBDA c : c[2], sums)

\* The values C of the derived atoms optimize(C). "sum" and "max" name the
\* sources 0 .. arity-1; "total" stands for a program of the user that sums
\* up whatever costs there are, "documented" for one that asks for
\* cost(B,sum,C), which no rule derives.
Optima(sums) ==
  LET numbered  == {c \in sums : c[1] < Arity}
      available == {c[1] : c \in numbered} = 0 .. Arity - 1
  IN  CASE setting.aggregate = "sum" /\ available /\ Sum(numbered) <= setting.maxint -> {Sum(numbered)}
        [] setting.aggregate = "max" /\ available /\ Arity > 0 -> {Max({c[2] : c \in numbered})}
        [] setting.aggregate = "total" /\ Sum(sums) <= setting.maxint -> {Sum(sums)}
        [] OTHER -> {}

\* dlv's filter passes the optimisation atom and what is not ignored.
Filtered(d) == {l \in d : l.prop.pred \notin setting.ignored}

AnswerSets ==
  {[literals |-> Filtered(d), optimize |-> Optima(CostSums(d, f))] :
     d \in {e \in Decisions : Admissible(e)}, f \in Selections}

Weight(answer) == MapThenSumSet(LAMBDA c : c, answer.optimize)

\* Only the cheapest answer sets remain, each of them once.
Optimize(answers) == {x \in answers : \A y \in answers : Weight(x) <= Weight(y)}

\* The setting that is restored is another one ("NoPredicte").
Solve ==
  /\ pc = "solving"
  /\ result' = Optimize(AnswerSets)
  /\ pc' = "done"
  /\ UNCHANGED <<ri, sourceNr, noPredicate, applications, call, at, src, names, setting, merged>>

\* dlv cannot be run, or its output cannot be read.
SolverThrows ==
  /\ pc = "solving"
  /\ noPredicate' = setting.noPred
  /\ pc' = "failed"
  /\ UNCHANGED <<ri, sourceNr, applications, call, at, src, names, setting, merged, result>>

\* The caller has taken the answer, or the exception.
Return ==
  /\ pc \in {"done", "failed"}
  /\ pc' = "idle"
  /\ UNCHANGED <<ri, sourceNr, noPredicate, applications, call, at, src, names, setting, merged,
                 result>>

Continue ==
  \/ NameGlobal
  \/ ParseParameter
  \/ RejectParameter
  \/ BuildAggregateFunction
  \/ RejectAggregate
  \/ RenameSourceAtom
  \/ SourceRenamed
  \/ WriteAnswerSetSelection
  \/ WriteCostComputation
  \/ ProgramComplete
  \/ Solve
  \/ SolverThrows
  \/ Return

Next == (\E c \in Calls : Apply(c)) \/ Continue

Spec == Init /\ [][Next]_vars

FairSpec == Spec /\ WF_vars(Continue)

-------------------------------------------------------------------------------
(* Properties.                                                             *)

Roles == {OptAtom, CostAtom, CostSum}
         \cup {Local(s, p.pred) : s \in 1 .. Arity, p \in SourceAtoms}
         \cup UNION {{Selector(s, a) : a \in DOMAIN call.sources[s]} : s \in DOMAIN call.sources}

\* The type invariant.
TypeOK ==
  /\ ri \in Nat
  /\ sourceNr \in Nat
  /\ noPredicate \in {0, 1}
  /\ applications \in 0 .. MaxApplications
  /\ pc \in {"idle", "naming", "parsing", "renaming", "selecting", "solving", "done", "failed"}
  /\ call \in Calls \cup {NoCall}
  /\ at \in Nat \ {0}
  /\ src \in 1 .. Arity + 1
  /\ DOMAIN names \subseteq Roles
  /\ Len(merged) < src

\* No two parts of the written program share a predicate name: the
\* optimisation atom, the cost atoms, the selectors and the renamed predicates
\* of each source differ from each other and from the predicates of the group
\* decision, whatever the sources are called and wherever the static counter
\* stands (findUniqueAtomName, renameSourceAtoms,
\* writeAnswerSetSelectionRules). Otherwise the opinion of one source would be
\* charged to another one.
NamesApart ==
  /\ \A r, q \in DOMAIN names : names[r] = names[q] => r = q
  /\ \A r \in DOMAIN names : names[r] \notin SourcePredicates

\* While rules are written for the answer sets of a source, each predicate
\* in them has its local name: the assertion in writeAnswerSetSelectionRules
\* and the unchecked lookup in writeCostComputationRules never fail
\* (createAtomList collects the atoms before anything is ignored, and
\* renameSourceAtoms runs over all of them for every source).
LocalNamesKnown ==
  pc = "selecting" =>
    \A a \in DOMAIN call.sources[src] : \A l \in call.sources[src][a] :
      Local(src, l.prop.pred) \in DOMAIN names

(* What the help text promises (getInfo): the distance of a group decision *)
(* from the selected answer sets, without names, numbers and limits.       *)

IgnoringKinds == {<<"+", "not">>, <<"-", "not-">>}

UnfoundedKinds == {<<"not", "+">>, <<"not-", "-">>}

\* The kinds of difference between an individual and the group that a rule of
\* the cost model is documented to charge.
Documented(rule) ==
  CASE rule.rule = "ignoring"    -> IgnoringKinds
    [] rule.rule = "unfounded"   -> UnfoundedKinds
    [] rule.rule \in Aberrations -> IgnoringKinds \cup UnfoundedKinds
    [] rule.rule = "triple"      -> {<<rule.individual, rule.group>>}
    [] OTHER                     -> {}

CostParameters == {n \in DOMAIN call.params : call.params[n].key = DistanceKey}

\* The cost of a kind of difference, in tenths: that of the last rule that
\* charges it, or by default that of "ignoring".
DocumentedCost(kind) ==
  LET charging == {n \in CostParameters : kind \in Documented(call.params[n].value)}
      last     == call.params[Max(charging)].value
  IN  IF charging # {} THEN (IF last.rule = "triple" THEN last.factor ELSE 10)
      ELSE IF CostParameters = {} /\ kind \in IgnoringKinds THEN 10 ELSE 0

Opinion(literals, p) ==
  LET in(neg) == [prop |-> p, neg |-> neg] \in literals
  IN  {IF in(FALSE) THEN "+" ELSE "not", IF in(TRUE) THEN "-" ELSE "not-"}

\* The decision is over all atoms; what is ignored is left out.
Disagreement(s, answerSet, d) ==
  MapThenSumSet(
    LAMBDA t : (setting.weights[s] * DocumentedCost(<<t[2], t[3]>>)) \div 10,
    UNION {{l.prop} \X Opinion(answerSet, l.prop) \X Opinion(d, l.prop) : l \in Filtered(d)})

Distance(d, f) ==
  LET of == {<<s, Disagreement(s, call.sources[s][f[s]], d)>> : s \in DOMAIN call.sources}
  IN  IF setting.aggregate = "max" THEN Max({c[2] : c \in of}) ELSE Sum(of)

Closest ==
  LET costed == {[cost |-> Distance(d, f), literals |-> Filtered(d)] :
                   d \in {e \in Decisions : Admissible(e)}, f \in Selections}
  IN  {c.literals : c \in {x \in costed : \A y \in costed : x.cost <= y.cost}}

\* What a program that the user passes makes of the costs is up to the user.
BuiltIn == setting.aggregate \in {"sum", "max"}

ClosestRemain == pc = "done" => {a.literals : a \in result} = Closest

\* The first application: the sources are numbered from 0, and "sum" and "max"
\* find the costs where they look for them. "total" does not use the numbers.
CostsFound ==
  \/ setting.aggregate = "total"
  \/ BuiltIn /\ merged # <<>> /\ merged[1].number = 0

\* What is ignored costs nothing.
IgnoredIsFree ==
  setting.ignored = {} \/ \A i \in {"not", "not-"}, g \in KindSet : DocumentedCost(<<i, g>>) = 0

\* No shortcut charges what the group believes and an individual does not.
NoUnfoundedShortcut ==
  \A n \in CostParameters : call.params[n].value.rule \notin Aberrations \cup {"unfounded"}

\* The operator keeps exactly the admissible group decisions that are closest
\* to the sources, for the cost model as the help text explains it and for the
\* weights, constraints and ignored predicates of the application (getInfo,
\* against the rules written by apply): nothing is lost to a shared name or
\* number, to dlv's integer limit, to the filter or to the order of the
\* sources. It is stated for the first application, for cost models that are
\* spelled as triples or "ignoring", and for predicates that are ignored
\* without cost; the code departs from its help text beyond that (the next
\* four properties).
MinimisesDistance ==
  CostsFound /\ IgnoredIsFree /\ NoUnfoundedShortcut => ClosestRemain

\* The same for the shortcuts "unfounded", "aberration", "dalal" and "dal",
\* which are documented to charge "not,+,1" and "not-,-,1"; parsePenalize sets
\* the first of the two only.
ShortcutsAsDocumented == CostsFound /\ IgnoredIsFree => ClosestRemain

\* The same for every application in a process: "sum" and "max" are documented
\* to minimise the costs of the sources, without a word about how often the
\* operator was applied; writeCostComputationRules goes on counting.
EveryApplicationMinimises ==
  BuiltIn /\ IgnoredIsFree /\ NoUnfoundedShortcut => ClosestRemain

\* The same for all ignored predicates: they are documented to be irrelevant;
\* the rules for their costs are written nevertheless.
IgnoredIsIrrelevant == CostsFound /\ NoUnfoundedShortcut => ClosestRemain

\* The same for a program of the user that sums up what the help text offers to
\* it, cost(B,sum,C); the predicate costSum it is renamed to has two arguments.
DocumentedProgramMinimises ==
  setting.aggregate = "documented" /\ IgnoredIsFree /\ NoUnfoundedShortcut => ClosestRemain
===============================================================================
