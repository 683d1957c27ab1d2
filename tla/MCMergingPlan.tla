----------------------------- MODULE MCMergingPlan -----------------------------
(***************************************************************************)
(* Small merging plans. Every belief base has at most two answer sets over *)
(* the predicates a/0, b/0, p/1 and q/2, of which q is not always in the   *)
(* common signature.                                                       *)
(***************************************************************************)
EXTENDS MergingPlanEvaluation

Pos(pred, args) == Atom(FALSE, pred, args)
Neg(pred, args) == Atom(TRUE, pred, args)

A == Pos("a", <<>>)
B == Pos("b", <<>>)
PC == Pos("p", <<"c">>)
QCD == Pos("q", <<"c", "d">>)
K1 == Pos("k", <<"1">>)
K2 == Pos("k", <<"2">>)
NotB == Neg("b", <<>>)
NotPC == Neg("p", <<"c">>)

MCAtoms == {A, B, PC, QCD, K1, K2, NotB, NotPC}

Pair(k, v) == [key |-> k, value |-> v]
Operator(o) == Pair("operator", o)
MCKeyValues == {Pair("weight", "1"), Pair("weight", "2"), Pair("mode", "max")}

\* A library operator that tells what it was given.
MCUserOperators == {"dbo"}
MCContribution ==
  [o \in MCUserOperators |->
     [ks \in SUBSET MCKeyValues |->
        {IF Pair("weight", "1") \in ks THEN {K1} ELSE {},
         IF Pair("weight", "2") \in ks THEN {K2} ELSE {}}]]

MCContent ==
  [c \in {[type |-> "HexProgram", subject |-> <<"a.">>],
          [type |-> "HexProgram", subject |-> <<"b v p(c).">>],
          [type |-> "HexProgram", subject |-> <<"a.", "q(c,d).">>],
          [type |-> "HexProgram", subject |-> <<>>],
          [type |-> "HexProgram", subject |-> <<"-b. -p(c).">>],
          [type |-> "HexProgram", subject |-> <<"a">>],
          [type |-> "HexFile", subject |-> <<"base.hex">>]} |->
     CASE c.subject = <<"a.">>            -> {{A}}
       [] c.subject = <<"b v p(c).">>     -> {{B}, {PC}}
       [] c.subject = <<"a.", "q(c,d).">> -> {{A, QCD}}
       [] c.subject = <<>>                -> {{}}
       [] c.subject = <<"-b. -p(c).">>    -> {{NotB, NotPC}}
       [] c.subject = <<"base.hex">>      -> {{B}}
       [] OTHER                           -> {}]

\* The mapping "a" is not a program: the full stop is missing.
MCBroken == {[type |-> "HexProgram", subject |-> <<"a">>]}

Base(name, mappings) ==
  <<Pair("name", name)>> \o [i \in DOMAIN mappings |-> Pair("mapping", mappings[i])]
FileBase(name, file) == <<Pair("name", name), Pair("source", file)>>

Uses(name) == [kind |-> "datasource", name |-> name]
Merges(op, pairs, srcs) ==
  [kind |-> "revisionplansection", pairs |-> <<Operator(op)>> \o pairs, sources |-> srcs]

Sig(names) == {t \in {[pred |-> "a", arity |-> 0], [pred |-> "b", arity |-> 0],
                      [pred |-> "p", arity |-> 1], [pred |-> "q", arity |-> 2],
                      [pred |-> "k", arity |-> 1]} : t.pred \in names}

W1 == Pair("weight", "1")
W2 == Pair("weight", "2")
Mode == Pair("mode", "max")

B1 == Base("b1", <<"a.">>)
B2 == Base("b2", <<"b v p(c).">>)
B3 == Base("b_3", <<"a.", "q(c,d).">>)

PlanOf(bases, nodes, root, preds) ==
  [bases |-> bases, nodes |-> nodes, roots |-> {root}, signature |-> Sig(preds)]

\* Nested sections, with arguments, a repeated belief base and a key that is
\* given twice.
Nested ==
  PlanOf(<<B1, B2, B3>>,
         <<Uses("b1"), Uses("b2"), Uses("b_3"), Merges("union", <<>>, <<1, 2>>),
           Uses("b1"), Merges("setminus", <<>>, <<3, 5>>),
           Merges("union", <<W1, Mode, Operator("dbo")>>, <<4, 6, 2>>)>>,
         7, {"a", "b", "p", "k"})

\* The same sub-plan twice, another operator on the same sources, and two
\* belief bases with the same mappings.
Shared ==
  PlanOf(<<B1, B2, Base("b4", <<"a.">>)>>,
         <<Uses("b1"), Uses("b2"), Merges("union", <<>>, <<1, 2>>),
           Uses("b1"), Uses("b2"), Merges("union", <<>>, <<4, 5>>),
           Uses("b4"), Merges("union", <<>>, <<7, 2>>),
           Merges("setminus", <<>>, <<1, 2>>),
           Merges("dbo", <<W2, W1>>, <<3, 6, 8, 9>>)>>,
         10, {"a", "b", "k"})

\* A file, an empty belief base, an operator without operands.
Small ==
  PlanOf(<<FileBase("b5", "base.hex"), Base("b6", <<>>)>>,
         <<Uses("b5"), Uses("b6"), Merges("setminus", <<>>, <<1, 2>>),
           Merges("dbo", <<W1, W2>>, <<>>), Merges("union", <<>>, <<3, 4>>)>>,
         5, {"b", "k", "q"})

\* Sections with different arguments for one operator.
Weighted ==
  PlanOf(<<B1, B2>>,
         <<Uses("b1"), Uses("b2"), Merges("dbo", <<W1>>, <<1>>),
           Merges("dbo", <<Mode, W2>>, <<2>>), Merges("dbo", <<>>, <<3, 4>>)>>,
         5, {"k"})

\* A plan that is only a belief base, and a file without a merging plan.
Single == PlanOf(<<B1, B2>>, <<Uses("b2")>>, 1, {"b", "p"})
NoPlan == [bases |-> <<B1>>, nodes |-> <<>>, roots |-> {}, signature |-> Sig({"a"})]

\* Faults: contradictory and broken belief bases, an unknown operator, an
\* operator given too many operands or an argument it does not know, and the
\* last operand missing.
Contradiction ==
  PlanOf(<<B1, FileBase("b5", "base.hex") \o <<Pair("mapping", "a.")>> >>,
         <<Uses("b1")>>, 1, {"a"})
SyntaxError ==
  PlanOf(<<B1, B2, Base("b7", <<"a">>)>>,
         <<Uses("b1"), Uses("b2"), Merges("union", <<>>, <<1, 2>>)>>, 3, {"a"})
Unknown == PlanOf(<<B1>>, <<Uses("b1"), Merges("avg", <<W1>>, <<1>>)>>, 2, {"a"})
TooMany ==
  PlanOf(<<B1, B2>>, <<Uses("b1"), Uses("b2"), Merges("union", <<>>, <<1, 2, 1>>)>>, 3, {"a"})
BadArgument ==
  PlanOf(<<B1, B2>>, <<Uses("b1"), Uses("b2"), Merges("union", <<W1>>, <<1, 2>>)>>, 3, {"a"})
LastMissing ==
  PlanOf(<<B1>>, <<Uses("b1"), Uses("b2"), Merges("union", <<>>, <<1, 2>>)>>, 3, {"a"})

MCPlans == {Nested, Shared, Small, Weighted, Single, NoPlan, Contradiction, SyntaxError,
            Unknown, TooMany, BadArgument, LastMissing}

\* Two applications of an operator to the same sources, with different
\* arguments.
AmbiguousPlans ==
  {PlanOf(<<B1, B2>>,
          <<Uses("b1"), Uses("b2"), Merges("dbo", <<W1>>, <<1, 2>>),
            Merges("dbo", <<W2>>, <<1, 2>>), Merges("union", <<>>, <<3, 4>>)>>,
          5, {"a", "b", "k"})}

\* Negated literals over predicates of the common signature.
NegatedPlans ==
  {PlanOf(<<B1, Base("b8", <<"-b. -p(c).">>)>>,
          <<Uses("b1"), Uses("b8"), Merges("union", <<>>, <<1, 2>>)>>,
          3, {"a", "b", "p"})}

\* The belief base of the first operand is not defined.
UndeclaredPlans ==
  {PlanOf(<<B1>>, <<Uses("b2"), Uses("b1"), Merges("union", <<>>, <<1, 2>>)>>, 3, {"a"})}

\* The "_"-free segments of the names.
MCSegments ==
  [s \in {"b1", "b2", "b_3", "b4", "b5", "b6", "b7", "b8", "union", "setminus", "dbo", "avg"} |->
     IF s = "b_3" THEN <<"b", "3">> ELSE <<s>>]
=============================================================================
