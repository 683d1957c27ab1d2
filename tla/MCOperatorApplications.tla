------------------------ MODULE MCOperatorApplications ------------------------
(***************************************************************************)
(* Small applications of the operators, after the examples dbo1 to dbo7    *)
(* and judgement2. One predicate is called cost2 and one a1, so that       *)
(* numbered names would clash with them.                                   *)
(***************************************************************************)
EXTENDS OperatorApplications

Prop(pred, args) == [pred |-> pred, args |-> args]

A == Prop(<<"a", 0>>, <<>>)
A1 == Prop(<<"a", 1>>, <<>>)
B == Prop(<<"b", 0>>, <<>>)
Cost2 == Prop(<<"cost", 2>>, <<>>)
PA == Prop(<<"p", 0>>, <<"a">>)
PB == Prop(<<"p", 0>>, <<"b">>)

MCPropositions == {A, A1, B, Cost2, PA, PB}
MCOrder == <<A, A1, B, Cost2, PA, PB>>

Yes(p) == [prop |-> p, neg |-> FALSE]
No(p) == [prop |-> p, neg |-> TRUE]

Param(k, v) == [key |-> k, value |-> v]
Lit(p, k) == [prop |-> p, kind |-> k]
Call(sources, params) == [sources |-> sources, params |-> params]

\* dbo3, and the same with other weights, aggregates and limits.
Opposed == << <<{Yes(A), No(B)}>>, <<{No(A), Yes(B)}>> >>
NotAWithoutB == Param("constraint", {{Lit(A, "+"), Lit(B, "not")}})

\* Several answer sets, and a predicate that looks like a numbered one.
Several == << <<{Yes(A), Yes(Cost2)}, {Yes(B)}>>, <<{No(A), Yes(Cost2)}>>, <<{Yes(B), Yes(A1)}>> >>

\* What "unfounded" is documented to stand for, spelled as triples.
UnfoundedTriples(key) == <<Param(key, Triple("not", "+", 10)), Param(key, Triple("not-", "-", 10))>>

\* Beliefs that only one source has.
Apart == << <<{Yes(A)}>>, <<{Yes(B)}>> >>

\* The rule a :- p(a) for the group, with a to be ignored.
AFollows == Param("constraint", {{Lit(PA, "+"), Lit(A, "not")}})

\* dbo6: the constraint is over ignored predicates, too.
Relations == << <<{Yes(PA), Yes(A)}>>, <<{Yes(PB), Yes(B)}>> >>

\* A source without an answer set.
Contradiction == << <<{Yes(A)}>>, <<>> >>

MCCalls ==
  {Call(Opposed, <<NotAWithoutB>>),
   Call(Opposed, <<Param("weights", <<1, 2>>), Param("aggregate", "max"),
                   Param("bsdistance", Shortcut("dal"))>>),
   Call(Opposed, <<Param("weights", <<3, 1>>), Param("bsdistance", Triple("+", "-", 15)),
                   Param("bsdistance", Triple("-", "+", 5)), Param("aggregate", "total"),
                   Param("maxint", 2)>>),
   Call(Several, <<Param("aggregate", "total")>>),
   Call(Several, <<Param("bsdistance", Shortcut("unfounded")),
                   Param("bsdistance", Triple("+", "not", 20))>>),
   Call(Relations, <<Param("constraint", {{Lit(PA, "+"), Lit(PB, "+")}}),
                     Param("constraintfile", {{Lit(A, "+"), Lit(B, "+")}}),
                     Param("ignore", {<<"a", 0>>, <<"b", 0>>})>>),
   Call(Several, <<Param("bsdistance", Shortcut("ignoring"))>> \o UnfoundedTriples("bsdistance")),
   Call(Apart, UnfoundedTriples("bsdistance")),
   Call(Apart, <<Param("bsdistance", Shortcut("unfounded"))>>),
   Call(Relations, <<Param("bsdistance", Shortcut("ignoring")),
                     Param("bsdistance", Triple("not", "+", 10)), AFollows,
                     Param("ignore", {<<"a", 0>>})>>),
   Call(Contradiction, <<>>),
   Call(<<>>, <<>>),
   Call(Several, <<Param("aggregate", "documented")>>),
   Call(Opposed, <<Param("weights", <<1>>)>>),
   Call(Opposed, <<Param("bsdistance", Shortcut("malformed"))>>)}

MCDalalCalls ==
  {Call(Several, <<Param("penalize", Shortcut("ignoring")), Param("penalize", Shortcut("aberration")),
                   Param("weights", <<2, 1, 1>>)>>),
   Call(Opposed, <<Param("aggregate", "total"), Param("penalize", Triple("not-", "-", 10))>>),
   Call(Apart, UnfoundedTriples("penalize") \o <<Param("aggregate", "max")>>),
   Call(Opposed, <<Param("maxint", 0)>>)}

\* Up to three answer sets, for, against and without a vote.
Ballots == {{Yes(B)}, {No(B), Yes(A)}, {Yes(A)}}
MCMajorityCalls ==
  {Call(<<answer>>, <<Param("majorityOf", <<"b", 0>>)>>) :
     answer \in UNION {[1 .. n -> Ballots] : n \in 0 .. 3}}
  \cup {Call(<< <<{Yes(PA)}>> >>, <<Param("majorityOf", <<"p", 0>>)>>),
        Call(Opposed, <<Param("majorityOf", <<"b", 0>>)>>),
        Call(<< <<{Yes(A), No(B)}, {No(A), No(B)}, {Yes(A)}>> >>,
             <<Param("majorityOf", <<"a", 0>>), Param("majorityOf", <<"b", 0>>)>>),
        Call(<< <<{Yes(A)}>> >>, <<>>)}

\* Relations over the key k and the attributes x and y.
Source(schema, data) == [answerSets |-> 1, schemas |-> <<schema>>, data |-> data]

MCSources ==
  {Source(<<"k", "x">>, d) :
     d \in {{<<1, 1>>}, {<<1, 2>>, <<2, 1>>}, {<<1, 1>>, <<1, 2>>, <<2, 2>>}, {}}}
  \cup {Source(<<"k", "y", "x">>, d) : d \in {{<<1, 1, 1>>}, {<<1, 2, 1>>, <<2, 1, 2>>}}}
  \cup {Source(<<"x", "k">>, {<<1, 2>>}), Source(<<"x">>, {<<1>>}),
        [answerSets |-> 2, schemas |-> << <<"k", "x">> >>, data |-> {}]}

RelationCall(sources, rules, defaults, schema) ==
  [sources |-> sources, key |-> <<"k">>, schema |-> schema, rules |-> rules, defaults |-> defaults]

MCRelationCalls ==
  {RelationCall(<<s, t>>, rules, defaults, <<"k", "x", "y">>) :
     s \in MCSources, t \in MCSources, rules \in {<<>>, [a \in {"x"} |-> 1]},
     defaults \in {<<>>, [a \in {"y"} |-> 9]}}
  \cup {RelationCall(<<s>>, <<>>, <<>>, schema) :
          s \in MCSources, schema \in {<<"k">>, <<"k", "x">>}}
===============================================================================
