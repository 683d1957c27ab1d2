------------------------- MODULE MergingPlanCompiler -------------------------
(***************************************************************************)
(* The code generator of the merging plan compiler (CodeGenerator.cpp).    *)
(* A generated HEX program is represented by what its rules say:           *)
(*                                                                         *)
(*   sources      sources(name, A) :- &callhex0["..."](A).                 *)
(*   uses         results(result<id>, A) :- sources(name, A).              *)
(*   arguments    answersets_arg<id>(pos, R) :- results(result<from>, R).  *)
(*   parameters   kv_arg<id>(key, "value").                                *)
(*   applications results(result<head>, A) :-                              *)
(*                   &operator["op", answersets_arg<id>, kv_arg<id>](A).   *)
(*   finals       finalresult(A) :- results(result<id>, A).                *)
(*   transfers    one pair of rules per predicate of the common signature  *)
(*                                                                         *)
(* and by the number of errors found.  A program is a set of rules, so     *)
(* that what is generated twice (a belief base used twice) counts once.    *)
(* The identifiers are strings made from names and "_".  Here they are the *)
(* sequences of the "_"-free segments of these strings: equal strings are  *)
(* equal sequences, and concatenating one concatenates the other.          *)
(***************************************************************************)
EXTENDS MergingPlan

CONSTANT Segments   \* the names of operators and belief bases, cut at "_"

\* What a node is called by: its operator or its belief base.
NameOf(node) == IF IsComposed(node) THEN OperatorName(node) ELSE node.name

ASSUME SegmentsAssumption ==
  /\ Segments \in [DOMAIN Segments -> Seq(STRING)]
  /\ \A p \in Plans : \A n \in DOMAIN p.nodes : NameOf(p.nodes[n]) \in DOMAIN Segments

\* The identifier of an operator application: those of its sources, one after
\* the other. The set of used identifiers that the code looks it up in is
\* never filled, so that no running number is ever added.
ApplicationId(ids) == FlattenSeq(ids)

\* translateRevisionPlan returns an identifier for each node: "_" and the name
\* of the belief base, or "_", the operator and the application's identifier.
\* The mutant forgets the operator.
IdentifiersOfSources(p) ==
  LET id[n \in DOMAIN p.nodes] ==
        LET node == p.nodes[n] IN
        IF IsComposed(node)
          THEN ApplicationId([i \in DOMAIN node.sources |-> id[node.sources[i]]])
          ELSE Segments[node.name]
  IN id

Identifiers(p) ==
  LET id[n \in DOMAIN p.nodes] ==
        LET node == p.nodes[n] IN
        IF IsComposed(node)
          THEN Segments[OperatorName(node)]
                 \o ApplicationId([i \in DOMAIN node.sources |-> id[node.sources[i]]])
          ELSE Segments[node.name]
  IN id

\* translateBeliefBase: a contradictory definition is an error and generates
\* nothing.
SourceRules(p) ==
  {[name |-> LastValue(b, "name"), program |-> BaseProgram(b)] :
     b \in {c \in ToSet(p.bases) : ~Contradictory(c)}}

\* translateRevisionPlan_beliefbase.
UseRules(p) ==
  {[id |-> Identifiers(p)[n], name |-> p.nodes[n].name] :
     n \in {m \in DOMAIN p.nodes : ~IsComposed(p.nodes[m])}}

Composed(p) == {n \in DOMAIN p.nodes : IsComposed(p.nodes[n])}

IdOfArguments(p, n) ==
  LET sources == p.nodes[n].sources IN
  ApplicationId([i \in DOMAIN sources |-> Identifiers(p)[sources[i]]])

\* translateRevisionPlan_composed. Positions count from 0. The mutant does not
\* convert them.
PositionFromOne(i) == i
Position(i) == i - 1

ArgumentRules(p) ==
  UNION {{[id |-> IdOfArguments(p, n), pos |-> Position(i),
           from |-> Identifiers(p)[p.nodes[n].sources[i]]] :
            i \in DOMAIN p.nodes[n].sources} : n \in Composed(p)}

ParameterFacts(p) ==
  UNION {{[id |-> IdOfArguments(p, n), pair |-> q] : q \in Parameters(p.nodes[n])} :
           n \in Composed(p)}

ApplicationRules(p) ==
  {[head |-> Identifiers(p)[n], operator |-> OperatorName(p.nodes[n]),
    id |-> IdOfArguments(p, n)] : n \in Composed(p)}

ErrorCount(p) == Cardinality({i \in DOMAIN p.bases : Contradictory(p.bases[i])})

\* generateCode.
GenerateCode(p) ==
  [sources      |-> SourceRules(p),
   uses         |-> UseRules(p),
   arguments    |-> ArgumentRules(p),
   parameters   |-> ParameterFacts(p),
   applications |-> ApplicationRules(p),
   finals       |-> {Identifiers(p)[r] : r \in p.roots},
   transfers    |-> p.signature,
   errors       |-> ErrorCount(p)]
=============================================================================
