------------------------------ MODULE MergingTask ------------------------------
(***************************************************************************)
(* What a merging plan promises: sections are merged bottom up, each with  *)
(* its own operator, key-value arguments and sources in the order of the   *)
(* file, "such that only one final result survives at the end of the day"  *)
(* (documentation.dox), and the literals of the common signature in that   *)
(* result are delivered.  Nothing is said of handles, identifiers, rules   *)
(* or of the order in which independent sections are merged.               *)
(***************************************************************************)
EXTENDS MergingPlan

VARIABLES
  plan,     \* the merging plan
  merged,   \* the answers of the sections that are merged so far
  output    \* the answer sets delivered, or nothing yet

taskVars == <<plan, merged, output>>

Pending == [delivered |-> FALSE, sets |-> {}]

\* The belief base is defined; the sources are merged, and the operator exists
\* and accepts what it is given.
Ready(n) ==
  LET node == plan.nodes[n] IN
  IF IsComposed(node)
    THEN /\ ToSet(node.sources) \subseteq DOMAIN merged
         /\ OperatorName(node) \in Operators
         /\ Accepts(OperatorName(node), Len(node.sources), SetToSeq(Parameters(node)))
    ELSE \E i \in DOMAIN plan.bases : LastValue(plan.bases[i], "name") = node.name

\* The answer of a section, given those of its sources.
Result(n) ==
  LET node == plan.nodes[n] IN
  IF IsComposed(node)
    THEN Apply(OperatorName(node),
               [i \in DOMAIN node.sources |-> merged[node.sources[i]]],
               SetToSeq(Parameters(node)))
    ELSE LET i == CHOOSE i \in DOMAIN plan.bases : LastValue(plan.bases[i], "name") = node.name
         IN Content[BaseProgram(plan.bases[i])]

\* Literals over the predicates of the common signature.
Relevant(s) == {a \in s : [pred |-> a.pred, arity |-> Len(a.args)] \in plan.signature}
-----------------------------------------------------------------------------
TaskInit ==
  /\ plan \in Plans
  /\ merged = <<>>
  /\ output = Pending

\* Some sections are merged: several, when they ask for the same thing.
Merge ==
  \E N \in SUBSET (DOMAIN plan.nodes \ DOMAIN merged) :
    /\ N # {}
    /\ \A n \in N : Ready(n)
    /\ merged' = [n \in DOMAIN merged \cup N |->
                    IF n \in N THEN Result(n) ELSE merged[n]]
    /\ UNCHANGED <<plan, output>>

Deliver ==
  /\ ~output.delivered
  /\ plan.roots \subseteq DOMAIN merged
  /\ output' = [delivered |-> TRUE,
                sets |-> {Relevant(s) : s \in UNION {merged[r] : r \in plan.roots}}]
  /\ UNCHANGED <<plan, merged>>

TaskNext == Merge \/ Deliver

TaskSpec == TaskInit /\ [][TaskNext]_taskVars
=============================================================================
