------------------------------ MODULE MergingPlan ------------------------------
(***************************************************************************)
(* The input of the merging plan compiler: the parse tree of a merging     *)
(* plan file (ParseTreeNode.h), and what evaluating its parts can deliver. *)
(*                                                                         *)
(* A plan is a record                                                      *)
(*   bases     : the [belief base] sections, each the sequence of its      *)
(*               key-value pairs,                                          *)
(*   nodes     : the sections of the merging plan, sources before the      *)
(*               sections that merge them,                                 *)
(*   roots     : the nodes that are the child of a [merging plan] section, *)
(*   signature : the predicates, with their arities, of the sections       *)
(*               [common signature].                                       *)
(* A node is a "datasource" with the name of a belief base, or a           *)
(* "revisionplansection" with key-value pairs and sources.                 *)
(*                                                                         *)
(* Names and values are identifiers of the grammar (letters, digits, "_"   *)
(* and "-"), on which quote() and unquote() change nothing.                *)
(***************************************************************************)
EXTENDS MergeOperators, SequencesExt

CONSTANTS
  Plans,     \* the merging plan files
  Content,   \* type and text of a program or file -> its answer
  Broken     \* programs and files whose evaluation throws

\* A ground atom; neg: strongly negated.
Atom(neg, pred, args) == [neg |-> neg, pred |-> pred, args |-> args]

\* The values given for a key, in the order of the file.
Values(pairs, key) ==
  LET given == SelectSeq(pairs, LAMBDA p : p.key = key) IN
  [i \in DOMAIN given |-> given[i].value]

\* A key that is given several times has the value given last, and an empty
\* one when it is missing.
LastValue(pairs, key) ==
  LET given == Values(pairs, key) IN IF given = <<>> THEN "" ELSE Last(given)

\* Key-value pairs of a section that are passed to its operator.
Parameters(node) == {p \in ToSet(node.pairs) : p.key # "operator"}

\* The operator of a section.
OperatorName(node) == LastValue(node.pairs, "operator")

IsComposed(node) == node.kind = "revisionplansection"

\* The nested program or the file that a belief base stands for: all its
\* mappings in order, or the files it names.
BaseProgram(b) ==
  IF Values(b, "source") # <<>>
    THEN [type |-> "HexFile", subject |-> Values(b, "source")]
    ELSE [type |-> "HexProgram", subject |-> Values(b, "mapping")]

\* Mappings and an external program exclude each other.
Contradictory(b) == Values(b, "source") # <<>> /\ Values(b, "mapping") # <<>>

Programs == DOMAIN Content

\* Functions on 1 .. n; plans hold sequences of records of different shapes.
IsList(s) == Len(s) \in Nat /\ DOMAIN s = 1 .. Len(s)

ASSUME PlansAssumption ==
  /\ Content \in [Programs -> Answers]
  /\ Broken \subseteq Programs
  /\ IsFiniteSet(KeyValues)
  /\ \A p \in Plans :
       /\ IsList(p.bases)
       /\ IsList(p.nodes)
       /\ p.roots \subseteq DOMAIN p.nodes
       /\ \A n \in DOMAIN p.nodes : IsComposed(p.nodes[n]) =>
            /\ IsList(p.nodes[n].sources)
            /\ \A i \in DOMAIN p.nodes[n].sources : p.nodes[n].sources[i] \in 1 .. n - 1
            /\ Parameters(p.nodes[n]) \subseteq KeyValues
       /\ \A b \in ToSet(p.bases) : ~Contradictory(b) => BaseProgram(b) \in Programs

\* The programs of a run have finitely many atoms.
ASSUME LiteralsAssumption ==
  /\ IsFiniteSet(Atoms)
  /\ Atoms \subseteq [neg : BOOLEAN, pred : STRING, args : Seq(STRING)]
  /\ \A p \in Plans : p.signature \subseteq [pred : STRING, arity : Nat]
=============================================================================
