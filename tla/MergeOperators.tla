--------------------------- MODULE MergeOperators ---------------------------
(***************************************************************************)
(* The merging operators as functions from answers to an answer.  An       *)
(* answer of a HEX program is a set of answer sets and an answer set is a  *)
(* set of atoms (PublicTypes.h, HexAnswer); the order in which the vector  *)
(* lists the answer sets is abstracted away here.                          *)
(*                                                                         *)
(* "union" and "setminus" are the operators the plugin is built with.      *)
(* Every other operator comes from a shared library found by               *)
(* --operatorpath; of those the plugin only knows that apply() computes an *)
(* answer from the operands and the key-value arguments, so they are       *)
(* modelled by a table of contributions to which the operands are added.   *)
(***************************************************************************)
EXTENDS Naturals, Sequences, Functions

CONSTANTS
  Atoms,          \* ground atoms, the elements of the answer sets
  KeyValues,      \* key-value pairs an operator may be given
  UserOperators,  \* operators loaded from shared libraries
  Contribution    \* what a user operator adds, per set of key-values

Answers == SUBSET (SUBSET Atoms)

BuiltIn == {"union", "setminus"}

Operators == BuiltIn \cup UserOperators

ASSUME OperatorsAssumption ==
  /\ BuiltIn \cap UserOperators = {}
  /\ Contribution \in [UserOperators -> [SUBSET KeyValues -> Answers]]

\* Pairwise union of the answer sets of two answers.
OpUnion(a, b) == {s \cup t : s \in a, t \in b}

\* Pairwise difference of the answer sets of two answers.
OpSetminus(a, b) == {s \ t : s \in a, t \in b}

\* An operator from a library: it sees every operand and all key-values.
UserOperator(op, inputs, kv) ==
  {s \cup UNION {UNION inputs[i] : i \in DOMAIN inputs} : s \in Contribution[op][Range(kv)]}

\* The built-in operators throw unless they are given two operands and no
\* key-value arguments (getRecognizedParameters is empty); a library operator
\* that does not override getRecognizedParameters has its arguments unchecked.
Accepts(op, n, kv) == op \in BuiltIn => n = 2 /\ kv = <<>>

Apply(op, inputs, kv) ==
  CASE op = "union"    -> OpUnion(inputs[1], inputs[2])
    [] op = "setminus" -> OpSetminus(inputs[1], inputs[2])
    [] OTHER           -> UserOperator(op, inputs, kv)
=============================================================================
