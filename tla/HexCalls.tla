------------------------------- MODULE HexCalls -------------------------------
(***************************************************************************)
(* The keys of the answer cache: what a HexCall asks for, and when two of  *)
(* them are taken for the same.  A call names a nested program (its text), *)
(* a program file, or an operator with the handles it is applied to and    *)
(* its key-value arguments; `subject' is the text, the path or the         *)
(* operator.                                                               *)
(***************************************************************************)
EXTENDS Functions

CallTypes == {"HexProgram", "HexFile", "OperatorCall"}

IsProgram(c) == c.type \in {"HexProgram", "HexFile"}

(***************************************************************************)
(* HexCall::operator==, called on the cached entry c with the new call d.  *)
(* Only the operands of c are compared.  If d has fewer, the loop reads    *)
(* past the end of d's vector, whose content is arbitrary: the calls may   *)
(* or may not be found equal.                                              *)
(***************************************************************************)
\* Mutant: the key-value arguments are compared in one direction only.
MayEqualOneDirection(c, d) ==
  /\ c.type = d.type
  /\ c.subject = d.subject
  /\ \A i \in DOMAIN c.args \cap DOMAIN d.args : c.args[i] = d.args[i]
  /\ Range(c.kv) \subseteq Range(d.kv)

MayEqual(c, d) ==
  /\ c.type = d.type
  /\ c.subject = d.subject
  /\ \A i \in DOMAIN c.args \cap DOMAIN d.args : c.args[i] = d.args[i]
  /\ Range(c.kv) = Range(d.kv)

MustEqual(c, d) == MayEqual(c, d) /\ DOMAIN c.args \subseteq DOMAIN d.args
=============================================================================
