-------------------------- MODULE MCHexAnswerCache --------------------------
(***************************************************************************)
(* Small instances of HexAnswerCache.  The main program merges the answers *)
(* of the programs p and q; p itself merges q with the file f, and reads   *)
(* the result, so that loading p goes through the cache again.             *)
(***************************************************************************)
EXTENDS HexAnswerCacheInvariant

Program(p)         == [type |-> "HexProgram", subject |-> p, args |-> <<>>, kv |-> <<>>]
File(p)            == [type |-> "HexFile", subject |-> p, args |-> <<>>, kv |-> <<>>]
Operator(o, as, k) == [type |-> "OperatorCall", subject |-> o, args |-> as, kv |-> k]

MCPrograms == {"main", "p", "q", "f", "bad"}
MCAtoms == {"p1", "p2", "q1", "f1", "k1", "k2"}
MCUserOperators == {"dbo"}
MCKeyValues == {"k1", "k2"}
MCContribution == [o \in MCUserOperators |-> [ks \in SUBSET MCKeyValues |-> {ks}]]
MCSolutions ==
  [p \in MCPrograms |->
     CASE p = "p" -> {{"p1"}, {"p2"}}
       [] p = "q" -> {{"q1"}}
       [] p = "f" -> {{"f1"}, {"q1"}}
       [] OTHER   -> {{}}]
MCBroken == {"bad"}

MCBody ==
  [P  |-> Program("p"), Q |-> Program("q"), F |-> File("f"), X |-> File("bad"),
   V  |-> Operator("setminus", <<"F", "Q">>, <<>>),
   D  |-> Operator("union", <<"P", "V">>, <<>>),
   M  |-> Operator("dbo", <<"D", "P", "D">>, <<"k1">>),
   N  |-> Operator("dbo", <<"D", "P", "D">>, <<"k1", "k2">>),
   N2 |-> Operator("dbo", <<"D", "P", "D">>, <<"k2", "k1">>),
   U  |-> Operator("union", <<"P", "Q">>, <<>>),
   U3 |-> Operator("union", <<"P", "Q", "F">>, <<>>)]
MCExprs == DOMAIN MCBody
MCRank ==
  [e \in MCExprs |->
     CASE e \in {"Q", "F", "X"} -> 0
       [] e = "V" -> 1
       [] e = "P" -> 2
       [] e = "D" -> 3
       [] OTHER -> 4]

\* The cache of the plugin (MergingPlugin.cpp) is built without a limit.
Unlimited == -1

Use(main, nested) ==
  [p \in MCPrograms |-> CASE p = "main" -> main [] p = "p" -> nested [] OTHER -> {}]

\* p reads what it merges; operands are repeated and shared (D, M); two
\* operator calls differ only in the key-values (M, N), two only in their order
\* (N, N2); an operator is applied to too many operands (U3), and a file cannot
\* be evaluated (X).
MCWants == Use({"P", "Q", "F", "V", "D", "M", "N", "N2", "U3", "X"}, {"Q", "F", "V"})
MCReads == Use({"D", "M", "N2"}, {"V"})

\* The same without the failures.
SoundWants == Use({"P", "Q", "F", "V", "D", "M", "N", "N2"}, {"Q", "F", "V"})

\* The same operator applied to two and then to three operands.
PrefixWants == Use({"P", "Q", "F", "U", "U3"}, {"Q", "F", "V"})
PrefixReads == Use({"U"}, {"V"})
=============================================================================
