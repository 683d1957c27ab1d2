----------------------------- MODULE MCPluginSession -----------------------------
(***************************************************************************)
(* Small file systems, command lines, rewriters and merging plans.         *)
(***************************************************************************)
EXTENDS PluginSession

\* Paths are sequences of characters: "s" and "u" are the directories that are
\* always searched, "d" one that the user may name. Below "s" there is a
\* directory whose name ends with ".so".
S == <<"s">>
U == <<"u">>
D == <<"d">>
Mixed == <<"d", "d", "d", "d", "d", "d", "d">>
Nested == <<"s", "n.so">>
LibA == <<"s", "a.so">>
LibB == <<"s", "n.so", "b.so">>
Plain == <<"s", "a.txt">>
NoOperators == <<"u", "p.so">>
LibC == <<"d", "c.so">>
LibD == <<"d", "d.so">>
LibE == <<"e">>
Missing == <<"m">>
Cut == <<"-", "-", "o", "p", "=", "d">>

MCEntries ==
  [p \in {S, U, D, Nested} |->
     CASE p = S -> {LibA, Nested, Plain}
       [] p = Nested -> {LibB}
       [] p = U -> {NoOperators}
       [] p = D -> {LibC, LibD}]

MCSharedObjects == {LibA, LibB, Nested, NoOperators, LibC, LibD}

\* Two libraries of the user's directory with an operator of the same name, and
\* one with the name of a built-in operator.
MCLibraries ==
  [p \in {LibA, LibB, LibC, LibD, LibE} |->
     CASE p = LibA -> <<"dbo", "dalal">>
       [] p = LibB -> <<"avg">>
       [] p = LibC -> <<"vote", "max">>
       [] p = LibD -> <<"min", "vote">>
       [] p = LibE -> <<"sum", "union">>]

MCPaths == {S, U, D, Nested, LibA, LibB, Plain, NoOperators, LibC, LibD, LibE, Missing, Cut, <<>>}
MCBuiltIns == {"union", "setminus"}
MCDescribed == {"union", "setminus", "dbo", "dalal"}
MCSystemDirs == <<S, U>>

Paths1(value) ==
  [kind |-> "operatorpath", prefix |-> <<"-", "-", "o", "p", "=">>, value |-> value,
   command |-> "none"]
Option1(kind, cmd) ==
  [kind |-> kind, prefix |-> <<>>, value |-> IF cmd = "none" THEN <<>> ELSE <<"x">>,
   command |-> cmd]

\* Lists that are too short to be cut, and one that is not: what is left of it
\* is its last character.
ShortList == D \o <<",">> \o LibC
LongList == D \o <<",">> \o <<"e", "e", "e", "e", "e", "e">>

Merging == Option1("merging", "none")
Dump == Option1("mergingdump", "none")
Other == Option1("filter", "a")

\* Rewriters: one that buffers, one that doubles lines, one that drops some, one
\* that fails.
Program3 == <<"r1", "r2", "r3">>
RuleLines == {"r1", "r2", "r3"}
MCCommands ==
  [c \in {"sort", "double", "grep", "fails", "dlv --", "dlv -FR", "dlv -costs", "dlv bad"} |->
     [buffers |-> c \notin {"double", "grep"},
      exit    |-> IF c = "fails" THEN 1 ELSE 0,
      output  |-> [l \in RuleLines |->
        CASE c \in {"sort", "fails"} -> <<l>>
          [] c = "double"  -> <<l, l>>
          [] c = "grep"    -> IF l = "r2" THEN <<>> ELSE <<l>>
          [] c = "dlv --"  -> IF l = "r2" THEN <<"set b">> ELSE <<"set a">>
          [] c = "dlv -FR" -> IF l = "r1" THEN <<"diagnosis">> ELSE <<"diagnosis of 2">>
          [] c = "dlv -costs" -> IF l = "r1" THEN <<"best", "cost">> ELSE <<>>
          [] c = "dlv bad" -> IF l = "r1" THEN <<"set a">> ELSE <<"open">>]]]

MCTokens ==
  [l \in RuleLines \cup {"set a", "set b", "diagnosis", "diagnosis of 2", "best", "cost", "open"} |->
     CASE l = "set a" -> <<"{", "a", "}">>
       [] l = "set b" -> <<"{", "b", "c", "}">>
       [] l = "diagnosis" -> <<"Diagnosis: ", "h1">>
       [] l = "diagnosis of 2" -> <<"Diagnosis: ", "h1", "h2">>
       [] l = "best" -> <<"Best model: ", "{", "a", "}", ".">>
       [] l = "cost" -> <<"Cost: ", "1">>
       [] l = "open" -> <<"{", "a">>
       [] OTHER -> <<l>>]

\* Merging plans.
Item(t) == [t |-> t]
Pair(k, v) == [t |-> "pair", key |-> k, value |-> v]
KV(k, v) == [key |-> k, value |-> v]
Predicate(p) == [t |-> "predicate", pred |-> p, arity |-> 0]
Plan(nodes) == [t |-> "plan", nodes |-> nodes]
Use(b) == [name |-> b]
Section(pairs, sources) == [pairs |-> pairs, sources |-> sources]
Bad(counted) == [t |-> "bad", counted |-> counted]

Declarations ==
  <<Item("cs"), Predicate("a"), Predicate("b"), Item("bb"), Pair("name", "b1"),
    Pair("mapping", "a."), Item("bb"), Pair("name", "b2"), Pair("source", "b.hex")>>
Merge ==
  Plan(<<Use("b1"), Use("b2"), Section(<<KV("operator", "union")>>, <<1, 2>>)>>)

Whole == Declarations \o <<Merge>>
TwoPlans == Whole \o <<Plan(<<Use("b2"), Section(<<KV("operator", "dbo"), KV("k", "v")>>, <<1>>)>>)>>
LonePair == Declarations \o <<Plan(<<Section(<<KV("operator", "dbo")>>, <<>>)>>)>>
LoneSource == Declarations \o <<Plan(<<Use("b1"), Section(<<>>, <<1>>)>>)>>
Contradictory == <<Item("bb"), Pair("name", "b1"), Pair("mapping", "a."), Pair("source", "b.hex"),
                   Plan(<<Use("b1")>>)>>
\* A pair that is not closed; a pair without a section; a stray character.
Unclosed == SubSeq(Declarations, 1, 5) \o <<Bad(TRUE), Merge>>
Continued == SubSeq(Declarations, 1, 4)
Continuation == SubSeq(Declarations, 5, 9) \o <<Merge>>
Trailing == Whole \o <<Bad(FALSE)>>
EmptySignature == <<Item("cs")>> \o SubSeq(Declarations, 4, 6) \o <<Plan(<<Use("b1")>>)>>

MCFiles ==
  [f \in {"whole", "declarations", "merge", "lone", "contradictory", "unclosed", "continued",
          "continuation", "trailing", "nosignature", "empty"} |->
     CASE f = "whole" -> TwoPlans
       [] f = "declarations" -> Declarations
       [] f = "merge" -> <<Merge>>
       [] f = "lone" -> LonePair
       [] f = "contradictory" -> Contradictory
       [] f = "unclosed" -> Unclosed
       [] f = "continued" -> Continued
       [] f = "continuation" -> Continuation
       [] f = "trailing" -> Trailing
       [] f = "nosignature" -> EmptySignature
       [] f = "empty" -> <<>>]

Parsers == {<<>>, <<"-bison">>, <<"-bison", "-spirit">>}
MCArguments ==
  {<<>>, <<"-help">>, <<"-parsetree", "whole">>, <<"-bison", "-parsetree">>, <<"-parsetree">>}
  \cup {p \o f : p \in Parsers \ {<<>>},
                 f \in {<<>>, <<"--">>, <<"declarations", "merge">>, <<"--", "--">>}}
  \cup {p \o f : p \in Parsers,
                 f \in {<<g>> : g \in DOMAIN MCFiles \cup {"nofile"}}
                       \cup {<<"continued", "continuation">>, <<"whole", "unclosed">>,
                             <<"declarations", "whole">>}}

MCCalls ==
  [line \in
     {<<>>, <<Other, Paths1(LibC), Option1("operatordebug", "none")>>,
      <<Paths1(D)>>, <<Paths1(LibE)>>, <<Paths1(LibA)>>, <<Paths1(Missing), Paths1(LibD), Other>>,
      <<Paths1(LibD), Paths1(<<>>)>>, <<Paths1(ShortList)>>, <<Paths1(LongList)>>,
      <<Option1("operatorinfo", "dbo"), Other>>, <<Option1("operatorinfo", "vote")>>,
      <<Option1("operatorinfo", "avg")>>,
      <<Merging>>, <<Other, Dump>>, <<Merging, Option1("dlv", "none")>>}
     \cup {<<Option1("inputrewriter", c)>> : c \in {"sort", "double", "grep", "fails"}}
     \cup {<<Option1("dlv", c)>> : c \in {"none", "dlv -FR", "dlv -costs", "dlv bad", "fails"}} |->
   IF \E i \in DOMAIN line : line[i].kind \in {"merging", "mergingdump"}
     THEN {Whole, TwoPlans, LonePair, LoneSource, Contradictory, Unclosed, Trailing, <<>>}
   ELSE IF \E i \in DOMAIN line : line[i].kind \in {"inputrewriter", "dlv"}
     THEN {<<>>, <<"r1">>, Program3, Program3 \o Program3}
   ELSE {Program3}]

MCSegments ==
  [s \in {"b1", "b2", "union", "dbo", "", "damaged"} |-> <<s>>]
=============================================================================
