---------------------------- MODULE MergingPlanParser ----------------------------
(***************************************************************************)
(* From the text of merging plans to parse trees: the parser built with    *)
(* boost spirit (SpiritParser.cpp), the one generated by bison             *)
(* (BisonParserImpl.ypp) and the input files of both (IParser.cpp).        *)
(*                                                                         *)
(* A text is a sequence of items: the headers "cs" and "bb" of             *)
(* [common signature] and [belief base], a "predicate" or a "pair" in such *)
(* a section, a "plan" ([merging plan] with everything in its braces), or  *)
(* something "bad" that no rule of the grammars accepts. Both scanners     *)
(* read the items alike. A plan lists its sections, sources before the     *)
(* sections that merge them: [name] for `{ name }', and [pairs, sources].  *)
(*                                                                         *)
(* A tree is a plan of module MergingPlan.                                 *)
(***************************************************************************)
EXTENDS Naturals, FiniteSets, SequencesExt

CONSTANTS
  Files,          \* the names of the files that can be opened -> their texts
  StandardInput,  \* the text on standard input
  Damaged         \* a name for what is read through a pointer to a wrong type

\* Items as the scanners read them. No data source has the name that stands for
\* what is read through a wrong pointer.
KeyValuePairs == [key : STRING, value : STRING]
Braces == [name : STRING \ {Damaged}] \cup [pairs : Seq(KeyValuePairs), sources : Seq(Nat)]

Items ==
  [t : {"cs", "bb"}] \cup [t : {"plan"}, nodes : Seq(Braces)] \cup
  [t : {"predicate"}, pred : STRING, arity : Nat] \cup
  [t : {"pair"}, key : STRING, value : STRING] \cup [t : {"bad"}, counted : BOOLEAN]

ASSUME TextsAssumption ==
  StandardInput \in Seq(Items) /\ \A f \in DOMAIN Files : Files[f] \in Seq(Items)

IsHeader(i) == i.t \in {"cs", "bb", "plan"}

\* The grammar: what item i may follow.
Continues(i, previous) ==
  \/ i.t = "predicate" /\ previous.t \in {"cs", "predicate"}
  \/ i.t = "pair" /\ previous.t \in {"bb", "pair"}

Fits(text, k) == IsHeader(text[k]) \/ (k > 1 /\ Continues(text[k], text[k - 1]))

\* The longest prefix of a text that is a program.
Accepted(text) ==
  CHOOSE k \in 0 .. Len(text) :
    /\ \A j \in 1 .. k : Fits(text, j)
    /\ k < Len(text) => ~Fits(text, k + 1)

Grammatical(text) == Accepted(text) = Len(text)

KeyValue(i) == [key |-> i.key, value |-> i.value]
Declared(i) == [pred |-> i.pred, arity |-> i.arity]
-----------------------------------------------------------------------------
\* SpiritParser::createParseTree.

\* Mutant: the next header does not end a section.
ChildrenBehind(text, h, t) == SelectSeq(SubSeq(text, h + 1, Len(text)), LAMBDA i : i.t = t)

\* The items of type t that a header at place h has as its children.
LastChild(text, h, t) ==
  CHOOSE k \in h .. Len(text) :
    /\ \A j \in h + 1 .. k : text[j].t = t
    /\ k < Len(text) => text[k + 1].t # t

ChildrenOf(text, h, t) == SubSeq(text, h + 1, LastChild(text, h, t))

\* TComposedRevisionPlan, with its braces. Three children make a data source;
\* the one in the middle is taken for its name whatever it is.
NodeOfChildren(written) ==
  IF "name" \in DOMAIN written
    THEN [kind |-> "datasource", name |-> written.name]
  ELSE IF Len(written.pairs) + Len(written.sources) + 2 = 3
    THEN [kind |-> "datasource", name |-> Damaged]
  ELSE [kind |-> "revisionplansection", pairs |-> written.pairs, sources |-> written.sources]

\* The sections of one plan put behind those of others.
Shifted(node, by) ==
  IF node.kind = "datasource" THEN node
  ELSE [node EXCEPT !.sources = [i \in DOMAIN @ |-> @[i] + by]]

Behind(nodes, more) == nodes \o [i \in DOMAIN more |-> Shifted(more[i], Len(nodes))]

NoSections == [bases |-> <<>>, nodes |-> <<>>, roots |-> {}, signature |-> {}]

\* TSection: the section that starts at place k is added to the sections before it.
AddSection(tree, text, k) ==
  CASE text[k].t = "bb" ->
         LET pairs == ChildrenOf(text, k, "pair") IN
         [tree EXCEPT !.bases = Append(@, [i \in DOMAIN pairs |-> KeyValue(pairs[i])])]
    [] text[k].t = "cs" ->
         [tree EXCEPT !.signature =
            @ \cup {Declared(i) : i \in ToSet(ChildrenOf(text, k, "predicate"))}]
    [] text[k].t = "plan" ->
         LET written == text[k].nodes
             nodes == Behind(tree.nodes, [n \in DOMAIN written |-> NodeOfChildren(written[n])])
         IN [tree EXCEPT !.nodes = nodes, !.roots = @ \cup {Len(nodes)}]
    [] OTHER -> tree

SpiritTree(text) ==
  LET tree[k \in 0 .. Len(text)] ==
        IF k = 0 THEN NoSections ELSE AddSection(tree[k - 1], text, k)
  IN tree[Len(text)]
-----------------------------------------------------------------------------
\* The reductions of the bison grammar: lists are built from their ends, and
\* flattened when the section they belong to is reduced.
NodeOfBraces(written) ==
  IF "name" \in DOMAIN written
    THEN [kind |-> "datasource", name |-> written.name]
    ELSE [kind |-> "revisionplansection", pairs |-> written.pairs, sources |-> written.sources]

NoLists == [pairs |-> <<>>, predicates |-> {}, bases |-> <<>>, signature |-> {},
            nodes |-> <<>>, roots |-> {}]

Reduce(i, lists) ==
  CASE i.t = "pair"      -> [lists EXCEPT !.pairs = <<KeyValue(i)>> \o @]
    [] i.t = "predicate" -> [lists EXCEPT !.predicates = @ \cup {Declared(i)}]
    [] i.t = "bb"        -> [lists EXCEPT !.bases = <<lists.pairs>> \o @, !.pairs = <<>>]
    [] i.t = "cs"        -> [lists EXCEPT !.signature = @ \cup lists.predicates,
                                          !.predicates = {}]
    [] i.t = "plan"      ->
         LET nodes == [n \in DOMAIN i.nodes |-> NodeOfBraces(i.nodes[n])] IN
         [lists EXCEPT !.nodes = Behind(nodes, @),
                       !.roots = {Len(nodes)} \cup {r + Len(nodes) : r \in @}]

\* The lists of all items from place k on are made before the item at place k is
\* put in front of them.
BisonTree(text) ==
  LET lists[k \in 1 .. Len(text) + 1] ==
        IF k > Len(text) THEN NoLists ELSE Reduce(text[k], lists[k + 1])
      whole == lists[1]
  IN [bases |-> whole.bases, nodes |-> whole.nodes, roots |-> whole.roots,
      signature |-> whole.signature]

\* A list without elements is NULL, and flatten is called on it, for the
\* sections of a program and the predicates of a common signature.
FlattensNull(text) ==
  \/ text = <<>>
  \/ \E k \in DOMAIN text : text[k].t = "cs" /\ (k < Len(text) => text[k + 1].t # "predicate")

\* An error of the scanner, or one for which the grammar has an error rule: in
\* a section with a list. Elsewhere yyparse gives up without counting it.
Counted(text, k) ==
  \/ text[k].t = "bad" /\ text[k].counted
  \/ text[k].t # "bad" /\ k > 1 /\ text[k - 1].t # "plan"
-----------------------------------------------------------------------------
VARIABLES
  inputFiles,   \* the files to parse; "--" is standard input
  fileCounter,  \* inputFileCounter: how many of them are read
  fileContent,  \* bison: the text scanned so far
  parseTree,    \* the tree, or none
  errorCount,
  parsing       \* what the parser is doing

parserVars == <<inputFiles, fileCounter, fileContent, parseTree, errorCount, parsing>>

NoTree == <<>>

\* IParser::reset.
ParserInit ==
  /\ inputFiles = <<>>
  /\ fileCounter = 0
  /\ fileContent = <<>>
  /\ parseTree = NoTree
  /\ errorCount = 0
  /\ parsing = "idle"

StartParsing(files, how) ==
  /\ parsing = "idle"
  /\ inputFiles' = files
  /\ parsing' = how
  /\ UNCHANGED <<fileCounter, fileContent, parseTree, errorCount>>

NextFile == inputFiles[fileCounter + 1]

\* getNextInputFile closes the current file, and so does it with standard input.
StdinClosed == \E k \in 1 .. fileCounter : inputFiles[k] = "--"

\* getNextInputFile and readFile. Reading a closed standard input is undefined:
\* it may look empty.
Reads(text) ==
  /\ fileCounter < Len(inputFiles)
  /\ IF NextFile = "--" THEN text = IF StdinClosed THEN <<>> ELSE StandardInput
     ELSE NextFile \in DOMAIN Files /\ text = Files[NextFile]
  /\ fileCounter' = fileCounter + 1

\* A file that cannot be opened is not checked for: fseek on NULL. The closed
\* standard input may end the program as well.
OpenFails ==
  /\ parsing \in {"spirit", "bison"} /\ fileCounter < Len(inputFiles)
  /\ IF NextFile = "--" THEN StdinClosed ELSE NextFile \notin DOMAIN Files
  /\ parsing' = "crashed"
  /\ UNCHANGED <<inputFiles, fileCounter, fileContent, parseTree, errorCount>>

\* Mutant: syntax errors are not counted.
SpiritFileUncounted ==
  /\ parsing = "spirit"
  /\ \E text \in {StandardInput, <<>>} \cup {Files[f] : f \in DOMAIN Files} :
       /\ Reads(text)
       /\ parseTree' = IF Grammatical(text) THEN SpiritTree(text) ELSE parseTree
  /\ UNCHANGED <<inputFiles, fileContent, errorCount, parsing>>

\* SpiritParser::parse, for files: the tree of a file replaces that of the file
\* before.
SpiritFile ==
  /\ parsing = "spirit"
  /\ \E text \in {StandardInput, <<>>} \cup {Files[f] : f \in DOMAIN Files} :
       /\ Reads(text)
       /\ IF Grammatical(text)
            THEN parseTree' = SpiritTree(text) /\ UNCHANGED errorCount
            ELSE errorCount' = errorCount + 1 /\ UNCHANGED parseTree
  /\ UNCHANGED <<inputFiles, fileContent, parsing>>

SpiritDone ==
  /\ parsing = "spirit" /\ fileCounter = Len(inputFiles)
  /\ parsing' = "parsed"
  /\ UNCHANGED <<inputFiles, fileCounter, fileContent, parseTree, errorCount>>

\* SpiritParser::parse, for a string: what was not parsed is not looked at.
SpiritString(text) ==
  /\ parsing = "string"
  /\ parseTree' = SpiritTree(SubSeq(text, 1, Accepted(text)))
  /\ parsing' = "parsed"
  /\ UNCHANGED <<inputFiles, fileCounter, fileContent, errorCount>>

\* BisonParser::parse: yywrap goes on with the next file, so that all of them
\* are one text. Without any file, flex reads standard input.
BisonFile ==
  /\ parsing = "bison"
  /\ \E text \in {StandardInput, <<>>} \cup {Files[f] : f \in DOMAIN Files} :
       Reads(text) /\ fileContent' = fileContent \o text
  /\ UNCHANGED <<inputFiles, parseTree, errorCount, parsing>>

Scanned == IF inputFiles = <<>> THEN StandardInput ELSE fileContent

\* Mutant: only the first file is scanned.
BisonDoneEarly ==
  /\ parsing = "bison" /\ (fileCounter = 1 \/ inputFiles = <<>>)
  /\ LET error == Accepted(Scanned) + 1 IN
     IF Grammatical(Scanned)
       THEN parseTree' = BisonTree(Scanned) /\ UNCHANGED errorCount
       ELSE /\ errorCount' = IF Counted(Scanned, error) THEN 1 ELSE 0
            /\ UNCHANGED parseTree
  /\ parsing' = "parsed"
  /\ UNCHANGED <<inputFiles, fileCounter, fileContent>>

BisonDone ==
  /\ parsing = "bison" /\ fileCounter = Len(inputFiles)
  /\ LET error == Accepted(Scanned) + 1 IN
     IF Grammatical(Scanned)
       THEN parseTree' = BisonTree(Scanned) /\ UNCHANGED errorCount
       ELSE /\ errorCount' = IF Counted(Scanned, error) THEN 1 ELSE 0
            /\ UNCHANGED parseTree
  /\ parsing' = "parsed"
  /\ UNCHANGED <<inputFiles, fileCounter, fileContent>>

\* flatten on NULL is undefined: it may also end the program.
BisonCrashes ==
  /\ parsing = "bison" /\ fileCounter = Len(inputFiles)
  /\ FlattensNull(Scanned)
  /\ parsing' = "crashed"
  /\ UNCHANGED <<inputFiles, fileCounter, fileContent, parseTree, errorCount>>

Succeeded == parsing = "parsed" /\ errorCount = 0

ParserNext == OpenFails \/ SpiritFile \/ SpiritDone \/ BisonFile \/ BisonDone \/ BisonCrashes
=============================================================================
