------------------------------ MODULE PluginSession ------------------------------
(***************************************************************************)
(* The two programs that users start, from their command line to the       *)
(* program that dlvhex goes on with:                                       *)
(*   dlvhex      loads the plugin, has it process its options and search   *)
(*               for operators, and sends the input through the converter  *)
(*               that the options ask for, if any;                         *)
(*   mpcompiler  (CompilerMain.cpp) parses merging plan files and writes   *)
(*               the program that the code generator makes of them.        *)
(***************************************************************************)
EXTENDS PluginOptions, InputRewriter, MergingPlanParser

CONSTANTS
  Calls,      \* command line of dlvhex -> its inputs: lines, or for --merging
              \* and --mergingdump texts of merging plans
  Arguments,  \* the argument lists of mpcompiler
  Segments    \* the names of operators and belief bases, cut at "_"

\* Options are texts, and the first option that asks for a process names one
\* that reads the program.
ASSUME CallsAssumption ==
  \A line \in DOMAIN Calls :
    /\ line \in Seq([kind : STRING, prefix : Seq(STRING), value : Seq(STRING), command : STRING])
    /\ \A i \in DOMAIN line :
         /\ line[i].kind \in {"inputrewriter", "dlv"}
         /\ \A j \in 1 .. i - 1 : line[j].kind \notin Rewriters
         => /\ ConverterOf(line[i]).command \in DOMAIN Commands
            /\ Calls[line] \subseteq Seq(DOMAIN Commands[ConverterOf(line[i]).command].output)

\* The merging plan compiler is given texts of merging plans.
ASSUME PlanTextsAssumption ==
  \A line \in DOMAIN Calls :
    (\E i \in DOMAIN line : line[i].kind \in {"merging", "mergingdump"}) =>
      Calls[line] \subseteq Seq(Items)

\* The path of an entry is the longer one: that of its directory, "/" and a name
\* (Operators.cpp:163). No directory is found below itself, however deep it lies.
Deepens(rank) ==
  \A d \in Directories :
    \A e \in Entries[d] \cap SharedObjects \cap Directories : rank[e] < rank[d]

ASSUME NoCycleAssumption ==
  /\ IsFiniteSet(Directories)
  /\ \E rank \in [Directories -> 1 .. Cardinality(Directories)] : Deepens(rank)

\* What the system and the user have installed is searched first.
ASSUME SystemDirsAssumption == SystemDirs \in Seq(Paths)

ASSUME ArgumentsAssumption == Arguments \subseteq Seq(STRING)

\* The code generator.
Generator == INSTANCE MergingPlanCompiler
  WITH Plans <- {}, Content <- <<>>, Broken <- {}, Atoms <- {}, KeyValues <- {},
       UserOperators <- {}, Contribution <- <<>>

VARIABLES
  program,    \* the input of dlvhex
  arguments,  \* the arguments of mpcompiler
  output,     \* what a converter hands to dlvhex: o
  stdout,     \* what is written to standard output
  session     \* what the program is doing

sessionVars == <<program, arguments, output, stdout, session>>
pluginVars == <<registryVars, optionVars>>

NoOutput == [kind |-> "none", text |-> <<>>]
Output(kind, text) == [kind |-> kind, text |-> text]

\* "p :- not p." and ":- not a.": no answer set is left.
Inconsistent == Output("inconsistent", <<>>)
-----------------------------------------------------------------------------
SessionInit ==
  /\ RewriterInit /\ ParserInit
  /\ output = NoOutput
  /\ stdout = NoOutput
  /\ \/ /\ session = "starting" /\ arguments = <<>>
        /\ \E line \in DOMAIN Calls : OptionsInit(line) /\ program \in Calls[line]
     \/ /\ session = "mpcompiler" /\ program = <<>>
        /\ OptionsInit(<<>>) /\ arguments \in Arguments

\* dlvhex loads the plugin.
ProcessOptions ==
  /\ session = "starting"
  /\ OptionsNext
  /\ UNCHANGED <<rewriterVars, parserVars, sessionVars>>

\* Without a converter, dlvhex reads the input itself.
ReadProgram ==
  /\ session = "starting" /\ stage = "started" /\ converter.kind = "none"
  /\ output' = Output("program", program)
  /\ session' = "running"
  /\ UNCHANGED <<pluginVars, rewriterVars, parserVars, program, arguments, stdout>>

\* createConverter, and the converter's convert.
ConvertByProcess ==
  /\ session = "starting" /\ stage = "started"
  /\ converter.kind \in {"inputrewriter", "dlv"}
  /\ Spawn(converter.command, program)
  /\ session' = "converting"
  /\ UNCHANGED <<pluginVars, parserVars, program, arguments, output, stdout>>

Rewrite ==
  /\ session = "converting"
  /\ RewriterNext
  /\ UNCHANGED <<pluginVars, parserVars, sessionVars>>

\* o << routput.str(); and the error for the exit code that follows.
HandOn ==
  /\ session = "converting" /\ converter.kind = "inputrewriter"
  /\ rewriting \in {"rewritten", "rewriter failed"}
  /\ output' = Output("program", routput)
  /\ session' = IF rewriting = "rewritten" THEN "running" ELSE "failed"
  /\ UNCHANGED <<pluginVars, rewriterVars, parserVars, program, arguments, stdout>>

DlvFails ==
  /\ session = "converting" /\ converter.kind = "dlv" /\ rewriting = "rewriter failed"
  /\ session' = "failed"
  /\ UNCHANGED <<pluginVars, rewriterVars, parserVars, program, arguments, output, stdout>>

PrintAnswerSets ==
  /\ session = "converting" /\ converter.kind = "dlv"
  /\ DlvDone \/ DlvNext
  /\ stdout' = Output("answer sets", printed')
  /\ UNCHANGED <<pluginVars, parserVars, program, arguments, output, session>>

HandOnConstraint ==
  /\ session = "converting" /\ rewriting = "printed"
  /\ output' = Inconsistent
  /\ session' = "running"
  /\ UNCHANGED <<pluginVars, rewriterVars, parserVars, program, arguments, stdout>>

ConvertPlan ==
  /\ session = "starting" /\ stage = "started"
  /\ converter.kind \in {"merging", "mergingdump"}
  /\ StartParsing(<<>>, "string")
  /\ session' = "converting"
  /\ UNCHANGED <<pluginVars, rewriterVars, program, arguments, output, stdout>>

ParsePlan ==
  /\ session = "converting"
  /\ SpiritString(program)
  /\ UNCHANGED <<pluginVars, rewriterVars, sessionVars>>

\* A data source whose name was read through a wrong pointer.
IsDamaged(tree) ==
  \E n \in DOMAIN tree.nodes :
    tree.nodes[n].kind = "datasource" /\ tree.nodes[n].name = Damaged

Code(tree) == Output("code", Generator!GenerateCode(tree))

Errors(tree) == Generator!ErrorCount(tree) > 0

\* MPCompiler::convert. The code is written before its errors are looked at.
GeneratePlan ==
  /\ session = "converting" /\ converter.kind \in {"merging", "mergingdump"} /\ Succeeded
  /\ IF converter.kind = "merging"
       THEN output' = Code(parseTree) /\ UNCHANGED stdout
       ELSE /\ stdout' = Code(parseTree)
            /\ output' = IF Errors(parseTree) THEN NoOutput ELSE Inconsistent
  /\ session' = IF Errors(parseTree) THEN "failed" ELSE "running"
  /\ UNCHANGED <<pluginVars, rewriterVars, parserVars, program, arguments>>
-----------------------------------------------------------------------------
\* CompilerMain.cpp, parseArgs.
Flags == {"-parsetree", "-spirit", "-bison", "-help"}

IsFlag(a) == a \in Flags

InputFiles == IF arguments = <<>> THEN <<"--">>
              ELSE Erased(arguments, {k \in DOMAIN arguments : IsFlag(arguments[k])})

\* The last of -spirit and -bison counts.
Bison ==
  \E k \in DOMAIN arguments :
    arguments[k] = "-bison" /\ \A j \in k .. Len(arguments) : arguments[j] # "-spirit"

ShowHelp ==
  /\ session = "mpcompiler" /\ parsing = "idle" /\ "-help" \in ToSet(arguments)
  /\ stdout' = Output("help", <<>>)
  /\ session' = "ended"
  /\ UNCHANGED <<pluginVars, rewriterVars, parserVars, program, arguments, output>>

CreateParser ==
  /\ session = "mpcompiler" /\ "-help" \notin ToSet(arguments)
  /\ StartParsing(InputFiles, IF Bison THEN "bison" ELSE "spirit")
  /\ UNCHANGED <<pluginVars, rewriterVars, sessionVars>>

Parse ==
  /\ session = "mpcompiler"
  /\ ParserNext
  /\ UNCHANGED <<pluginVars, rewriterVars, sessionVars>>

ParsingFailed ==
  /\ session = "mpcompiler" /\ parsing = "parsed" /\ errorCount > 0
  /\ session' = "failed"
  /\ UNCHANGED <<pluginVars, rewriterVars, parserVars, program, arguments, output, stdout>>

PrintParseTree ==
  /\ session = "mpcompiler" /\ Succeeded /\ parseTree # NoTree
  /\ "-parsetree" \in ToSet(arguments)
  /\ stdout' = Output("parse tree", parseTree)
  /\ session' = "ended"
  /\ UNCHANGED <<pluginVars, rewriterVars, parserVars, program, arguments, output>>

CompilePlan ==
  /\ session = "mpcompiler" /\ Succeeded /\ parseTree # NoTree
  /\ "-parsetree" \notin ToSet(arguments)
  /\ stdout' = Code(parseTree)
  /\ session' = IF Errors(parseTree) THEN "failed" ELSE "ended"
  /\ UNCHANGED <<pluginVars, rewriterVars, parserVars, program, arguments, output>>

\* There is no tree to print or compile: NULL is dereferenced. The damaged name
\* of a data source may also end either program.
Crash ==
  /\ session \in {"mpcompiler", "converting"}
  /\ \/ parsing = "crashed"
     \/ Succeeded /\ parseTree = NoTree
     \/ Succeeded /\ parseTree # NoTree /\ IsDamaged(parseTree)
        /\ "-parsetree" \notin ToSet(arguments)
  /\ session' = "crashed"
  /\ UNCHANGED <<pluginVars, rewriterVars, parserVars, program, arguments, output, stdout>>
-----------------------------------------------------------------------------
SessionNext ==
  \/ ProcessOptions \/ ReadProgram
  \/ ConvertByProcess \/ Rewrite \/ HandOn \/ DlvFails \/ PrintAnswerSets \/ HandOnConstraint
  \/ ConvertPlan \/ ParsePlan \/ GeneratePlan
  \/ ShowHelp \/ CreateParser \/ Parse \/ ParsingFailed \/ PrintParseTree \/ CompilePlan \/ Crash

allVars == <<pluginVars, rewriterVars, parserVars, sessionVars>>

SessionSpec == SessionInit /\ [][SessionNext]_allVars

\* Each program is a sequence of calls, and the process that it starts runs.
FairSessionSpec == SessionSpec /\ WF_allVars(SessionNext)
-----------------------------------------------------------------------------
\* The types of the variables, as far as a step could leave them.
SessionTypeOK ==
  /\ BuiltIns \subseteq DOMAIN operators
  /\ \A k \in DOMAIN scans : scans[k].path \in Directories /\ scans[k].left \subseteq Paths
  /\ Scanning \/ library.path \in DOMAIN Libraries
  /\ stage \in {"options", "paths", "out of range", "multiple rewriters", "adding",
                "duplicate name", "searched", "not loaded", "no information", "started"}
  /\ at \in 1 .. Len(commandLine) + 1 /\ found \subseteq 1 .. at - 1
  /\ rewriting \in RewritingStages
  /\ Len(toChild) <= PipeSize /\ Len(fromChild) <= PipeSize
  /\ parsing \in {"idle", "string", "spirit", "bison", "parsed", "crashed"}
  /\ fileCounter \in 0 .. Len(inputFiles)
  /\ session \in {"starting", "converting", "running", "failed", "crashed", "mpcompiler",
                  "ended"}

\* The paths that are searched.
Given == SystemDirs \o searchpaths

\* The directories that addOperators may be scanning, one below the other.
Ways ==
  {w \in UNION {[1 .. n -> Directories] : n \in 0 .. Cardinality(Directories)} :
     \A k \in DOMAIN w : k + 1 \in DOMAIN w => w[k + 1] \in Entries[w[k]] \cap SharedObjects}

\* The libraries found below given paths, each time they are found: in a directory,
\* or as a path.
Finds(given) ==
  {f \in [root : DOMAIN given, way : Ways, library : DOMAIN Libraries \ Directories] :
     IF f.way = <<>> THEN f.library = given[f.root]
     ELSE /\ f.way[1] = given[f.root]
          /\ f.library \in Entries[f.way[Len(f.way)]] \cap SharedObjects}

\* The operators that they offer.
Offers(given) == UNION {{<<f, i>> : i \in 1 .. Len(Libraries[f.library])} : f \in Finds(given)}

NameOf(offer) == Libraries[offer[1].library][offer[2]]

\* Those in libraries that are given themselves or stand directly in a directory
\* that is given: documentation.dox:253 speaks of no others.
DirectOffers(given) == {o \in Offers(given) : Len(o[1].way) <= 1}

NamesOf(offers) == {NameOf(o) : o \in offers}

\* No name is offered twice, or is that of a built-in operator.
Distinct(given) ==
  /\ \A o, p \in Offers(given) : NameOf(o) = NameOf(p) => o = p
  /\ \A o \in Offers(given) : NameOf(o) \notin BuiltIns

\* The search for operators has come to its end.
Outcomes == {"searched", "not loaded", "no information", "started"}

\* Operators.cpp:160 and 198: in whatever order readdir lists the directories, a
\* search that comes to its end has registered every operator that the libraries
\* given or directly in the directories given offer, and none that no library
\* below them offers; it breaks off only over a name that is taken. What the
\* documentation has to say of such a name, and of directories in directories, is
\* not what the code does: see AllNamesRegistered and SearchedDirectly.
RegistryDecided ==
  /\ stage = "duplicate name" => ~Distinct(Given)
  /\ stage \in Outcomes =>
       /\ BuiltIns \cup NamesOf(DirectOffers(Given)) \subseteq DOMAIN operators
       /\ DOMAIN operators \subseteq BuiltIns \cup NamesOf(Offers(Given))

\* What addOperators does with directories in directories and with names that are
\* taken: a search either registers every operator that is found at any depth, each
\* under a name of its own, or breaks off.
SearchOutcome ==
  /\ stage = "duplicate name" => ~Distinct(Given)
  /\ stage \in Outcomes =>
       Distinct(Given) /\ DOMAIN operators = BuiltIns \cup NamesOf(Offers(Given))

\* documentation.dox:230: when several operators have the same name, the plugin
\* "will print a warning on startup and ignore all but the first one". So every name
\* that is offered is registered when the search is over. Operators.cpp:200 throws
\* instead, and what would have come later is missing.
AllNamesRegistered ==
  stage \in Outcomes \cup {"duplicate name"} =>
    NamesOf(DirectOffers(Given)) \subseteq DOMAIN operators

\* documentation.dox:254: "operator libs that are directly within this directory will
\* be loaded (non-recursive!)". Operators.cpp:163 passes every entry that ends with
\* ".so" to addOperators, which scans it when it is a directory.
SearchedDirectly ==
  stage \in Outcomes => DOMAIN operators \subseteq BuiltIns \cup NamesOf(DirectOffers(Given))

\* What is left is what stands at these places of a list, in the same order.
InOrder(left, list, places) ==
  \E place \in [DOMAIN left -> places] :
    /\ \A k \in DOMAIN left : left[k] = list[place[k]]
    /\ \A j, k \in DOMAIN left : j < k => place[j] < place[k]
    /\ \A i \in places : \E k \in DOMAIN left : place[k] = i

OptionsOf(kinds) == {i \in DOMAIN commandLine : commandLine[i].kind \in kinds}

\* MergingPlugin.cpp:269 and 292: after the options, a path is searched as it is
\* given unless it stands in a list, the last option with paths counts, and the
\* converter is that of the only option that asks for one. Only the options of
\* others are left.
OptionsObeyed ==
  stage \in {"adding", "searched", "started"} /\ session # "mpcompiler" =>
    LET paths == OptionsOf({"operatorpath"})
        asking == OptionsOf(Rewriters)
    IN /\ InOrder(options, commandLine, DOMAIN commandLine \ OptionsOf(PluginKinds))
       /\ paths = {} => searchpaths = <<>>
       /\ \A i \in paths : (\A j \in paths : j <= i) =>
            LET path == commandLine[i].value IN
            IF path = <<>> THEN searchpaths = <<>>
            ELSE Comma \notin ToSet(path) => searchpaths = <<path>>
       /\ asking = {} => converter = NoConverter
       /\ \A i \in asking : asking = {i} /\ converter = ConverterOf(commandLine[i])

\* The texts between the commas of a list, without the empty ones.
Pieces(list) ==
  {SubSeq(list, ij[1], ij[2]) : ij \in
     {b \in (1 .. Len(list)) \X (1 .. Len(list)) :
        /\ b[1] <= b[2] /\ \A k \in b[1] .. b[2] : list[k] # Comma
        /\ b[1] > 1 => list[b[1] - 1] = Comma
        /\ b[2] < Len(list) => list[b[2] + 1] = Comma}}

\* documentation.dox:250: with --operatorpath=path1,path2,... "additional paths where
\* operators are loaded from can be specified": all paths of the list are searched.
\* MergingPlugin.cpp:273 cuts the list at the position of a comma in a longer text.
PathListsSearched ==
  stage \in {"adding", "out of range"} /\ session = "starting" =>
    \A i \in OptionsOf({"operatorpath"}) : (\A j \in OptionsOf({"operatorpath"}) : j <= i) =>
      ToSet(searchpaths) = Pieces(commandLine[i].value)

\* MergingPlugin.cpp:60: on its way through the process no line of the program
\* is lost, doubled or overtaken, and all of the output is handed on. What dlvhex
\* goes on with is never the output of a process that has failed, although it is
\* handed on before the exit code is looked at (MergingPlugin.cpp:70).
LinesDelivered ==
  /\ converter.kind \in {"inputrewriter", "dlv"} => NothingLost(program)
  /\ session = "running" /\ converter.kind = "inputrewriter" =>
       output.text = Rewritten(program) /\ Commands[converter.command].exit = 0

\* MergingPlugin.cpp:157: every answer set and every diagnosis that dlv reports
\* is printed, in its order, when diagnoses come first.
AnswerSetsPrinted ==
  session = "running" /\ converter.kind = "dlv" /\ WellFormed(routput) =>
    /\ stdout.text = FlattenSeq([i \in DOMAIN routput |-> Report(routput[i])])
    /\ output = Inconsistent

\* A section with one key-value pair and no source, or one source and no pair.
HasLoneChild(text) ==
  \E k \in DOMAIN text : text[k].t = "plan" /\
    \E n \in DOMAIN text[k].nodes :
      LET node == text[k].nodes[n] IN
      "name" \notin DOMAIN node /\ Len(node.pairs) + Len(node.sources) = 1

\* MergingPlugin.cpp:98 and SpiritParser.cpp:268: the text of a merging plan is
\* compiled to what the grammar of the other parser reads in it, and is handed to
\* dlvhex or dumped; contradictory belief bases are reported.
PlanDelivered ==
  /\ session \in {"running", "failed"} /\ converter.kind \in {"merging", "mergingdump"}
  /\ Grammatical(program) /\ ~HasLoneChild(program)
  => /\ (IF converter.kind = "merging" THEN output ELSE stdout) = Code(BisonTree(program))
     /\ session = "failed" <=> Errors(BisonTree(program))
     /\ converter.kind = "mergingdump" /\ session = "running" => output = Inconsistent

\* documentation.dox:422: a section is an operator with any number of further pairs
\* and of sources, none included. So a plan is compiled when one of its sections has
\* one child as when none has. SpiritParser.cpp:138 takes any three children, the
\* braces and what is between them, for a data source.
LoneChildrenCompiled ==
  session = "running" /\ converter.kind = "merging" /\ Grammatical(program)
  => output = Code(BisonTree(program))

\* MergingPlugin.cpp:105: "If it was successful, generate output code otherwise
\* display an error message". dlvhex goes on with code of plans that are grammatical
\* as a whole only. MergingPlugin.cpp:98 has the parser parse a string, and that one
\* counts no errors (SpiritParser.cpp:270).
UngrammaticalRejected ==
  session = "running" /\ converter.kind = "merging" => Grammatical(program)

Texts(files) ==
  [k \in DOMAIN files |-> IF files[k] = "--" THEN StandardInput ELSE Files[files[k]]]

InputText == FlattenSeq(Texts(InputFiles))

\* Standard input can be read once.
StdinTwice ==
  \E j, k \in DOMAIN InputFiles : j # k /\ InputFiles[j] = "--" /\ InputFiles[k] = "--"

\* IParser.cpp:19: mpcompiler with bison compiles the one text that its files make
\* up, and nothing but grammatical texts, whatever the files are cut; with spirit it
\* does so for a single file. For several files spirit does not: AllFilesCompiled.
FilesCompiled ==
  /\ session = "ended" /\ stdout.kind = "code" /\ InputFiles # <<>> /\ ~StdinTwice
  /\ Bison \/ (Len(InputFiles) = 1 /\ ~HasLoneChild(InputText))
  => Grammatical(InputText) /\ stdout = Code(BisonTree(InputText))

\* CompilerMain.cpp:131 and documentation.dox:288: mpcompiler takes "one or more input
\* files", and the code is that of all of them, for the default parser as for bison.
\* SpiritParser.cpp:260 keeps the tree of the last file.
AllFilesCompiled ==
  /\ session = "ended" /\ stdout.kind = "code" /\ InputFiles # <<>> /\ ~StdinTwice
  /\ Grammatical(InputText) /\ ~HasLoneChild(InputText)
  => stdout = Code(BisonTree(InputText))

\* IParser.cpp:29, BisonParserImpl.ypp:86 and 262, CompilerMain.cpp:59: the
\* compiler dereferences NULL or a damaged pointer only for a file that does not
\* exist, standard input named twice, no file at all, a section with one child,
\* and, with bison, an empty list or an error outside of the sections with lists.
CrashesExplained ==
  session = "crashed" =>
    \/ converter.kind \in {"merging", "mergingdump"} /\ HasLoneChild(program)
    \/ \E k \in DOMAIN InputFiles :
         IF InputFiles[k] = "--" THEN \E j \in 1 .. k - 1 : InputFiles[j] = "--"
                                 ELSE InputFiles[k] \notin DOMAIN Files
    \/ IF Bison
         THEN \/ FlattensNull(Scanned)
              \/ ~Grammatical(Scanned) /\ ~Counted(Scanned, Accepted(Scanned) + 1)
         ELSE InputFiles = <<>> \/ HasLoneChild(FlattenSeq(Texts(InputFiles)))

Ended ==
  \/ session \in {"running", "failed", "crashed", "ended"}
  \/ stage \in {"out of range", "multiple rewriters", "duplicate name", "not loaded",
                "no information"}

\* MergingPlugin.cpp:60 and 157: dlvhex gets its program and mpcompiler ends,
\* unless the rewriter fills its pipe while the plugin fills the other one, or
\* dlv does not close an answer set.
SessionEnds ==
  <>(\/ Ended
     \/ rewriting = "sending" /\ ~NeverStuck(command, program)
     \/ rewriting = "printing" /\ \E l \in ToSet(routput) : ~Closed(l))
=============================================================================
