# A formal model of the merging plugin

The merging plugin extends the logic program solver dlvhex by external atoms
that evaluate *nested* HEX programs, inspect their answers and merge them with
operators; the merging plan compiler translates merging plans into programs
over these atoms. This directory holds TLA+ modules that model the plugin, TLC
configurations that check them on small instances, and proofs checked by TLAPS.

Paths below are relative to the repository's root.

## 1. The system

| component | state | operations | model |
|---|---|---|---|
| **Answer cache** `src/HexAnswerCache.cpp` | vectors `cache` (call, pointer to the answer), `locks`, `accessCounter`; `elementsInCache`; the C++ call stack during nested loads | `operator[](HexCall)` (handle of a call), `operator[](int)` (answer behind a handle), `load`, `loadHexProgram/File`, `loadOperatorCall`, `access`, `reduceCache` | `HexAnswerCache` |
| **Built-in operators** `src/OpUnion.cpp`, `src/OpSetminus.cpp` | none | `apply` | `MergeOperators` |
| **External atoms** `src/HexExecution.cpp` | none of their own (the cache); the simulator atom keeps parsed programs | `&hex`, `&hexfile`, `&callhexN`, `&callhexfileN` request handles; `&answersets`, `&predicates`, `&arguments` read answers; `&simulator` | calls of the cache: `HexAnswerCache`; what merging plans use of them: `MergingPlanEvaluation`; the simulator is not modelled |
| **Operator atom and registry** `src/Operators.cpp` | the map of operators by name | `addOperators` (library or directory), `getOperator`, `retrieve` (collects operands and key-values, calls the cache) | `retrieve`: `MergingPlanEvaluation`; the rest: `OperatorRegistry` |
| **Plugin** `src/MergingPlugin.cpp` | options, search paths, the one input converter | `processOptions`, `createAtoms`, `MPCompiler::convert` | `convert`: `PluginSession` and `MergingPlanEvaluation`; options: `PluginOptions` |
| **Input rewriter, dlv wrapper** `src/MergingPlugin.cpp`, `include/ArbProcess.h` | two processes and two pipes | `Rewriter::convert`, `DLV::convert` | `InputRewriter` |
| **Merging plan compiler, code generator** `mpcompiler/src/CodeGenerator.cpp` | counters, the set of used identifiers | `generateCode` and its recursive helpers; the command line tool `CompilerMain.cpp` | `MergingPlanCompiler`, evaluated in `MergingPlanEvaluation`; the tool in `PluginSession` |
| **Merging plan compiler, front end** `SpiritParser.cpp`, `BisonParserImpl.ypp`, `ParseTreeNode*.cpp`, `IParser.cpp` | list of inputs, parse tree, error counters | `parse`, `flatten`, iterators | `MergingPlanParser` |
| **Distance based operators** `src/OpDBO.cpp`, `src/OpDalal.cpp` | static: a running number for names and one of sources | `apply`: generates and evaluates an optimization program | `DistanceBasedMerging`; not built at present |
| **Majority selection, relation merging** `src/OpMajoritySelection.cpp`, `src/OpRelationMerging.cpp` | none | `apply` | `MajoritySelection`, `RelationMerging`; not built at present |
| **Solver wrapper** `src/DlvhexSolver.cpp` | a process | `solve` | not modelled: process plumbing of operators that are not built |

**How they interact.** dlvhex calls `retrieve` of an external atom; the atom
builds a `HexCall` and asks the one global cache for its handle. If the call is
new, the cache *loads* it: for a program it runs a nested dlvhex evaluation,
whose external atoms ask the same cache; for an operator call it loads the
operands and applies the operator. So `load` is re-entrant at three places
(nested programs, operands, later reads of evicted entries), and everything a
C++ frame has read before is at risk of being stale after. With a limit, each
load ends by evicting entries that are not locked by operator applications.
Exceptions pass through all of these functions and end dlvhex
(`include/IOperator.h:22`). There is one thread.

Before all that, dlvhex hands the plugin its command line. `processOptions`
removes the plugin's options from it, sets up at most one input converter, and
searches directories for libraries of operators. The converters run a child
process between two pipes (`--irewriter`, `--dlv`) or the merging plan compiler
(`--merging`), which is also a program of its own, `mpcompiler`, with one of two
parsers.

With `--merging`, the input is a merging plan: the converter parses it, the code
generator writes a HEX program whose rules ask for the answers of the belief
bases, collect handles and arguments for each operator under identifiers it
makes up, apply the operators, and copy the literals of the final answer back
into answer sets. dlvhex evaluates the program, in an order of its own, with the
external atoms above.

**What is hard here**, in the order of weight: the re-entrancy of `load` with
locking, eviction and raw pointers; the identity of calls; the eviction loop;
identifiers invented by the code generator and by the distance operators, which
must not clash, rules that are evaluated in an order nobody wrote down; pipes between the plugin and a rewriter; failures half-way
through the registration of operators; the loops over option lists, which use
positions of one string in another, and over dlv's output, which must end. `PROJECT.json` ("hazards") gives each at its line.

**What makes each component correct.** Cache: a handle stands for the call it
was given for; what is read through it is what a fresh evaluation would give;
operands of an application in progress stay in memory; locks and the element
count are exact; the limit is exceeded only for operands; evaluation ends.
Operator atom: the operands reach the operator in the order of their positions,
each once. Registry: built-in and first-loaded operators keep their names.
Code generator: every operator application has argument predicates of its own,
sources are defined before use, and errors suppress success. Front end: all
input files count. Rewriter: no deadlock, output complete, errors reported.
Distance operators: the fresh names are fresh, costs are those of the sources
and the chosen answer sets are optimal.

## 2. Modules

| module | content |
|---|---|
| `MergeOperators` | answers, built-in and library operators as functions |
| `HexCalls` | the keys of the cache and their comparison |
| `HexAnswerCache` | the cache and the nested evaluation through it: state machine, properties |
| `HexAnswerCacheInvariant` | the inductive invariants `IInv`, `LimitInv`, `HandleInv` |
| `HexAnswerCacheProofs`, `HexAnswerCacheHandleProofs` | the theorems about the cache and their proofs |
| `MCHexAnswerCache` | instances for TLC |
| `MergingPlan` | merging plans: the parse tree, and what its parts can deliver |
| `MergingTask` | abstract specification: what a merging plan promises |
| `MergingPlanCompiler` | the code generator, as a function from plans to programs |
| `MergingPlanEvaluation` | plan, generated program, and its evaluation: state machine, properties, the refinement of `MergingTask` |
| `MergingPlanProofs` | its theorems about calls, operands and identifiers, and their proofs |
| `MergingTaskProofs` | that it computes what the plan asks for and implements `MergingTask`: theorems and proofs |
| `MCMergingPlan` | merging plans for TLC |
| `OperatorRegistry` | the search for libraries and the registration of their operators |
| `PluginOptions` | the loop over the command line; composes `OperatorRegistry` |
| `InputRewriter` | the rewriter between its pipes, and the loop over dlv's output |
| `MergingPlanParser` | both parsers: texts, trees, errors, several inputs |
| `PluginSession` | dlvhex with the plugin, and `mpcompiler`: composes the four modules above with `MergingPlanCompiler` |
| `PluginSessionProofs` | its theorems about the registry, the options and the converters, and their proofs |
| `MergingPlanParserProofs` | that both parsers agree, and what the two programs make of a merging plan: theorems and proofs |
| `MCPluginSession` | command lines, directories, rewriters, plans as texts |
| `DistanceBasedMerging` | one of the operators `dbo` and `dalal`: the program it writes and what it makes of its answers |
| `MajoritySelection`, `RelationMerging` | these operators as functions of their calls; both use `Selection`, the loop that keeps some elements of a list |
| `OperatorApplications` | applications of all four operators in one process |
| `OperatorApplicationsProofs` | theorems about all four operators, and their proofs |
| `MCOperatorApplications` | applications for TLC |
| `RecursionLemmas` | least counterexamples, concatenation and the parts of it, for the proofs |

### HexAnswerCache

*State.* `calls`, `answer`, `locks`, `accessCounter` are the vectors, as
functions on the handles `0 .. size-1` (`cache` is split into key and pointer;
`NULL` is the null pointer). `stack` is the C++ call stack: one frame per `load`
in progress, with the function that called it (`caller`), the entry it loads
(`index`), its place in the code (`pc`), and its local data: handles and answers
a program evaluation has obtained (`got`, `seen`), the operands an operator call
has locked, collected and released. `scan` holds the local variables of
`reduceCache`. Only the top frame takes steps. `status` becomes "failed" on an
exception and "crashed" when a null pointer is dereferenced.

*Programs* are abstract: a program has a set of external atoms to evaluate
(`Wants`, `Body`), a set of answers it also inspects (`Reads`), and answer sets
of its own to which it adds what it inspected (`Evaluate`). dlvhex may evaluate the
atoms in any order in which handles are available, and any of them again
(`Again`). A `subject` of a call stands for the text or path of the program
together with its command line and its input facts; the salted MD5 sum that
replaces the text in comparisons is taken to be injective. That nesting is well
founded (`NestingAssumption`) is a precondition of the plugin too: a file that
calls itself recurses without end.

*Actions and code.*

| action | code |
|---|---|
| `RequestFound`, `RequestNew`, `ReturnHandle` | `operator[](const HexCall)`: search; append and `load`; `access` and return |
| `ReadResident`, `ReadEvicted`, `ReturnAnswer` | `operator[](const int)`, one step per call (`&answersets` and the other atoms call it several times for one evaluation) |
| `LoadHexProgram` | the end of `loadHexProgram`/`loadHexFile`, the store in `load` |
| `LockOperand`, `ReturnOperand` | one round of the loop over the operands in `loadOperatorCall` |
| `ApplyOperator`, `OperatorThrows` | parameter check, arity check and `apply` |
| `ReleaseOperand`, `LoadOperatorCall` | the unlocking loop, return and store |
| `ScanEntry`, `Evict`, `Reduced` | one round of the search in `reduceCache`, the removal, the two ways to leave |
| `EvaluationThrows`, `FinishMain` | the nested evaluation throws; the main program ends |

`HexCall::operator==` is `MayEqual`/`MustEqual`: it compares the operands up to
the number the *cached* call has. If the new call has fewer, it reads past the
end of a vector; both outcomes are then possible.

### MergingPlanEvaluation

*Data.* A generated program is a record of what its rules say
(`MergingPlanCompiler` lists the forms of rules). The identifiers in it are strings
glued together from names and "_"; equality of these strings is what matters
(two sections with equal identifiers share their rules), so they are kept as the
sequences of their "_"-free segments (`Segments`), which are equal exactly when
the strings are: a belief base `b_3` and one `b` next to a `3` cannot be told
apart in the model either. Names and values are taken to be identifiers that
HEX reads as constants, on which quoting changes nothing. The `&arguments` rules
give the predicate both as a string and as a constant
(`CodeGenerator.cpp:365`, `:371`); the two are taken to name the same predicate.

*State.* `plan` is the parse tree and `program` the result of the code generator.
`pending` holds the rules with external atoms still to be evaluated. `store` is the
answer cache as its clients see it without a limit: the calls and answers behind
the handles, counted from 1. `sources` and `applied` are the tuples external atoms
have contributed to the predicates `sources` and `results`; what other rules
derive from them is a function of the state (`Results`, `ArgumentFacts`,
`ParameterFactsOf`). `status` is "corrupted" after a write outside of the vector
of operands.

| action | code |
|---|---|
| `Compile` | `MPCompiler::convert` with `CodeGenerator::generateCode` and all it calls |
| `EvaluateBeliefBase` | `CallHexAtom::retrieve`, `CallHexFileAtom::retrieve` without input facts |
| `ApplyOperator` | `OperatorAtom::retrieve`: operands by position, arguments, lookup of the operator, call of the cache; the operator is applied, and may reject what it is given, only if the cache has no equal call |
| `Extract` | the rules of `writeAnswerSetExtraction` with `&answersets`, `&predicates`, `&arguments` |

dlvhex is external: it evaluates an operator's atom when no rule that may extend
its input is pending (`InputComplete`), belief bases at any time, and represents
a strongly negated atom by an atom over an auxiliary predicate symbol. The search
in the cache is the real one (`HexCalls`), with its comparison of operands up to
the length of the cached call.

`MergingTask` knows sections and answers only. Under the refinement mapping, a
section is merged when its identifier has a handle; `Merge` may merge several
sections at once, since sections with the same sub-plan share one rule.

### OperatorRegistry and PluginOptions

*State.* `operators` is the registry; an operator is the library and the place in
it (`nr`, 0 for built-in ones). `scans` is the stack of `addOperators` calls that
have a directory open, each with the entries `readdir` has yet to return, in any
order. `pending` holds the search paths that are left and `library` the library
whose operators are being entered. `stage` is the place in `processOptions`.
`Described` is the constant set of operators that have a text for `--operatorinfo`: asking
for another one ends the program ("no information").
`commandLine` is what dlvhex hands over, `options` what is left of it, `at`,
`found` and `rest` are the loop's local variables, `searchpaths`, `converter`,
`debugMode` and `opinfo` its results. Paths are sequences of characters, since the
loop over a list of paths cuts one string at positions of another.

| action | code |
|---|---|
| `SkipOption`, `InfoOption`, `DebugOption`, `PathOption`, `RewriterOption`, `SecondRewriter` | one round of the loop in `processOptions`, by the kind of the option; the last one throws |
| `CutPath`, `LastPath`, `CutBeyondEnd` | one round of the inner loop over a list of paths; the last is `std::out_of_range` |
| `OptionsRead`, `Search`, `PathsSearched`, `Started` | the directories of the system and of the user in front of the search paths, one `addOperators` for each, the end |
| `SearchPath`, `ReadEntry`, `CloseDirectory` | `addOperators` for a path: library, directory or neither; one round of the loop over entries |
| `EnterOperator`, `DuplicateName`, `LibraryEntered` | one round of the loop over the operators of a library; a name that is taken throws |

The file system and libltdl are external: which paths are directories, and what
libraries offer, are constants.

### InputRewriter

*State.* `unsent`, `toChild`, `owed`, `fromChild` and `routput` are the lines of the
program and of the output on their way: not yet written, in the pipe to the
child, computed but not yet written by the child, in the pipe back, read.
`rewriting` is the place in `convert`; `dlv` and `printed` belong to the loop over
dlv's output, which is kept as tokens.

| action | code |
|---|---|
| `Spawn`, `SendLine`, `EndOfFile`, `ReceiveLine`, `CloseProcess` | `Rewriter::convert`: start, one line into the pipe, its end, one line from the pipe, the exit code |
| `ChildReads`, `ChildWrites` | the child, an external program (`Commands`): it writes while it reads, or only at the end of its input (`buffers`) |
| `PrintAnswerSet`, `ConvertDiagnosis`, `SkipToAnswerSet`, `AllPrinted`, `DlvDone` | `DLV::convert`: the branches of the loop over the output |

Both ends of a pipe block when it is full or empty; `PipeSize` is its capacity in
lines. A child reads all its input before it exits.

### MergingPlanParser and PluginSession

Texts are sequences of items (a section's opening keyword, a key-value pair, a
predicate, the merging plan, an item the grammar does not accept), with comments
and white space left out (`Items`). `SpiritTree` and `BisonTree` are what the two
grammars make of a text, with their own error counts: the one adds section after
section from the front (`AddSection`), the other puts item after item in front of its
lists, from the end (`Reduce`). The state is the list of inputs
(`inputFiles`), `fileCounter`, `fileContent`, `parseTree`, `errorCount` and
`parsing`, the place in `parse`. `SpiritFile`, `SpiritDone` and `SpiritString` are
`SpiritParser::parse`, `BisonFile`, `BisonDone` and `BisonCrashes` the scanner's
change of files and the end of `yyparse`, `OpenFails` a file that does not exist.

`PluginSession` has `program` (the text given to dlvhex), `arguments` (of
`mpcompiler`), `output` (what dlvhex goes on with), `stdout`, and `session`, the
place in either program:

| action | code |
|---|---|
| `ProcessOptions`, `ReadProgram` | dlvhex calls `processOptions`, then reads its input |
| `ConvertByProcess`, `Rewrite`, `HandOn`, `DlvFails`, `PrintAnswerSets`, `HandOnConstraint` | the converters `Rewriter` and `DLV` |
| `ConvertPlan`, `ParsePlan`, `GeneratePlan` | `MPCompiler::convert` |
| `ShowHelp`, `CreateParser`, `Parse`, `ParsingFailed`, `PrintParseTree`, `CompilePlan` | `main` of `mpcompiler` |
| `Crash` | a null pointer is dereferenced |

### DistanceBasedMerging and OperatorApplications

*State.* `ri` (behind invented names) and `sourceNr` are the static variables of the
C++ classes, `noPredicate` is the option of dlvhex; they outlive an application.
`call`, `src`, `at`, `names`, `setting`, `merged` and `result` are local to `apply`, and
`pc` is the place in it. Names are pairs of a text and a number, of which the text
may end in digits itself; literals are over `Propositions`.

| action | code |
|---|---|
| `Apply`, `NameGlobal` | entry of `apply`, `findUniqueAtomName` for the optimization atom and the cost atoms |
| `ParseParameter`, `RejectParameter`, `BuildAggregateFunction`, `RejectAggregate` | `parseParameters` for one parameter after the other, `buildAggregateFunction` |
| `RenameSourceAtom`, `SourceRenamed` | `renameSourceAtoms` for one source |
| `WriteAnswerSetSelection`, `WriteCostComputation`, `ProgramComplete` | `writeAnswerSetSelectionRules` and `writeCostComputationRules` for a source, and the end of the loop over sources |
| `Solve`, `SolverThrows`, `Return` | evaluation by dlv with its limit and filter, `optimize`, the result |

Solving is external: dlv's answer sets of the written program are given as a
function of what the rules say. `dbo` and `dalal` are two instances of this module
with statics of their own. `MajoritySelection` and `RelationMerging` give the outcome
of one call, an exception included; user-defined rules of relation merging are
programs for dlv and are left out.

## 3. Runs

The first five runs use `MCHexAnswerCache`: a main program, a nested program `p` that
itself merges and reads, a program `q`, a file `f`, a file that cannot be
evaluated; up to ten external atoms, among them operators on shared operands,
with a repeated operand, with permuted and different key-values, and with too
many operands. The nesting reaches operator over program over operator over
program, four loads deep.

| run | expected | question |
|---|---|---|
| `unlimited` | pass | The plugin's own configuration: `HandleDenotesCall`, `LoadedOnce`, `NoNullDereference` |
| `limited` | pass | Limit 2, reading programs, failing programs and operators: `IInv`, `OperandsResident`, `LocksCountHolders`, `CountMatchesResident`, `LoadsAreDisjoint`, `LimitExceededOnlyForOperands`, `ReadsDeliverMeaning`, `CallReferenceValid`, and `Termination` under `FairSpec` |
| `read_after_eviction` | violation | `NoNullDereference` does not hold with a limit: an entry loaded for a reader is evicted before it is returned |
| `oldest_evicted` | violation | the eviction does not remove the oldest entry: counters are compared with an index |
| `operand_prefix` | violation | a call is taken for one with fewer operands, so that the handle stands for another call |

Four runs use `MCMergingPlan`, with twelve correct or faulty plans of up to
ten sections.

| run | expected | question |
|---|---|---|
| `compiled_plans` | pass | A compiled plan does what `MergingTask` says (`ImplementsTask`), in any order of evaluation; no identifier stands for two results (`OneResultPerSection`), operands fit their vector (`OperandsAssembled`), nothing is evaluated twice (`AskedOnce`), and the evaluation ends with a result exactly when nothing in the plan is at fault (`Delivery`, under `FairSpec`) |
| `ambiguous_plans` | violation | two applications of one operator to the same sources with different arguments share an identifier, and each gets the arguments of both |
| `negated_plans` | violation | strongly negated literals of the common signature are not delivered |
| `undeclared_base` | violation | a plan that uses a belief base that is not defined compiles; if it is not the last source of its section, the operator atom writes outside of its vector |

The other runs use `MCPluginSession` and `MCOperatorApplications`.

| run | expected | question |
|---|---|---|
| `plugin_session` | pass | From the command line on: names in the registry denote what libraries offer (`Denotes`); in every order of entries, a search that comes to its end has registered what is offered directly in the directories given, and it breaks off only over a name that is taken (`RegistryDecided`); the options do what they say, once, where a path is not in a list (`OptionsObeyed`); no line is lost in the rewriter, and dlvhex never goes on with the output of one that has failed (`LinesDelivered`); dlv's answer sets are printed (`AnswerSetsPrinted`); a grammatical plan reaches the code generator as it was written (`PlanDelivered`); `mpcompiler` compiles grammatical texts only, of one file, or with bison of all its files (`FilesCompiled`); every crash has one of the known reasons (`CrashesExplained`); and both programs end (`SessionEnds`) except in the two known loops |
| `several_files` | violation | with the default parser, of several files only the last one is compiled (`AllFilesCompiled`) |
| `operator_applications` | pass | Two applications of `dbo`, `dalal`, `majorityselection` and `relationmerging`, in one process: predicate names in a generated program are apart (`NamesApart`), every lookup of a renamed predicate succeeds (`LocalNamesKnown`), a first application of `dbo` or `dalal` chooses the admissible decisions closest to the sources, for costs that are given as triples or "ignoring" (`DistanceMinimised`), of the answer sets with a vote, the majority's remain (`MajorityFollowed`), rules and agreement decide what is merged of sources that begin with the key (`RelationMerged`), and every application ends (`ApplicationsEnd`) |

**Where the code does something else than its documentation.** The findings in
`PROJECT.json` are those of the violation runs above. Further configurations, which
are not among its runs, check what a text of the repository says of the
plugin's session and of the operators; TLC reports each of these properties as violated (`tlc -config X.cfg`
with `MCPluginSession` or `MCOperatorApplications`):

| configuration | property | what the code does |
|---|---|---|
| `DuplicateOperators.cfg` | `AllNamesRegistered` | a name offered twice ends the program instead of being ignored with a warning |
| `NestedDirectories.cfg` | `SearchedDirectly` | libraries of a directory inside of a directory are loaded, if its name ends in `.so` |
| `PathLists.cfg` | `PathListsSearched` | not all paths of a list with commas are searched |
| `PartialPlans.cfg` | `UngrammaticalRejected` | dlvhex goes on with the code of a plan that is only partly grammatical |
| `LoneChildren.cfg` | `LoneChildrenCompiled` | a section with a single child is taken for a data source |
| `CostShortcuts.cfg` | `ShortcutsMeanTheirTriples` | "unfounded", "aberration", "dalal" and "dal" leave out one of the kinds of difference they are documented to charge |
| `SecondApplication.cfg` | `LaterApplicationsMinimise` | a second application with `sum` or `max` does not minimise |
| `IgnoredPredicates.cfg` | `IgnoredPredicatesIrrelevant` | literals that are to be ignored have costs |
| `UserAggregates.cfg` | `UserAggregatesMinimise` | a user's aggregate over `cost(B,sum,C)` does not minimise |
| `UndecidedAnswers.cfg` | `OnlyFollowersRemain` | answer sets without a vote remain when the majority denies |
| `KeyPositions.cfg` | `AgreedValuesCopied` | an attribute in front of a later key attribute is lost |

The properties of the two passing runs `plugin_session` and `operator_applications`
are stated for what is left. The texts and the lines of code are:

- *Cache*: `read_after_eviction`, `oldest_evicted`, `operand_prefix`. *Plans*:
  `ambiguous_plans`, `negated_plans`, `undeclared_base`.
- Several operators with one name: "the mergingplugin will print a warning on
  startup and ignore all but the first one" (`documentation.dox:230`,
  `UserGuide-mergingplugin.tex:323`). `addOperators` throws (`Operators.cpp:200`), which
  ends dlvhex with the operators behind it not registered. `RegistryDecided` says
  only that nothing else breaks the search off. `DuplicateOperators.cfg`
- The search is "non-recursive" (`documentation.dox:254`, the user guide, and the help).
  `addOperators` searches entries that end in `.so` and are directories
  (`Operators.cpp:162`). `RegistryDecided` demands the operators directly in the
  directories given and leaves open those further down. `NestedDirectories.cfg`
- `--op=a,b` is cut at positions of the text with `--op=` in front: a short list
  is `out_of_range`, and of a long one, `--op=a` and a piece of its end are
  searched (`documentation.dox:252` promises a list of paths). `PathLists.cfg`
- In string mode, as the plugin uses it, the Spirit parser counts no errors: a
  plan that stops being grammatical is silently cut there (`MergingPlugin.cpp:98`,
  `SpiritParser.cpp:268`), although an error is to be displayed. `PartialPlans.cfg`
- A section with one child is taken for a data source (`SpiritParser.cpp:138`),
  although the grammar allows it. `LoneChildren.cfg`
- Of several files given to `mpcompiler`, only the last one's tree survives with
  Spirit, the default (`SpiritParser.cpp:260`), although "one or more input files" are
  promised; Bison concatenates them. `several_files`
- The shortcut "unfounded" is documented as "not,+,1" and "not-,-,1", and "aberration",
  "dalal" and "dal" as that besides "ignoring" (`OpDBO.cpp:71-74`, `OpDalal.cpp:71-74`;
  the header has the first of the two only). `parsePenalize` sets the first only, for all
  of them. The costs in `DistanceMinimised` are those of the help text
  (`DocumentedCost`), so that it is stated without these shortcuts. `CostShortcuts.cfg`
- From the second application on, `sum` and `max` of the distance operators look
  for costs under numbers that no source has, because the number is static
  (`OpDBO.cpp:506`); nothing is minimised then. `SecondApplication.cfg`
- Ignored predicates are collected before it is known that they are ignored
  (`OpDBO.cpp:695`), and charged for when a decision has them. `IgnoredPredicates.cfg`
- Of `majorityselection`, "only those answer-sets that follow this majority will
  remain" (`OpMajoritySelection.cpp:18`); answer sets that do not vote remain too when the
  majority denies the atom (line 83). `MajorityFollowed` speaks of those that
  vote. `UndecidedAnswers.cfg`
- Relation merging counts the positions of keys from 0 in one place and from 1 in
  another (`OpRelationMerging.cpp:91`); its help text calls it buggy. `KeyPositions.cfg`
- A user's aggregate may use `cost(B,sum,C)` (`OpDBO.cpp:44-46`), which becomes a
  `costSum` of three arguments; the program derives one of two. `DistanceMinimised`
  demands nothing for such an aggregate ("documented" in the model). `UserAggregates.cfg`

Behaviour that no text of the repository excludes, and that the properties state
or leave out by a precondition:

- The rewriter writes all of the program before it reads anything: with a child
  that writes while it reads, more output than one pipe holds and more input
  than the other one does block both for ever (`NeverStuck`, in `SessionEnds`).
- The output is handed on before the exit code of the rewriter is known
  (`MergingPlugin.cpp:70`); when it fails, the exception that follows keeps dlvhex from
  going on with it (`LinesDelivered`).
- The loop over dlv's output never ends on a `{` without `}` (`Closed`, in `SessionEnds`),
  and knows a diagnosis only at the start of the output (`WellFormed`).
- A missing file, `--` given twice, no file at all with Spirit, an empty program or
  signature with Bison: null pointers (`CrashesExplained` lists them).
- `dbo` and `dalal` ignore a file of constraints that they cannot read.

*Bounds.* The merging plans are finite and are run as they are, without further
bound: nested and shared sub-plans, one belief base used twice, two with the
same content, two operators on the same sources, an operator without operands,
predicates of arity 0 to 2 inside and outside of the common signature, several
answer sets, a plan without sections and one per kind of fault. The plans of
`compiled_plans` have no two applications of one operator to the same sources
with different arguments, no negated literal, and no undefined belief base but in
the last place: those are the three other runs.

For the cache, `MaxRepeats` bounds how often atoms are evaluated again (one
repetition is enough for a found entry, a second read and a read after eviction;
each further one repeats the same steps). The limit 2 is below the
number of operands and entries, so that evictions, evictions of what was
just loaded, and searches that find everything locked all occur. The cache's
size needs no bound: it is at most the number of different calls.

For the front end, `PipeSize` is 2 with programs of three lines: pipes are full,
empty and in between, with commands that keep, double and drop lines. The
directories have two levels, with libraries that agree and disagree about names.
Texts have up to a dozen items, files come alone and in pairs. `MaxApplications`
is 2, since what an application leaves behind are two counters and an option: a
second application sees them changed, a third sees larger numbers.

*Fairness.* `FairSpec` is weak fairness of the whole next-state relation: the
process is single threaded and none of its steps waits for anything, so the
only assumption is that it is scheduled and that nested evaluations end. In
`MergingPlanEvaluation` it is weak fairness of the next-state relation as well:
dlvhex goes on while an atom of the program is left to evaluate. `FairSessionSpec`
is the same for the two programs and the child of the rewriter, which block each
other only by their pipes. `FairSpecAll` is fair to an application that has begun,
not to beginning one.

## 4. Proofs

All theorems hold for every value of the constants under the assumptions named
in the modules.

### The cache

`HexAnswerCacheProofs`, from `IInv`:

- `Invariant`: `Spec => []IInv`
- `TypeCorrect`: `Spec => []TypeOK`
- `OperandsStayResident`: `Spec => []OperandsResident`
- `LocksAreExact`: `Spec => []LocksCountHolders`

`OperandsResident` is not inductive. An operand stays because it is locked; it
is locked because a frame further down counts as its holder; so the invariant
says that locks count holders (`LocksCountHolders`), that an operator's frame
holds all operands it has collected and the one being loaded for it
(`StackWellFormed`), that the candidate of the eviction search is not locked
(`ScanWellFormed`), and that a loaded operand survives the reduction at the end
of its own load (`OperandLoaded`). The proof has a lemma per action; general
lemmas say how `Holders` and the well-formedness of the stack change when the
top frame is replaced, pushed or popped. Well-founded nesting (`Rank`) is not
needed for these theorems.

`HexAnswerCacheProofs`, from `LimitInv`:

- `LimitKept`: `Spec => []LimitExceededOnlyForOperands`
- `NoNullWithoutLimit`: `MaxCacheEntries < 0 => (Spec => []NoNullDereference)`

`LimitInv` adds that the search of `reduceCache` has passed nothing it could evict
while it has no candidate, so that leaving without one means that everything is
locked, and that without a limit what a load has stored is there when it returns.
The second theorem is for the plugin's configuration; the run
`read_after_eviction` shows that the hypothesis is needed.

`HexAnswerCacheHandleProofs`, from `HandleInv`, each under the hypothesis `PrefixFree`:

- `HandlesDenoteCalls`: `Spec => []HandleDenotesCall`
- `MeaningDelivered`: `Spec => []ReadsDeliverMeaning`
- `LoadsDisjoint`: `Spec => []LoadsAreDisjoint`
- `CountIsExact`: `Spec => []CountMatchesResident`
- `NothingLoadedAgain`: `Spec => []LoadedOnce`
- `ReferencesStayValid`: `Spec => CallReferenceValid`

`PrefixFree` says that no list of operands is a proper prefix of another one, up to
operands that are equal calls, to which the same operator is applied with the
same arguments. The code needs it: `HexCall::operator==` compares operands up to
the number the cached call has, and `operand_prefix` is a run without it that
violates `HandleDenotesCall`. It holds for the constants of `unlimited` and
`limited`.

Different programs ask for the same atom, in different orders, and what they
obtain are numbers that depend on the order. So `HandleInv` has three witnesses: `D`
gives the handle an atom has wherever it is evaluated, `m` the answer an entry has
whenever it is in memory, and `r` a rank of entries such that every load on the
call stack has a lower rank than the one below it. Entries are explained by atoms
(`EntriesExplained`), frames by `D` and `m`, and a new entry extends the witnesses
(or changes none). Loads cannot meet because ranks fall along the stack; what was
evicted and is loaded again has the same answer because its program obtains the
same handles; operands are loaded again only, never for the first time, so that
nothing is appended to the vector while a reference into it is held.

`Meaning` is defined by recursion on the rank; the lemma `MeaningSolved` shows that
it satisfies its equation for all constants. The library's theorem about
recursive functions takes an operator as a parameter and cannot be used; the
lemma argues with a least rank at which two candidates differ (`RecursionLemmas`).

### Merging plans

`MergingPlanProofs`, for all plans, contents, operators and segments of names that
satisfy `PlansAssumption`, `OperatorsAssumption` and `SegmentsAssumption`
(which say that lists are lists, that sections merge earlier nodes, and that names
have segments):

- `TypeCorrect`: `Spec => []TypeOK`
- `EveryCallAskedOnce`: `Spec => []AskedOnce`
- `OperandsFillVector`: `Spec => [](BasesDefined(plan) => OperandsAssembled)`
- `ResultsAreUnique`: `Spec => [](Unambiguous(plan) => OneResultPerSection)`

`TypeOK /\ AskedOnce` is inductive. A handle in `sources` or `applied` comes from a
request (`RequestKeepsStore`), which appends a call only if it equals none in the
store; the call of an operator is well typed because the operands of an
application are finitely many (`FinitePositions`, through the generated rules) and
fill the vector when there is no overrun, and because operators that accept
their arguments return answers (`AppliedType`).

`OperandsFillVector` rests on `AssemblyInv`: every rule that has been evaluated has
contributed. When an operator is applied, the rules its input depends on have been
evaluated; if all belief bases are defined, each source of the section then has a
handle (`SourceHasResult`), the positions go from 0 to the last without a gap, and
there is no overrun (`PositionsFromZero`, `NoOverrun`). The run `undeclared_base`
shows that the hypothesis is needed.

`ResultsAreUnique` rests on `UniqueInv` and on what identifiers say about the nodes they
were made for. An identifier is the name of an operator or belief base followed by
the identifiers of the sources, glued together. If no name is, or continues at a
"_", another one (`NamesTell`), a common identifier means the same name at the
front and the same rest (`IdentifiersTell`), hence the same kind of rule; together
with one program per name of a belief base (`BasesTell`) the rule is the same, and
it has one result. `Unambiguous` is the conjunction of the two; all plans of
`compiled_plans` satisfy it. The theorem says why the set of used identifiers,
which the code looks up but never fills, is not missed for such plans; it does not
say that two sections with one identifier have the same arguments, which
`ambiguous_plans` refutes.

`MergingTaskProofs`, with `LiteralsAssumption` (the programs of a run have finitely many
atoms, which are literals, and a signature consists of predicates with arities):

- `ResultsAreMeant`: `Spec => [](Telling(plan) => MergedAsPlanned)`
- `VerdictIsRight`: `Spec => [](Telling(plan) /\ OneRoot(plan) => Verdict)`
- `SignatureDelivered`: `Spec => [](Deliverable => LiteralsDelivered)`
- `PlanIsImplemented`: `Spec /\ Deliverable => ImplementsTask`

The last one is the refinement of the abstract specification. The hypotheses are
properties of the plan, constant during a behaviour, each of which the code needs:

| hypothesis | says | without it |
|---|---|---|
| `Unambiguous` | a common identifier means the same name and the same sources | sections get each other's results |
| `BasesDefined` | belief bases that are used are defined | `undeclared_base`, the vector of operands is overrun |
| `ArgumentsTell` | sections that share argument predicates have the same arguments | `ambiguous_plans` |
| `CountsTell` | the same operator with the same arguments has equally many operands | `operand_prefix`: `HexCall::operator==` compares only a prefix |
| `OneRoot` | at most one merging plan section | several plans write their literals into the same answer sets |
| `TransferableLiterals` | no literal of the signature in the merged answer is negated, or has more arguments than declared | `negated_plans` |

`Telling` is the conjunction of the first four, `Deliverable` of all. TLC finds that
all of them hold of every plan of `compiled_plans`, but for `BasesDefined` of the plan
whose last base is undefined.

`Meaning` (`MergingTask`) and `Identifiers` (`MergingPlanCompiler`) are recursive over
the sections, which come after their sources; a least section at which two
candidates differ shows that they satisfy their equations. The inductive invariant
`PlanInv` adds `MeaningInv` to those of `MergingPlanProofs`: the answer behind a handle
is that of its call (`EntriesMean`), and the tuples in `sources` and `applied` are
those of sections with their identifier and with their meaning (`SourcesMean`,
`AppliedMean`). When an operator is applied, the derived arguments are those of a
section (`ArgumentsTell`), and the operands are the meanings of its sources in
their order. `Verdict` is the safety half of `Delivery`: the evaluation completes
only if the plan is `Faultless`, and fails only if it is not; for its proof, every
fault is traced to the rule that meets it. For the refinement (`MergingStep`,
`DeliveringStep`), a step of the evaluation with a new handle (`NewResult`) merges
exactly the sections with that identifier, all of whose sources are merged.

### The front end

`PluginSessionProofs`, for all file systems, libraries, command lines, commands,
programs and sizes of the pipes that satisfy the assumptions of the modules:

- `OperatorsDenote`: `SessionSpec => []Denotes`
- `OperatorsNeverReplaced`: `SessionSpec => [][OperatorsKept]_allVars`, where
  `OperatorsKept` says that a step leaves every registered operator as it is
- `RegistrySearched`: `SessionSpec => []SearchOutcome`
- `RegistryAlwaysDecided`: `SessionSpec => []RegistryDecided`
- `EveryLineDelivered`: `SessionSpec => []LinesDelivered`
- `SessionTyped`: `SessionSpec => []SessionTypeOK`
- `OptionsTaken`: `SessionSpec => []OptionsObeyed`
- `SetsPrinted`: `SessionSpec => []AnswerSetsPrinted`

The inductive invariant `SessionInv` has a part for each module. For the rewriter
(`RewriterInv`): what the command makes of the lines not yet read by it, behind
what is on its way out, is what it makes of the program (`NothingLost`). A line that
the child reads moves from one side to the other, which takes associativity of a
concatenation of sequences (`RecursionLemmas`). For the options (`OptionsInv`): the
converter is that of the first option that asks for one, so that the process is
the one `LinesDelivered` talks about; a rewriter that has come to its end had exit
code 0 (`Underway`). `CallsAssumption` says that a command
understands the lines of the program it is given.

`TypesInv` adds what the loops count: `ObeyedInv` says that the options found are
those of the plugin before the current place, and that search paths and converter
are what these alone ask for; `PipesInv` and `FilesInv` bound the pipes and the files
opened. When the loop has ended, the options found are erased. `Erased` is
recursive over the list; that it keeps the others in their order, all of them and
each once (`InOrder`), is shown by a least counterexample again.
`ArgumentsAssumption` says that arguments of `mpcompiler` are strings.

`RegistryDecided` says what is promised of a search, `SearchOutcome`, which implies it,
exactly what the code does. It compares the registry with `Offers`: every operator of every library
that can be reached from a search path, once for each way on which it is reached. A
way is a list of directories, each an entry of the one before it; it may be as long
as there are directories. `readdir` goes through the ways in any order, so that the
invariant cannot speak of an initial part of a list: `LookedAt` says of an
operator, from the stack of open directories and the entries they have left, whether
the search has passed an entry on its way or has entered it, and `SearchState`
that the names registered are the built-in ones and those of the operators looked
at, no two of which have the same. One lemma for each step says which operators
come to be looked at: the operator that is entered (`SeenEntered`), and none at
all when an entry is read, a directory is closed or a library ends (`SeenRead`,
`SeenUp`, `SeenLibrary`). When no path is left, all of them are (`SearchEnds`). A name
that is taken is that of an operator looked at before or of a built-in one
(`NameTaken`). `NoCycleAssumption` says that there are finitely many directories, and
none lies below itself: `addOperators` makes the path of an entry out of that of
its directory and a name more, so that paths become longer. Without it the
recursion would not end. `SystemDirsAssumption` says that the directories of the
system and of the user are paths.

The loop over dlv's output looks at one text, in which the ends of lines are tokens
like others (`TokensAssumption`: a line has none inside), and cuts away what it has
handled by searching for the next brace. `DlvInv` says what is left of the text
whenever the loop looks at it: the rest of a line that has already reported,
followed by whole lines (`BeforeLine`), possibly with the answer set to be printed
next in front (`BeforeSet`), such that what is printed and what these lines have to
report is all that dlv reported. The first brace of such a text is found by a least
counterexample (`Opening`). That lines are as dlv writes them (`WellFormed`: one answer
set in a line at most, closed, and diagnoses before everything else) is the
hypothesis of `AnswerSetsPrinted` itself; `plugin_session` has outputs with and without.

### Parsers and merging plans

`MergingPlanParserProofs`, for all texts, files and arguments:

- `TreesAgree`: `SpiritTree(text) = BisonTree(text)` for every grammatical text without
  a section that has a single child
- `PlansDelivered`: `SessionSpec => []PlanDelivered`
- `CompiledFiles`: `SessionSpec => []FilesCompiled`
- `CrashesAreExplained`: `SessionSpec => []CrashesExplained`

The two parsers go through a text in opposite directions, so that neither tree is
a part of the other until both have ended. `Joined(tree, lists)` is what the sections
added so far by spirit and the lists made so far by bison would give together: it
is the same at every place of the text (`JoinedStep`), for all of the text before the
place and all behind it (`JoinedAlways`), and each tree is its value at one end.
At a header, bison's list of pairs or predicates is that of the header's children
(`Gathered`); in a text that is not grammatical it need not be. That sections are
shifted by the number of those before them associates (`BehindAssociates`). Names
are read through a wrong pointer by spirit only in a section with one child
(`SpiritUndamaged`), and by bison never (`BisonUndamaged`).

`PlansInv` is the invariant of the two programs. It says which of them runs
(`ProgramInv`), that dlvhex's tree is that of the accepted part of the text
(`PlanRead`) and its output the code of this tree (`PlanGenerated`); for `mpcompiler`,
that spirit's tree is that of the last file read and every file read was a program
(`SpiritRead`), that bison's text is all files read so far, and its tree, or the lack
of one, that of the text (`BisonRead`); and how either program ends (`OutcomeInv`).
Errors count only upwards, so that a count of zero at the end speaks of all files.
When standard input is named twice, what is read the second time is undefined, and
`SpiritRead` and `BisonRead` say nothing of it.

`TextsAssumption` says that the files and standard input hold texts, and
`PlanTextsAssumption` that dlvhex is given one when an option asks for the merging
plan compiler. A text may have items of every kind in every order. The name
`Damaged`, which stands for what a wrong pointer shows, is not one that a text
contains.

### The operators that decide between belief bases

`OperatorApplicationsProofs`, for all sources, parameters and orders of applications:

- `TypesCorrect`: `SpecAll => []AllTypeOK`
- `AlwaysNamesApart`: `SpecAll => []NamesApart`
- `AlwaysLocalNamesKnown`: `SpecAll => []LocalNamesKnown`
- `MajorityAlwaysFollowed`: `SpecAll => []MajorityFollowed`
- `RelationAlwaysMerged`: `SpecAll => []RelationMerged`

`dbo` and `dalal` have counters of their own and share what is local to an
application. What a step does to the program is therefore stated once
(`ProgramStep`), shown to keep the invariant `ProgramInv`, and shown of the actions of
both. A new name is compared with all names in use, so that names stay apart
wherever a counter stands; the loops over atoms and sources leave nothing out
(`RenamedBefore`), so that the lookups succeed. The calls of `dalal` are sequences of
answers like those of `dbo` (`DalalAssumption`).

`majorityselection` and `relationmerging` keep nothing between calls, so that the
inductive invariant is only that what was returned is what the operator computes of
the last call (`ReturnedInv`); the rest is about functions. Lemmas about `Kept`
take the place of induction over lists (`ByAppending`: what holds of the empty
sequence and of every sequence with one element more holds of all): keeping twice is
keeping what is in both sets, as many elements are kept as there are places with
one, and only what the elements of the list are counts. So the votes that
are counted are the lengths of the lists that `MajorityFollowed` compares, and of what
remains, those with a vote are one of these lists. It is needed that an answer
set does not hold a literal together with its negation (`MajorityAssumption`), which
no consistent answer set does; without it an answer set that votes both ways would
be dropped although it voted with the majority.

For `relationmerging`, when the key comes first in a schema, the positions of key
attributes are 0 up to the length of the key, although another attribute of the
same name would be counted, too: a schema with one is rejected for their number
(`FirstIndices`). What remains is to compare the facts written for each source with
its tuples (`FactsAre`) and the written rules with what is promised
(`FinalExpected`). A tuple has as many values as the schema has attributes
(`RelationAssumption`).

### Only model-checked

- Liveness and `ENABLED` are out of the prover's reach: `Termination`, `SessionEnds`,
  `ApplicationsEnd`, and of `Delivery` that the evaluation ends (`VerdictIsRight` is
  the rest of it).
- `DistanceMinimised` compares sums over sources, which takes induction over data.

## 5. Plan

Done: all components of section 1 but the simulator and the solver wrapper; the
theorems of section 4. Left: `DistanceMinimised` for a single source.

## 6. Not modelled

dlvhex itself (grounding, solving; the order in which it evaluates atoms is
left open), memory other than the answers, formatting, quoting, comments and
logging, the destructor of the cache, the constant list of atoms that
`createAtoms` returns, the text of `printUsage`, user-defined rules of relation
merging. `DlvhexSolver.cpp` moves text between a process and the operators that are
not built, as `Rewriter` does between a process and dlvhex. The simulator atom
rewrites the input of a program and hands it to dlvhex; its state is a table of
parsed programs that only grows. Examples, tests and the build hold no program
logic and were read as documentation.
