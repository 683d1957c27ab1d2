--------------------------- MODULE PluginSessionProofs ---------------------------
(***************************************************************************)
(* The registry never forgets or replaces an operator, and which operators *)
(* it ends up with is decided by what there is to find; the options of the *)
(* plugin are taken and obeyed, those of others left; the input rewriter   *)
(* never loses, doubles or reorders a line; every answer set of dlv is     *)
(* printed once: for all file systems, libraries, command lines, programs, *)
(* commands, texts of dlv and sizes of the pipes.                          *)
(***************************************************************************)
EXTENDS PluginSession, RecursionLemmas, FiniteSetTheorems

CommandOptions ==
  [kind : STRING, prefix : Seq(STRING), value : Seq(STRING), command : STRING]

Processes == {"inputrewriter", "dlv"}

\* The library whose operators are being entered is one that was found.
RegistryInv ==
  /\ BuiltIns \subseteq DOMAIN operators
  /\ Denotes
  /\ scans \in Seq([path : Directories, left : SUBSET Paths])
  /\ library = NoLibrary \/ library \in [path : DOMAIN Libraries, next : Nat \ {0}]

\* The converter is that of the first option, among those looked at, that asks
\* for one.
FirstRewriter(i) ==
  /\ i \in DOMAIN commandLine
  /\ commandLine[i].kind \in Rewriters
  /\ \A j \in 1 .. i - 1 : commandLine[j].kind \notin Rewriters

OptionsInv ==
  /\ commandLine \in Seq(CommandOptions)
  /\ at \in Nat \ {0}
  /\ stage \in {"options", "paths"} => options = commandLine
  /\ stage = "paths" => at \in DOMAIN commandLine /\ commandLine[at].kind = "operatorpath"
  /\ converter = NoConverter /\ stage \in {"options", "paths"} =>
       \A j \in 1 .. at - 1 : j \in DOMAIN commandLine => commandLine[j].kind \notin Rewriters
  /\ converter # NoConverter =>
       \E i \in DOMAIN commandLine : FirstRewriter(i) /\ converter = ConverterOf(commandLine[i])

\* Lines are in the rewriter only when a process was started for them, with the
\* command of the option and the program that dlvhex was given.
Lines == DOMAIN Tokens
Understood == DOMAIN Commands[command].output

Idle ==
  /\ unsent = <<>> /\ toChild = <<>> /\ fromChild = <<>> /\ owed = <<>> /\ routput = <<>>
  /\ rewriting = "idle"

Underway ==
  /\ converter.kind \in Processes /\ command = converter.command
  /\ command \in DOMAIN Commands
  /\ program \in Seq(Understood) /\ unsent \in Seq(Understood) /\ toChild \in Seq(Understood)
  /\ owed \in Seq(Lines) /\ fromChild \in Seq(Lines) /\ routput \in Seq(Lines)
  /\ NothingLost(program)
  /\ rewriting \in RewritingStages \ {"idle"}
  /\ rewriting # "sending" => unsent = <<>>
  /\ rewriting \notin {"sending", "receiving"} =>
       toChild = <<>> /\ owed = <<>> /\ fromChild = <<>>
  /\ rewriting \in {"printing", "printed"} => converter.kind = "dlv"
  /\ rewriting = "rewritten" => Commands[command].exit = 0

RewriterInv == Idle \/ Underway

\* What dlvhex goes on with.
OutputInv ==
  /\ session = "starting" =>
       commandLine \in DOMAIN Calls /\ program \in Calls[commandLine] /\ rewriting = "idle"
  /\ session = "mpcompiler" => rewriting = "idle"
  /\ session = "running" /\ converter.kind = "inputrewriter" =>
       rewriting = "rewritten" /\ output.text = routput

SessionInv == RegistryInv /\ OptionsInv /\ RewriterInv /\ OutputInv
-----------------------------------------------------------------------------
(***************************************************************************)
(* The registry.                                                           *)
(***************************************************************************)

\* An operator is entered behind those that are there, under its own name.
LEMMA EnteredDenotes ==
  ASSUME RegistryInv, library \in [path : DOMAIN Libraries, next : Nat \ {0}],
         library.next <= Len(Libraries[library.path]),
         Libraries[library.path][library.next] \notin DOMAIN operators,
         operators' = Entered(library)
  PROVE  /\ DOMAIN operators' =
              DOMAIN operators \cup {Libraries[library.path][library.next]}
         /\ \A n \in DOMAIN operators : operators'[n] = operators[n]
         /\ BuiltIns \subseteq DOMAIN operators'
         /\ Denotes'
<1> DEFINE new == Libraries[library.path][library.next]
<1>1. /\ DOMAIN operators' = DOMAIN operators \cup {new}
      /\ \A n \in DOMAIN operators : operators'[n] = operators[n]
      /\ operators'[new] = [path |-> library.path, nr |-> library.next]
  BY DEF Entered
<1>2. Libraries[library.path] \in Seq(STRING) /\ library.path \in DOMAIN Libraries
  BY FileSystemAssumption
<1>3. library.next \in 1 .. Len(Libraries[library.path])
  BY <1>2, LenProperties
<1> HIDE DEF new
<1>4. ASSUME NEW n \in DOMAIN operators'
      PROVE  \/ n \in BuiltIns /\ operators'[n].nr = 0
             \/ /\ operators'[n].path \in DOMAIN Libraries
                /\ operators'[n].nr \in 1 .. Len(Libraries[operators'[n].path])
                /\ Libraries[operators'[n].path][operators'[n].nr] = n
  <2>1. CASE n \in DOMAIN operators
    BY <1>1, <2>1 DEF RegistryInv, Denotes
  <2>2. CASE n = new
    <3>1. operators'[n].path = library.path /\ operators'[n].nr = library.next
      BY <1>1, <2>2
    <3>2. Libraries[library.path][library.next] = n
      BY <2>2 DEF new
    <3>3. QED
      BY <1>2, <1>3, <3>1, <3>2
  <2>3. QED
    BY <1>1, <1>4, <2>1, <2>2
<1>5. Denotes'
  BY <1>4 DEF Denotes
<1>6. BuiltIns \subseteq DOMAIN operators'
  BY <1>1 DEF RegistryInv
<1>7. QED
  BY <1>1, <1>5, <1>6 DEF new

\* A call of addOperators puts at most one directory onto the stack.
LEMMA AddOperatorsTyped ==
  ASSUME NEW path, NEW S \in Seq([path : Directories, left : SUBSET Paths]),
         AddOperators(path, S)
  PROVE  /\ scans' \in Seq([path : Directories, left : SUBSET Paths])
         /\ library' = NoLibrary \/ library' \in [path : DOMAIN Libraries, next : Nat \ {0}]
<1>1. path \in Directories =>
        [path |-> path, left |-> Entries[path]] \in [path : Directories, left : SUBSET Paths]
  BY FileSystemAssumption
<1>2. scans' \in Seq([path : Directories, left : SUBSET Paths])
  <2>1. CASE path \in Directories
    <3>1. scans' = Append(S, [path |-> path, left |-> Entries[path]])
      BY <2>1 DEF AddOperators
    <3>2. QED
      BY <1>1, <2>1, <3>1, AppendProperties
  <2>2. CASE path \notin Directories
    BY <2>2 DEF AddOperators
  <2>3. QED
    BY <2>1, <2>2
<1>3. library' = NoLibrary \/ library' \in [path : DOMAIN Libraries, next : Nat \ {0}]
  BY DEF AddOperators
<1>4. QED
  BY <1>2, <1>3

\* What every step of the registry's does to the operators.
OperatorsKept ==
  \A n \in DOMAIN operators : n \in DOMAIN operators' /\ operators'[n] = operators[n]

LEMMA RegistryNextKept ==
  ASSUME RegistryInv, RegistryNext
  PROVE  RegistryInv' /\ OperatorsKept
<1> DEFINE Scan == [path : Directories, left : SUBSET Paths]
<1>1. CASE operators' = operators /\ scans' \in Seq(Scan)
           /\ (library' = NoLibrary \/ library' \in [path : DOMAIN Libraries, next : Nat \ {0}])
  BY <1>1 DEF RegistryInv, Denotes, OperatorsKept
<1>2. CASE SearchPath
  <2>1. AddOperators(Head(pending), scans) /\ operators' = operators
    BY <1>2 DEF SearchPath
  <2>2. scans \in Seq(Scan)
    BY DEF RegistryInv
  <2>3. /\ scans' \in Seq(Scan)
        /\ library' = NoLibrary \/ library' \in [path : DOMAIN Libraries, next : Nat \ {0}]
    BY <2>1, <2>2, AddOperatorsTyped
  <2>4. QED
    BY <1>1, <2>1, <2>3
<1>3. CASE ReadEntry
  <2>1. PICK e \in Top(scans).left :
          IF e \in SharedObjects
            THEN AddOperators(e, Read(scans, e))
            ELSE scans' = Read(scans, e) /\ UNCHANGED library
    BY <1>3 DEF ReadEntry
  <2>2. scans \in Seq(Scan) /\ scans # <<>>
    BY <1>3 DEF RegistryInv, ReadEntry
  <2>3. Len(scans) \in 1 .. Len(scans)
    BY <2>2, EmptySeq
  <2>4. scans[Len(scans)] \in Scan
    BY <2>2, <2>3, ElementOfSeq
  <2>5. PICK s : s = [scans[Len(scans)] EXCEPT !.left = @ \ {e}]
    OBVIOUS
  <2>6. s \in Scan
    BY <2>4, <2>5
  <2>7. Read(scans, e) = [scans EXCEPT ![Len(scans)] = s]
    BY <2>5 DEF Read
  <2>8. Read(scans, e) \in Seq(Scan)
    BY <2>2, <2>3, <2>6, <2>7, ExceptSeq
  <2>9. operators' = operators
    BY <1>3 DEF ReadEntry
  <2>10. /\ scans' \in Seq(Scan)
         /\ library' = NoLibrary \/ library' \in [path : DOMAIN Libraries, next : Nat \ {0}]
    <3>1. CASE e \in SharedObjects
      BY <2>1, <2>8, <3>1, AddOperatorsTyped
    <3>2. CASE e \notin SharedObjects
      BY <2>1, <2>8, <3>2 DEF RegistryInv
    <3>3. QED
      BY <3>1, <3>2
  <2>11. QED
    BY <1>1, <2>9, <2>10
<1>4. CASE CloseDirectory
  <2>1. operators' = operators /\ library' = library
        /\ scans' = SubSeq(scans, 1, Len(scans) - 1)
    BY <1>4 DEF CloseDirectory
  <2>2. scans \in Seq(Scan) /\ scans # <<>>
    BY <1>4 DEF RegistryInv, CloseDirectory
  <2>3. scans' \in Seq(Scan)
    <3>1. Len(scans) \in Nat \ {0}
      BY <2>2, EmptySeq
    <3>2. \A i \in 1 .. Len(scans) - 1 : scans[i] \in Scan
      <4>1. \A i \in 1 .. Len(scans) - 1 : i \in 1 .. Len(scans)
        BY <3>1
      <4>2. QED
        BY <2>2, <4>1, ElementOfSeq
    <3>3. QED
      BY <2>1, <3>1, <3>2, SubSeqProperties
  <2>4. QED
    BY <1>1, <2>1, <2>3 DEF RegistryInv
<1>5. CASE EnterOperator
  <2>1. /\ library.next # 0 /\ library.next <= Len(Libraries[library.path])
        /\ Libraries[library.path][library.next] \notin DOMAIN operators
        /\ operators' = Entered(library)
        /\ library' = [library EXCEPT !.next = @ + 1]
        /\ scans' = scans
    BY <1>5 DEF EnterOperator, Scanning
  <2>2. library \in [path : DOMAIN Libraries, next : Nat \ {0}]
    BY <2>1 DEF RegistryInv, NoLibrary
  <2>3. /\ \A n \in DOMAIN operators : n \in DOMAIN operators' /\ operators'[n] = operators[n]
        /\ BuiltIns \subseteq DOMAIN operators'
        /\ Denotes'
    BY <2>1, <2>2, EnteredDenotes
  <2>4. library' \in [path : DOMAIN Libraries, next : Nat \ {0}]
    <3>1. PICK k : k = library.next + 1
      OBVIOUS
    <3>2. k \in Nat \ {0}
      BY <2>2, <3>1
    <3>3. library' = [library EXCEPT !.next = k]
      BY <2>1, <3>1
    <3>4. QED
      BY <2>2, <3>2, <3>3
  <2>5. QED
    BY <2>1, <2>3, <2>4 DEF RegistryInv, OperatorsKept
<1>6. CASE DuplicateName
  BY <1>1, <1>6 DEF DuplicateName, RegistryInv
<1>7. CASE LibraryEntered
  BY <1>1, <1>7 DEF LibraryEntered, RegistryInv
<1>8. CASE PathsSearched
  BY <1>1, <1>8 DEF PathsSearched, RegistryInv
<1>9. QED
  BY <1>2, <1>3, <1>4, <1>5, <1>6, <1>7, <1>8 DEF RegistryNext
-----------------------------------------------------------------------------
(***************************************************************************)
(* The options.                                                            *)
(***************************************************************************)

Reading == {"options", "paths"}

\* A step looks at no further option, or at one that asks for no converter.
LooksOn ==
  /\ commandLine' = commandLine /\ converter' = converter /\ options' = options
  /\ stage \in Reading /\ stage' \in Reading
  /\ at' = at \/ (at' = at + 1 /\ commandLine[at].kind \notin Rewriters)
  /\ stage' = "paths" => at' \in DOMAIN commandLine /\ commandLine[at'].kind = "operatorpath"

\* A step ends the loop over the options, or is taken behind it.
LooksNoMore ==
  /\ commandLine' = commandLine /\ converter' = converter /\ at' = at
  /\ stage' \notin Reading

LEMMA ConverterFound ==
  ASSUME OptionsInv, converter # NoConverter,
         commandLine' = commandLine, converter' = converter
  PROVE  \E i \in DOMAIN commandLine' :
           FirstRewriter(i)' /\ converter' = ConverterOf(commandLine'[i])
  BY DEF OptionsInv, FirstRewriter

LEMMA LooksOnKept ==
  ASSUME OptionsInv, LooksOn
  PROVE  OptionsInv'
<1>1. /\ commandLine' = commandLine /\ converter' = converter /\ options' = commandLine
      /\ at' \in Nat \ {0}
  BY DEF LooksOn, OptionsInv, Reading
<1>2. ASSUME converter = NoConverter, NEW j \in 1 .. at' - 1, j \in DOMAIN commandLine
      PROVE  commandLine[j].kind \notin Rewriters
  <2>1. j \in 1 .. at - 1 \/ (j = at /\ commandLine[at].kind \notin Rewriters)
    BY <1>2 DEF OptionsInv, LooksOn
  <2>2. QED
    BY <1>2, <2>1 DEF OptionsInv, LooksOn, Reading
<1>3. converter' # NoConverter =>
        \E i \in DOMAIN commandLine' :
          FirstRewriter(i)' /\ converter' = ConverterOf(commandLine'[i])
  BY <1>1, ConverterFound
<1>4. stage' = "paths" => at' \in DOMAIN commandLine' /\ commandLine'[at'].kind = "operatorpath"
  BY DEF LooksOn
<1>5. commandLine' \in Seq(CommandOptions)
  BY <1>1 DEF OptionsInv
<1>6. QED
  BY <1>1, <1>2, <1>3, <1>4, <1>5 DEF OptionsInv

LEMMA LooksNoMoreKept ==
  ASSUME OptionsInv, LooksNoMore
  PROVE  OptionsInv'
<1>1. converter' # NoConverter =>
        \E i \in DOMAIN commandLine' :
          FirstRewriter(i)' /\ converter' = ConverterOf(commandLine'[i])
  BY ConverterFound DEF LooksNoMore
<1>2. QED
  BY <1>1 DEF OptionsInv, LooksNoMore, Reading

LEMMA OptionsNextKept ==
  ASSUME OptionsInv, RegistryInv, OptionsNext
  PROVE  OptionsInv' /\ RegistryInv' /\ OperatorsKept /\ commandLine' = commandLine
<1>1. commandLine' = commandLine
  BY DEF OptionsNext, SkipOption, PathOption, CutPath, CutBeyondEnd, LastPath, InfoOption,
         DebugOption, RewriterOption, SecondRewriter, OptionsRead, Search, optionVars, Started
<1>2. RegistryInv' /\ OperatorsKept
  <2>1. CASE Search
    BY <2>1, RegistryNextKept DEF Search
  <2>2. CASE ~Search
    <3>1. operators' = operators /\ scans' = scans /\ library' = library
      BY <2>2 DEF OptionsNext, SkipOption, PathOption, CutPath, CutBeyondEnd, LastPath,
             InfoOption, DebugOption, RewriterOption, SecondRewriter, OptionsRead, registryVars,
             Started
    <3>2. QED
      BY <3>1 DEF RegistryInv, Denotes, OperatorsKept
  <2>3. QED
    BY <2>1, <2>2
<1>3. /\ at \in Nat \ {0} /\ at + 1 \in Nat \ {0}
      /\ stage \in {"options", "paths"} => options = commandLine
      /\ commandLine \in Seq(CommandOptions)
  BY DEF OptionsInv
<1>4. at <= Len(commandLine) => at \in DOMAIN commandLine
  BY <1>3, LenProperties
<1>5. "operatorpath" \notin Rewriters /\ "operatorinfo" \notin Rewriters
      /\ "operatordebug" \notin Rewriters /\ Rewriters \subseteq PluginKinds
  BY DEF Rewriters, PluginKinds
<1>6. CASE SkipOption
  <2>1. stage = "options" /\ stage' = stage /\ converter' = converter /\ options' = options
        /\ at' = at + 1 /\ options[at].kind \notin Rewriters
    BY <1>5, <1>6 DEF SkipOption, registryVars, Option
  <2>2. QED
    BY <1>1, <1>2, <1>3, <2>1, LooksOnKept DEF LooksOn, Reading
<1>7. CASE PathOption
  <2>1. stage = "options" /\ stage' = "paths" /\ converter' = converter /\ options' = options
        /\ at' = at /\ at <= Len(options) /\ options[at].kind = "operatorpath"
    BY <1>7 DEF PathOption, Option
  <2>2. at' \in DOMAIN commandLine /\ commandLine[at'].kind = "operatorpath"
    BY <1>3, <1>4, <2>1
  <2>3. LooksOn
    BY <1>1, <2>1, <2>2 DEF LooksOn, Reading
  <2>4. QED
    BY <1>1, <1>2, <2>3, LooksOnKept
<1>8. CASE CutPath
  <2>1. stage = "paths" /\ stage' = stage /\ converter' = converter /\ options' = options
        /\ at' = at
    BY <1>8 DEF CutPath, registryVars
  <2>2. at' \in DOMAIN commandLine /\ commandLine[at'].kind = "operatorpath"
    BY <2>1 DEF OptionsInv
  <2>3. LooksOn
    BY <1>1, <2>1, <2>2 DEF LooksOn, Reading
  <2>4. QED
    BY <1>1, <1>2, <2>3, LooksOnKept
<1>9. CASE LastPath
  <2>1. stage = "paths" /\ stage' = "options" /\ converter' = converter /\ options' = options
        /\ at' = at + 1
    BY <1>9 DEF LastPath, Taken
  <2>2. commandLine[at].kind \notin Rewriters
    BY <1>5, <2>1 DEF OptionsInv
  <2>3. QED
    BY <1>1, <1>2, <1>3, <2>1, <2>2, LooksOnKept DEF LooksOn, Reading
<1>10. CASE InfoOption \/ DebugOption
  <2>1. stage = "options" /\ stage' = stage /\ converter' = converter /\ options' = options
        /\ at' = at + 1 /\ options[at].kind \notin Rewriters
    BY <1>5, <1>10 DEF InfoOption, DebugOption, registryVars, Option, Taken
  <2>2. QED
    BY <1>1, <1>2, <1>3, <2>1, LooksOnKept DEF LooksOn, Reading
<1>11. CASE RewriterOption
  <2>1. stage = "options" /\ stage' = stage /\ options' = options /\ options = commandLine
        /\ at' = at + 1 /\ at <= Len(commandLine) /\ commandLine[at].kind \in Rewriters
        /\ converter = NoConverter /\ converter' = ConverterOf(commandLine[at])
    BY <1>3, <1>11 DEF RewriterOption, registryVars, Option, Taken
  <2>2. at \in DOMAIN commandLine
    BY <1>4, <2>1
  <2>3. ASSUME NEW j \in 1 .. at - 1
        PROVE  commandLine[j].kind \notin Rewriters
    <3>1. j \in DOMAIN commandLine
      BY <1>3, <2>1, LenProperties
    <3>2. QED
      BY <2>1, <3>1 DEF OptionsInv
  <2>4. FirstRewriter(at)
    BY <2>1, <2>2, <2>3 DEF FirstRewriter
  <2>5. converter' # NoConverter
    BY <2>1 DEF ConverterOf, NoConverter, Rewriters
  <2>6. \E i \in DOMAIN commandLine' : FirstRewriter(i)' /\ converter' = ConverterOf(commandLine'[i])
    BY <1>1, <2>1, <2>2, <2>4 DEF FirstRewriter
  <2>7. QED
    BY <1>1, <1>2, <1>3, <2>1, <2>5, <2>6 DEF OptionsInv
<1>12. CASE CutBeyondEnd \/ SecondRewriter \/ OptionsRead \/ Started
  <2>1. stage' \notin {"options", "paths"} /\ converter' = converter /\ at' = at
    BY <1>12 DEF CutBeyondEnd, SecondRewriter, OptionsRead, Started, optionVars
  <2>2. QED
    BY <1>1, <1>2, <2>1, LooksNoMoreKept DEF LooksNoMore, Reading
<1>13. CASE Search
  <2>1. stage' \notin {"options", "paths"} /\ converter' = converter /\ at' = at
    BY <1>13 DEF Search, optionVars, RegistryNext, SearchPath, ReadEntry, CloseDirectory,
               EnterOperator, DuplicateName, LibraryEntered, PathsSearched
  <2>2. QED
    BY <1>1, <1>2, <2>1, LooksNoMoreKept DEF LooksNoMore, Reading
<1>14. QED
  BY <1>6, <1>7, <1>8, <1>9, <1>10, <1>11, <1>12, <1>13 DEF OptionsNext
-----------------------------------------------------------------------------
(***************************************************************************)
(* What is left of a list.                                                 *)
(***************************************************************************)

\* f[k] is what is left of the first k elements, for k up to n.
Erases(f, list, places, n) ==
  f = [k \in 0 .. n |-> IF k = 0 THEN <<>>
                        ELSE IF k \in places THEN f[k - 1]
                        ELSE Append(f[k - 1], list[k])]

LEMMA ErasesAt ==
  ASSUME NEW f, NEW list, NEW places, NEW n, Erases(f, list, places, n), NEW k \in 0 .. n
  PROVE  f[k] = IF k = 0 THEN <<>>
                ELSE IF k \in places THEN f[k - 1]
                ELSE Append(f[k - 1], list[k])
<1> DEFINE e(j) == IF j = 0 THEN <<>>
                   ELSE IF j \in places THEN f[j - 1]
                   ELSE Append(f[j - 1], list[j])
<1>1. f = [j \in 0 .. n |-> e(j)]
  BY DEF Erases
<1> HIDE DEF e
<1>2. f[k] = e(k)
  BY <1>1
<1>3. QED
  BY <1>2 DEF e

\* There is such a function.
LEMMA ErasesExists ==
  ASSUME NEW list, NEW places, NEW n \in Nat
  PROVE  \E f : Erases(f, list, places, n)
<1> DEFINE S == {k \in Nat : ~ \E f : Erases(f, list, places, k)}
<1>1. ASSUME S # {}
      PROVE  FALSE
  <2>1. S \in SUBSET Nat
    OBVIOUS
  <2>2. PICK m \in S : \A q \in S : m <= q
    BY <1>1, <2>1, LeastOf
  <2>3. m \in Nat /\ ~ \E f : Erases(f, list, places, m)
    BY <2>2
  <2>4. CASE m = 0
    <3>1. PICK f : f = [k \in 0 .. 0 |-> <<>>]
      OBVIOUS
    <3>2. f = [k \in 0 .. 0 |-> IF k = 0 THEN <<>>
                               ELSE IF k \in places THEN f[k - 1]
                               ELSE Append(f[k - 1], list[k])]
      BY <3>1
    <3>3. QED
      BY <2>3, <2>4, <3>2 DEF Erases
  <2>5. CASE m # 0
    <3>1. m - 1 \in Nat /\ ~(m <= m - 1)
      BY <2>3, <2>5
    <3>2. m - 1 \notin S
      BY <2>2, <3>1
    <3>3. PICK g : Erases(g, list, places, m - 1)
      BY <3>1, <3>2
    <3>4. PICK f : f = [k \in 0 .. m |-> IF k = 0 THEN <<>>
                                        ELSE IF k \in places THEN g[k - 1]
                                        ELSE Append(g[k - 1], list[k])]
      OBVIOUS
    <3>5. \A k \in 0 .. m - 1 : f[k] = g[k]
      <4>1. SUFFICES ASSUME NEW k \in 0 .. m - 1
                     PROVE  f[k] = g[k]
        OBVIOUS
      <4>2. g[k] = IF k = 0 THEN <<>> ELSE IF k \in places THEN g[k - 1]
                   ELSE Append(g[k - 1], list[k])
        BY <3>3, ErasesAt
      <4>3. k \in 0 .. m
        BY <2>3
      <4>4. f[k] = IF k = 0 THEN <<>> ELSE IF k \in places THEN g[k - 1]
                   ELSE Append(g[k - 1], list[k])
        BY <3>4, <4>3
      <4>5. QED
        BY <4>2, <4>4
    <3>6. \A k \in 0 .. m : k # 0 => f[k - 1] = g[k - 1]
      <4>1. \A k \in 0 .. m : k # 0 => k - 1 \in 0 .. m - 1
        BY <2>3
      <4>2. QED
        BY <3>5, <4>1
    <3>7. f = [k \in 0 .. m |-> IF k = 0 THEN <<>>
                               ELSE IF k \in places THEN f[k - 1]
                               ELSE Append(f[k - 1], list[k])]
      BY <3>4, <3>6
    <3>8. QED
      BY <2>3, <3>7 DEF Erases
  <2>6. QED
    BY <2>4, <2>5
<1>2. QED
  BY <1>1

LEMMA ErasedIsLast ==
  ASSUME NEW list, Len(list) \in Nat, NEW places
  PROVE  \E f : Erases(f, list, places, Len(list)) /\ Erased(list, places) = f[Len(list)]
<1>1. PICK c : c = CHOOSE f : Erases(f, list, places, Len(list))
  OBVIOUS
<1>2. Erases(c, list, places, Len(list))
  BY <1>1, ErasesExists
<1>3. Erased(list, places) = c[Len(list)]
  BY <1>1 DEF Erased, Erases
<1>4. QED
  BY <1>2, <1>3

\* One more element is left.
LEMMA InOrderAppend ==
  ASSUME NEW S, NEW left \in Seq(S), NEW list, NEW n \in Nat \ {0}, NEW P \in SUBSET (1 .. n - 1),
         list[n] \in S, InOrder(left, list, P)
  PROVE  InOrder(Append(left, list[n]), list, P \cup {n})
<1> DEFINE more == Append(left, list[n])
           m == Len(left)
<1>1. PICK place \in [DOMAIN left -> P] :
        /\ \A k \in DOMAIN left : left[k] = list[place[k]]
        /\ \A j, k \in DOMAIN left : j < k => place[j] < place[k]
        /\ \A i \in P : \E k \in DOMAIN left : place[k] = i
  BY DEF InOrder
<1>2. /\ m \in Nat /\ DOMAIN left = 1 .. m /\ DOMAIN more = 1 .. m + 1
      /\ more[m + 1] = list[n] /\ \A k \in 1 .. m : more[k] = left[k]
  OBVIOUS
<1> HIDE DEF more, m
<1> DEFINE further == [k \in 1 .. m + 1 |-> IF k = m + 1 THEN n ELSE place[k]]
<1>3. /\ further[m + 1] = n
      /\ \A k \in 1 .. m : k \in DOMAIN left /\ k # m + 1 /\ further[k] = place[k]
                           /\ further[k] \in P /\ further[k] < n
  <2>1. m + 1 \in 1 .. m + 1 /\ \A k \in 1 .. m : k \in 1 .. m + 1 /\ k # m + 1
    BY <1>2
  <2>2. \A k \in 1 .. m : place[k] \in P
    BY <1>2
  <2>3. \A i \in P : i < n
    OBVIOUS
  <2>4. QED
    BY <1>2, <2>1, <2>2, <2>3
<1>4. \A k \in 1 .. m + 1 : k \in 1 .. m \/ k = m + 1
  BY <1>2
<1>5. further \in [DOMAIN more -> P \cup {n}]
  <2>1. \A k \in 1 .. m + 1 : further[k] \in P \cup {n}
    BY <1>3, <1>4
  <2>2. DOMAIN further = 1 .. m + 1
    OBVIOUS
  <2>3. QED
    BY <1>2, <2>1, <2>2
<1> HIDE DEF further
<1>6. \A k \in DOMAIN more : more[k] = list[further[k]]
  BY <1>1, <1>2, <1>3, <1>4
<1>7. ASSUME NEW j \in DOMAIN more, NEW k \in DOMAIN more, j < k
      PROVE  further[j] < further[k]
  <2>1. j \in 1 .. m
    BY <1>2, <1>7
  <2>2. CASE k = m + 1
    BY <1>3, <2>1, <2>2
  <2>3. CASE k \in 1 .. m
    BY <1>1, <1>3, <1>7, <2>1, <2>3
  <2>4. QED
    BY <1>2, <1>4, <2>2, <2>3
<1>8. ASSUME NEW i \in P \cup {n}
      PROVE  \E k \in DOMAIN more : further[k] = i
  <2>1. CASE i = n
    <3>1. m + 1 \in DOMAIN more
      BY <1>2
    <3>2. QED
      BY <1>3, <2>1, <3>1
  <2>2. CASE i \in P
    <3>1. PICK k \in DOMAIN left : place[k] = i
      BY <1>1, <2>2
    <3>2. k \in 1 .. m /\ k \in DOMAIN more
      BY <1>2
    <3>3. QED
      BY <1>3, <3>1, <3>2
  <2>3. QED
    BY <2>1, <2>2
<1>9. InOrder(more, list, P \cup {n})
  BY <1>5, <1>6, <1>7, <1>8 DEF InOrder
<1>10. QED
  BY <1>9 DEF more

\* Nothing else is erased, and the order is kept.
LEMMA ErasedInOrder ==
  ASSUME NEW S, NEW list \in Seq(S), NEW places
  PROVE  /\ Erased(list, places) \in Seq(S)
         /\ InOrder(Erased(list, places), list, DOMAIN list \ places)
<1>1. Len(list) \in Nat /\ DOMAIN list = 1 .. Len(list)
  BY LenProperties
<1>2. PICK f : Erases(f, list, places, Len(list)) /\ Erased(list, places) = f[Len(list)]
  BY <1>1, ErasedIsLast
<1> DEFINE Good(n) == f[n] \in Seq(S) /\ InOrder(f[n], list, (1 .. n) \ places)
           W == {n \in 0 .. Len(list) : ~Good(n)}
<1>3. ASSUME W # {}
      PROVE  FALSE
  <2>1. W \in SUBSET Nat
    BY <1>1
  <2>2. PICK n \in W : \A q \in W : n <= q
    BY <1>3, <2>1, LeastOf
  <2>3. n \in 0 .. Len(list) /\ ~Good(n)
    BY <2>2
  <2>4. f[n] = IF n = 0 THEN <<>> ELSE IF n \in places THEN f[n - 1]
               ELSE Append(f[n - 1], list[n])
    BY <1>2, <2>3, ErasesAt
  <2>5. CASE n = 0
    <3>1. f[n] = <<>> /\ (1 .. n) \ places = {}
      BY <2>4, <2>5
    <3>2. InOrder(<<>>, list, {})
      <4>1. PICK place : place = [k \in {} |-> 0]
        OBVIOUS
      <4>2. place \in [DOMAIN <<>> -> {}]
        BY <4>1
      <4>3. QED
        BY <4>2 DEF InOrder
    <3>3. f[n] \in Seq(S)
      BY <3>1
    <3>4. QED
      BY <2>3, <3>1, <3>2, <3>3
  <2>6. CASE n # 0
    <3>1. n \in Nat \ {0} /\ n - 1 \in 0 .. Len(list) /\ ~(n <= n - 1) /\ n \in DOMAIN list
      BY <1>1, <2>3, <2>6
    <3>2. Good(n - 1)
      BY <2>2, <3>1
    <3>3. list[n] \in S
      BY <3>1, ElementOfSeq, <1>1
    <3>4. (1 .. n - 1) \ places \in SUBSET (1 .. n - 1)
      OBVIOUS
    <3>5. CASE n \in places
      <4>1. (1 .. n) \ places = (1 .. n - 1) \ places
        BY <3>1, <3>5
      <4>2. f[n] = f[n - 1]
        BY <2>4, <2>6, <3>5
      <4>3. QED
        BY <2>3, <3>2, <4>1, <4>2
    <3>6. CASE n \notin places
      <4>1. (1 .. n) \ places = ((1 .. n - 1) \ places) \cup {n}
        BY <3>1, <3>6
      <4>2. f[n] = Append(f[n - 1], list[n])
        BY <2>4, <2>6, <3>6
      <4>3. f[n - 1] \in Seq(S)
        BY <3>2
      <4>4. InOrder(Append(f[n - 1], list[n]), list, ((1 .. n - 1) \ places) \cup {n})
        BY <3>1, <3>2, <3>3, <3>4, <4>3, InOrderAppend
      <4>5. f[n] \in Seq(S)
        BY <3>3, <4>2, <4>3, AppendProperties
      <4>6. QED
        BY <2>3, <4>1, <4>2, <4>4, <4>5
    <3>7. QED
      BY <3>5, <3>6
  <2>7. QED
    BY <2>5, <2>6
<1>4. Len(list) \in 0 .. Len(list)
  BY <1>1
<1>5. QED
  BY <1>1, <1>2, <1>3, <1>4
-----------------------------------------------------------------------------
(***************************************************************************)
(* What the options say.                                                   *)
(***************************************************************************)

\* Of the first n options, the last one with paths counts.
PathsObeyed(n) ==
  LET paths == {i \in 1 .. n : commandLine[i].kind = "operatorpath"} IN
  /\ paths = {} => searchpaths = <<>>
  /\ \A i \in paths : (\A j \in paths : j <= i) =>
       LET path == commandLine[i].value IN
       IF path = <<>> THEN searchpaths = <<>>
       ELSE Comma \notin ToSet(path) => searchpaths = <<path>>

\* A single path is not cut.
PathWhole ==
  LET path == commandLine[at].value IN
  Comma \notin ToSet(path) => searchpaths = <<>> /\ rest = path

\* Of the first n options, at most one asks for a converter.
ConverterObeyed(n) ==
  LET asking == {i \in 1 .. n : commandLine[i].kind \in Rewriters} IN
  /\ asking = {} => converter = NoConverter
  /\ \A i \in asking : asking = {i} /\ converter = ConverterOf(commandLine[i])

\* All options are read.
AllObeyed ==
  /\ InOrder(options, commandLine, DOMAIN commandLine \ OptionsOf(PluginKinds))
  /\ PathsObeyed(Len(commandLine))
  /\ ConverterObeyed(Len(commandLine))

Read_ == {"adding", "duplicate name", "searched", "not loaded", "no information", "started"}

ObeyedInv ==
  /\ at \in 1 .. Len(commandLine) + 1
  /\ found \subseteq 1 .. at - 1
  /\ stage \in Reading \cup Read_ \cup {"out of range", "multiple rewriters"}
  /\ stage \in Reading =>
       /\ found = {i \in 1 .. at - 1 : commandLine[i].kind \in PluginKinds}
       /\ ConverterObeyed(at - 1)
  /\ stage = "options" => PathsObeyed(at - 1)
  /\ stage = "paths" => PathWhole
  /\ stage \in Read_ => AllObeyed

LEMMA RewritersAreTaken ==
  /\ Rewriters \subseteq PluginKinds
  /\ {"operatorpath", "operatorinfo", "operatordebug"} \subseteq PluginKinds \ Rewriters
  BY DEF Rewriters, PluginKinds

\* An option that is about something else.
LEMMA ConverterStays ==
  ASSUME NEW n \in Nat \ {0}, commandLine[n].kind \notin Rewriters, ConverterObeyed(n - 1),
         commandLine' = commandLine, converter' = converter
  PROVE  ConverterObeyed(n)'
<1>1. {i \in 1 .. n : commandLine[i].kind \in Rewriters}
        = {i \in 1 .. n - 1 : commandLine[i].kind \in Rewriters}
  OBVIOUS
<1>2. QED
  BY <1>1 DEF ConverterObeyed

LEMMA PathsStay ==
  ASSUME NEW n \in Nat \ {0}, commandLine[n].kind # "operatorpath", PathsObeyed(n - 1),
         commandLine' = commandLine, searchpaths' = searchpaths
  PROVE  PathsObeyed(n)'
<1>1. {i \in 1 .. n : commandLine[i].kind = "operatorpath"}
        = {i \in 1 .. n - 1 : commandLine[i].kind = "operatorpath"}
  OBVIOUS
<1>2. QED
  BY <1>1 DEF PathsObeyed

\* The first option that asks for a converter gets it.
LEMMA ConverterFirst ==
  ASSUME NEW n \in Nat \ {0}, commandLine[n].kind \in Rewriters, ConverterObeyed(n - 1),
         converter = NoConverter,
         commandLine' = commandLine, converter' = ConverterOf(commandLine[n])
  PROVE  ConverterObeyed(n)'
<1> DEFINE before == {i \in 1 .. n - 1 : commandLine[i].kind \in Rewriters}
<1>1. ASSUME NEW i \in before
      PROVE  FALSE
  <2>1. commandLine[i].kind \in Rewriters /\ converter = ConverterOf(commandLine[i])
    BY DEF ConverterObeyed
  <2>2. converter.kind = commandLine[i].kind
    BY <2>1 DEF ConverterOf
  <2>3. QED
    BY <2>1, <2>2 DEF NoConverter, Rewriters
<1>2. {i \in 1 .. n : commandLine[i].kind \in Rewriters} = {n}
  BY <1>1
<1>3. QED
  BY <1>2 DEF ConverterObeyed

\* The last path of a list, or the only one, is put behind the others.
LEMMA PathsDone ==
  ASSUME NEW n \in Nat \ {0}, commandLine[n].kind = "operatorpath", at = n, PathWhole,
         commandLine' = commandLine,
         searchpaths' = IF rest = <<>> THEN searchpaths ELSE Append(searchpaths, rest)
  PROVE  PathsObeyed(n)'
<1> DEFINE paths == {i \in 1 .. n : commandLine[i].kind = "operatorpath"}
           path == commandLine[n].value
<1>1. n \in paths /\ \A i \in paths : i <= n
  OBVIOUS
<1>2. \A i \in paths : (\A j \in paths : j <= i) => i = n
  <2>1. \A i \in paths : i \in Nat
    OBVIOUS
  <2>2. QED
    BY <1>1, <2>1
<1>3. Comma \notin ToSet(path) => searchpaths' = IF path = <<>> THEN <<>> ELSE <<path>>
  BY DEF PathWhole
<1>4. path = <<>> => Comma \notin ToSet(path)
  BY DEF ToSet
<1>5. IF path = <<>> THEN searchpaths' = <<>>
      ELSE Comma \notin ToSet(path) => searchpaths' = <<path>>
  BY <1>3, <1>4
<1>6. QED
  BY <1>1, <1>2, <1>5 DEF PathsObeyed

\* The round of the loop for an option is over.
LEMMA RoundOver ==
  ASSUME OptionsInv, ObeyedInv, NEW n, at = n, n <= Len(commandLine), stage \in Reading,
         commandLine' = commandLine, at' = n + 1, stage' = "options",
         found' = IF commandLine[n].kind \in PluginKinds THEN found \cup {n} ELSE found,
         ConverterObeyed(n)', PathsObeyed(n)'
  PROVE  ObeyedInv'
<1>1. /\ n \in Nat \ {0} /\ Len(commandLine) \in Nat
      /\ found = {i \in 1 .. n - 1 : commandLine[i].kind \in PluginKinds}
  BY LenProperties DEF OptionsInv, ObeyedInv
<1>2. at' - 1 = n /\ at' \in 1 .. Len(commandLine') + 1
  BY <1>1
<1>3. found' = {i \in 1 .. n : commandLine[i].kind \in PluginKinds}
  <2>1. 1 .. n = (1 .. n - 1) \cup {n} /\ n \notin 1 .. n - 1
    BY <1>1
  <2>2. QED
    BY <1>1, <2>1
<1>4. found' \subseteq 1 .. n
  BY <1>3
<1>5. QED
  BY <1>2, <1>3, <1>4 DEF ObeyedInv, Reading, Read_

\* Nothing that the options are about changes.
LEMMA ObeyedStays ==
  ASSUME ObeyedInv, UNCHANGED <<commandLine, options, at, found, searchpaths, converter>>,
         \/ stage' \in {"out of range", "multiple rewriters"}
         \/ stage \in Read_ /\ stage' \in Read_
         \/ stage = "options" /\ stage' = "paths" /\ PathWhole'
         \/ stage' = stage /\ rest' = rest
  PROVE  ObeyedInv'
<1>1. /\ \A n : ConverterObeyed(n) => ConverterObeyed(n)'
      /\ \A n : PathsObeyed(n) => PathsObeyed(n)'
      /\ OptionsOf(PluginKinds)' = OptionsOf(PluginKinds)
  BY DEF ConverterObeyed, PathsObeyed, OptionsOf
<1>2. AllObeyed => AllObeyed'
  BY <1>1 DEF AllObeyed
<1>3. /\ ConverterObeyed(at - 1) => ConverterObeyed(at - 1)'
      /\ PathsObeyed(at - 1) => PathsObeyed(at - 1)'
  BY DEF ConverterObeyed, PathsObeyed
<1>4. rest' = rest => (PathWhole => PathWhole')
  BY DEF PathWhole
<1>5. /\ at' \in 1 .. Len(commandLine') + 1 /\ found' \subseteq 1 .. at' - 1
      /\ found' = found /\ at' = at /\ commandLine' = commandLine
  BY DEF ObeyedInv
<1>6. CASE stage' \in {"out of range", "multiple rewriters"}
  BY <1>5, <1>6 DEF ObeyedInv, Reading, Read_
<1>7. CASE stage \in Read_ /\ stage' \in Read_
  BY <1>2, <1>5, <1>7 DEF ObeyedInv, Reading, Read_
<1>8. CASE stage = "options" /\ stage' = "paths" /\ PathWhole'
  BY <1>3, <1>5, <1>8 DEF ObeyedInv, Reading, Read_
<1>9. CASE stage' = stage /\ rest' = rest
  BY <1>2, <1>3, <1>4, <1>5, <1>9 DEF ObeyedInv, Reading, Read_
<1>10. QED
  BY <1>6, <1>7, <1>8, <1>9

LEMMA OptionsNextObeys ==
  ASSUME OptionsInv, ObeyedInv, OptionsNext
  PROVE  ObeyedInv'
<1>1. PICK n : n = at
  OBVIOUS
<1>2. /\ n \in Nat \ {0} /\ Len(commandLine) \in Nat /\ commandLine \in Seq(CommandOptions)
      /\ stage \in Reading => options = commandLine
  BY <1>1, LenProperties DEF OptionsInv, Reading
<1>3. stage \in Reading => ConverterObeyed(n - 1)
  BY <1>1 DEF ObeyedInv
<1>4. stage = "options" => PathsObeyed(n - 1)
  BY <1>1 DEF ObeyedInv
<1>5. CASE SkipOption
  <2>1. /\ stage = "options" /\ stage' = stage /\ commandLine' = commandLine
        /\ converter' = converter /\ searchpaths' = searchpaths /\ found' = found
        /\ at' = n + 1 /\ n <= Len(commandLine) /\ commandLine[n].kind \notin PluginKinds
    BY <1>1, <1>2, <1>5 DEF SkipOption, registryVars, Option, Reading
  <2>2. commandLine[n].kind \notin Rewriters /\ commandLine[n].kind # "operatorpath"
    BY <2>1, RewritersAreTaken
  <2>3. ConverterObeyed(n)' /\ PathsObeyed(n)'
    BY <1>2, <1>3, <1>4, <2>1, <2>2, ConverterStays, PathsStay DEF Reading
  <2>4. QED
    BY <1>1, <2>1, <2>3, RoundOver DEF Reading
<1>6. CASE PathOption
  <2>1. /\ stage = "options" /\ stage' = "paths" /\ searchpaths' = <<>>
        /\ rest' = commandLine[n].value
        /\ UNCHANGED <<commandLine, options, at, found, converter>>
    BY <1>1, <1>2, <1>6 DEF PathOption, Option, Reading
  <2>2. PathWhole'
    BY <1>1, <2>1 DEF PathWhole
  <2>3. \A m : ConverterObeyed(m) => ConverterObeyed(m)'
    BY <2>1 DEF ConverterObeyed
  <2>4. ConverterObeyed(at - 1)'
    BY <1>1, <1>3, <2>1 DEF ConverterObeyed, Reading
  <2>5. QED
    BY <2>1, <2>2, <2>4 DEF ObeyedInv, Reading, Read_
<1>7. CASE CutPath
  <2>1. /\ stage = "paths" /\ stage' = stage /\ Comma \in ToSet(rest)
        /\ UNCHANGED <<commandLine, options, at, found, converter>>
    BY <1>7 DEF CutPath, registryVars
  <2>2. Comma \in ToSet(commandLine[at].value)
    BY <2>1 DEF ObeyedInv, PathWhole
  <2>3. PathWhole'
    BY <2>1, <2>2 DEF PathWhole
  <2>4. ConverterObeyed(at - 1)'
    BY <1>1, <1>3, <2>1 DEF ConverterObeyed, Reading
  <2>5. QED
    BY <2>1, <2>3, <2>4 DEF ObeyedInv, Reading, Read_
<1>8. CASE CutBeyondEnd \/ SecondRewriter
  <2>1. /\ UNCHANGED <<commandLine, options, at, found, searchpaths, converter>>
        /\ stage' \in {"out of range", "multiple rewriters"}
    BY <1>8 DEF CutBeyondEnd, SecondRewriter, optionVars
  <2>2. QED
    BY <2>1, ObeyedStays
<1>9. CASE LastPath
  <2>1. /\ stage = "paths" /\ stage' = "options" /\ at' = n + 1 /\ found' = found \cup {n}
        /\ searchpaths' = IF rest = <<>> THEN searchpaths ELSE Append(searchpaths, rest)
        /\ commandLine' = commandLine /\ converter' = converter
    BY <1>1, <1>9 DEF LastPath, Taken
  <2>2. n <= Len(commandLine) /\ commandLine[n].kind = "operatorpath"
    BY <1>1, <1>2, <2>1 DEF OptionsInv
  <2>3. commandLine[n].kind \in PluginKinds /\ commandLine[n].kind \notin Rewriters
    BY <2>2, RewritersAreTaken
  <2>4. PathsObeyed(n)'
    BY <1>1, <1>2, <2>1, <2>2, PathsDone DEF ObeyedInv
  <2>5. ConverterObeyed(n)'
    BY <1>2, <1>3, <2>1, <2>3, ConverterStays DEF Reading
  <2>6. QED
    BY <1>1, <2>1, <2>2, <2>3, <2>4, <2>5, RoundOver DEF Reading
<1>10. CASE InfoOption \/ DebugOption
  <2>1. /\ stage = "options" /\ stage' = stage /\ commandLine' = commandLine
        /\ converter' = converter /\ searchpaths' = searchpaths /\ found' = found \cup {n}
        /\ at' = n + 1 /\ n <= Len(commandLine)
        /\ commandLine[n].kind \in {"operatorinfo", "operatordebug"}
    BY <1>1, <1>2, <1>10 DEF InfoOption, DebugOption, registryVars, Option, Taken, Reading
  <2>2. /\ commandLine[n].kind \notin Rewriters /\ commandLine[n].kind # "operatorpath"
        /\ commandLine[n].kind \in PluginKinds
    BY <2>1, RewritersAreTaken
  <2>3. ConverterObeyed(n)' /\ PathsObeyed(n)'
    BY <1>2, <1>3, <1>4, <2>1, <2>2, ConverterStays, PathsStay DEF Reading
  <2>4. QED
    BY <1>1, <2>1, <2>2, <2>3, RoundOver DEF Reading
<1>11. CASE RewriterOption
  <2>1. /\ stage = "options" /\ stage' = stage /\ commandLine' = commandLine
        /\ converter = NoConverter /\ converter' = ConverterOf(commandLine[n])
        /\ searchpaths' = searchpaths /\ found' = found \cup {n}
        /\ at' = n + 1 /\ n <= Len(commandLine) /\ commandLine[n].kind \in Rewriters
    BY <1>1, <1>2, <1>11 DEF RewriterOption, registryVars, Option, Taken, Reading
  <2>2. commandLine[n].kind # "operatorpath" /\ commandLine[n].kind \in PluginKinds
    BY <2>1, RewritersAreTaken
  <2>3. ConverterObeyed(n)' /\ PathsObeyed(n)'
    BY <1>2, <1>3, <1>4, <2>1, <2>2, ConverterFirst, PathsStay DEF Reading
  <2>4. QED
    BY <1>1, <2>1, <2>2, <2>3, RoundOver DEF Reading
<1>12. CASE OptionsRead
  <2>1. /\ stage = "options" /\ stage' = "adding" /\ options' = Erased(commandLine, found)
        /\ n > Len(commandLine)
        /\ UNCHANGED <<commandLine, at, found, searchpaths, converter>>
    BY <1>1, <1>2, <1>12 DEF OptionsRead, Reading
  <2>2. n - 1 = Len(commandLine) /\ DOMAIN commandLine = 1 .. Len(commandLine)
    BY <1>1, <1>2, <2>1 DEF ObeyedInv
  <2>3. found = OptionsOf(PluginKinds) /\ OptionsOf(PluginKinds)' = OptionsOf(PluginKinds)
    BY <1>1, <2>1, <2>2 DEF ObeyedInv, Reading, OptionsOf
  <2>4. InOrder(options', commandLine, DOMAIN commandLine \ found)
    BY <1>2, <2>1, ErasedInOrder
  <2>5. PathsObeyed(Len(commandLine))' /\ ConverterObeyed(Len(commandLine))'
    BY <1>3, <1>4, <2>1, <2>2 DEF PathsObeyed, ConverterObeyed, Reading
  <2>6. AllObeyed'
    BY <2>1, <2>3, <2>4, <2>5 DEF AllObeyed
  <2>7. QED
    BY <2>1, <2>6 DEF ObeyedInv, Reading, Read_
<1>13. CASE Search \/ Started
  <2>1. /\ UNCHANGED <<commandLine, options, at, found, searchpaths, converter>>
        /\ stage \in Read_ /\ stage' \in Read_
    BY <1>13 DEF Search, Started, optionVars, RegistryNext, SearchPath, ReadEntry,
           CloseDirectory, EnterOperator, DuplicateName, LibraryEntered, PathsSearched, Read_
  <2>2. QED
    BY <2>1, ObeyedStays
<1>14. QED
  BY <1>5, <1>6, <1>7, <1>8, <1>9, <1>10, <1>11, <1>12, <1>13 DEF OptionsNext
-----------------------------------------------------------------------------
(***************************************************************************)
(* The lines that a command makes of others.                               *)
(***************************************************************************)
MadeOf(c, l) == Commands[c].output[l]

Made(c, lines) == FlattenSeq([i \in DOMAIN lines |-> MadeOf(c, lines[i])])

LEMMA RewrittenIsMade == \A lines : Rewritten(lines) = Made(command, lines)
  BY DEF Rewritten, Made, MadeOf, Child

LEMMA MadeSeq ==
  ASSUME NEW c \in DOMAIN Commands, NEW lines \in Seq(DOMAIN Commands[c].output)
  PROVE  /\ [i \in DOMAIN lines |-> MadeOf(c, lines[i])] \in Seq(Seq(Lines))
         /\ Len([i \in DOMAIN lines |-> MadeOf(c, lines[i])]) = Len(lines)
<1>1. \A l \in DOMAIN Commands[c].output : MadeOf(c, l) \in Seq(Lines)
  BY CommandsAssumption DEF MadeOf, Lines
<1>2. lines \in [1 .. Len(lines) -> DOMAIN Commands[c].output] /\ Len(lines) \in Nat
  BY LenProperties
<1>3. \A i \in 1 .. Len(lines) : MadeOf(c, lines[i]) \in Seq(Lines)
  BY <1>1, <1>2
<1>4. DOMAIN lines = 1 .. Len(lines)
  BY <1>2
<1>5. PICK s : s = [i \in 1 .. Len(lines) |-> MadeOf(c, lines[i])]
  OBVIOUS
<1>6. s \in [1 .. Len(lines) -> Seq(Lines)]
  BY <1>3, <1>5
<1>7. s \in Seq(Seq(Lines)) /\ Len(s) = Len(lines)
  BY <1>2, <1>6
<1>8. QED
  BY <1>4, <1>5, <1>7

LEMMA MadeType ==
  ASSUME NEW c \in DOMAIN Commands, NEW lines \in Seq(DOMAIN Commands[c].output)
  PROVE  Made(c, lines) \in Seq(Lines)
  BY MadeSeq, FlattenType DEF Made

LEMMA MadeEmpty ==
  ASSUME NEW c
  PROVE  Made(c, <<>>) = <<>>
<1>1. [i \in DOMAIN <<>> |-> MadeOf(c, <<>>[i])] = <<>>
  OBVIOUS
<1>2. QED
  BY <1>1, FlattenEmpty DEF Made

LEMMA MadeAppend ==
  ASSUME NEW c \in DOMAIN Commands, NEW lines \in Seq(DOMAIN Commands[c].output),
         NEW l \in DOMAIN Commands[c].output
  PROVE  Made(c, Append(lines, l)) = Made(c, lines) \o MadeOf(c, l)
<1>1. MadeOf(c, l) \in Seq(Lines)
  BY CommandsAssumption DEF MadeOf, Lines
<1>2. PICK s : s = [i \in DOMAIN lines |-> MadeOf(c, lines[i])]
  OBVIOUS
<1>3. s \in Seq(Seq(Lines)) /\ Len(s) = Len(lines)
  BY <1>2, MadeSeq
<1>4. PICK more : more = Append(lines, l)
  OBVIOUS
<1>5. /\ more \in Seq(DOMAIN Commands[c].output) /\ Len(more) = Len(lines) + 1
      /\ \A i \in 1 .. Len(lines) : more[i] = lines[i]
      /\ more[Len(lines) + 1] = l
      /\ Len(lines) \in Nat
  BY <1>4, AppendProperties, LenProperties
<1>6. PICK t : t = [i \in DOMAIN more |-> MadeOf(c, more[i])]
  OBVIOUS
<1>7. t \in Seq(Seq(Lines)) /\ Len(t) = Len(lines) + 1
  BY <1>5, <1>6, MadeSeq
<1>8. t = Append(s, MadeOf(c, l))
  <2>1. PICK u : u = Append(s, MadeOf(c, l))
    OBVIOUS
  <2>2. /\ u \in Seq(Seq(Lines)) /\ Len(u) = Len(lines) + 1
        /\ \A i \in 1 .. Len(lines) : u[i] = s[i]
        /\ u[Len(lines) + 1] = MadeOf(c, l)
    BY <1>1, <1>3, <2>1, AppendProperties
  <2>3. DOMAIN more = 1 .. Len(lines) + 1 /\ DOMAIN lines = 1 .. Len(lines)
    BY <1>5, LenProperties
  <2>4. ASSUME NEW i \in 1 .. Len(t)
        PROVE  t[i] = u[i]
    <3>1. CASE i = Len(lines) + 1
      BY <1>5, <1>6, <1>7, <2>2, <2>3, <3>1
    <3>2. CASE i # Len(lines) + 1
      <4>1. i \in 1 .. Len(lines) /\ i \in DOMAIN more
        BY <1>5, <1>7, <2>3, <3>2
      <4>2. t[i] = MadeOf(c, more[i]) /\ u[i] = MadeOf(c, lines[i])
        BY <1>2, <1>6, <2>2, <2>3, <4>1
      <4>3. QED
        BY <1>5, <4>1, <4>2
    <3>3. QED
      BY <3>1, <3>2
  <2>5. QED
    BY <1>7, <2>1, <2>2, <2>4, SeqEqual
<1>9. FlattenSeq(t) = FlattenSeq(s) \o MadeOf(c, l)
  BY <1>1, <1>3, <1>8, FlattenAppend
<1>10. QED
  BY <1>2, <1>4, <1>6, <1>9 DEF Made

LEMMA MadeCons ==
  ASSUME NEW c \in DOMAIN Commands, NEW lines \in Seq(DOMAIN Commands[c].output), lines # <<>>
  PROVE  Made(c, lines) = MadeOf(c, Head(lines)) \o Made(c, Tail(lines))
<1>1. PICK s : s = [i \in DOMAIN lines |-> MadeOf(c, lines[i])]
  OBVIOUS
<1>2. s \in Seq(Seq(Lines)) /\ Len(s) = Len(lines)
  BY <1>1, MadeSeq
<1>3. Len(lines) \in Nat \ {0} /\ DOMAIN lines = 1 .. Len(lines)
  BY EmptySeq, LenProperties
<1>4. s # <<>>
  BY <1>2, <1>3
<1>5. Head(s) = MadeOf(c, Head(lines))
  <2>1. Head(s) = s[1] /\ Head(lines) = lines[1] /\ 1 \in DOMAIN lines
    BY <1>2, <1>3, <1>4
  <2>2. QED
    BY <1>1, <2>1
<1>6. PICK r : r = Tail(lines)
  OBVIOUS
<1>7. /\ r \in Seq(DOMAIN Commands[c].output) /\ Len(r) = Len(lines) - 1
      /\ \A i \in 1 .. Len(r) : r[i] = lines[i + 1]
  BY <1>6, HeadTailProperties
<1>8. PICK t : t = [i \in DOMAIN r |-> MadeOf(c, r[i])]
  OBVIOUS
<1>9. t \in Seq(Seq(Lines)) /\ Len(t) = Len(lines) - 1
  BY <1>7, <1>8, MadeSeq
<1>10. t = Tail(s)
  <2>1. PICK u : u = Tail(s)
    OBVIOUS
  <2>2. /\ u \in Seq(Seq(Lines)) /\ Len(u) = Len(lines) - 1
        /\ \A i \in 1 .. Len(u) : u[i] = s[i + 1]
    BY <1>2, <1>4, <2>1, HeadTailProperties
  <2>3. ASSUME NEW i \in 1 .. Len(t)
        PROVE  t[i] = u[i]
    <3>1. i \in DOMAIN r /\ i \in 1 .. Len(r) /\ i \in 1 .. Len(u) /\ i + 1 \in DOMAIN lines
      BY <1>3, <1>7, <1>9, <2>2, LenProperties
    <3>2. t[i] = MadeOf(c, r[i]) /\ s[i + 1] = MadeOf(c, lines[i + 1])
      BY <1>1, <1>8, <3>1
    <3>3. QED
      BY <1>7, <2>2, <3>1, <3>2
  <2>4. QED
    BY <1>9, <2>1, <2>2, <2>3, SeqEqual
<1>11. FlattenSeq(s) = Head(s) \o FlattenSeq(Tail(s))
  BY <1>2, <1>4, FlattenCons
<1>12. QED
  BY <1>1, <1>5, <1>6, <1>8, <1>10, <1>11 DEF Made
-----------------------------------------------------------------------------
(***************************************************************************)
(* The rewriter. Lines are read `r', in the pipe `f' from the process, owed *)
(* by it `o', or will be made of those in the pipe `a' to the process and  *)
(* of those unsent `b'.                                                    *)
(***************************************************************************)
Total(r, f, o, a, b) == r \o f \o o \o a \o b

LEMMA SentOn ==
  ASSUME NEW r \in Seq(Lines), NEW f \in Seq(Lines), NEW o \in Seq(Lines), NEW a \in Seq(Lines),
         NEW b \in Seq(Lines), NEW x \in Seq(Lines)
  PROVE  Total(r, f, o, a \o x, b) = Total(r, f, o, a, x \o b)
<1>1. PICK p : p = r \o f \o o
  OBVIOUS
<1>2. p \in Seq(Lines)
  BY <1>1
<1>3. p \o (a \o x) = (p \o a) \o x
  BY <1>2
<1>4. (p \o a) \o x \o b = (p \o a) \o (x \o b)
  BY <1>2
<1>5. QED
  BY <1>1, <1>3, <1>4 DEF Total

LEMMA ReadOn ==
  ASSUME NEW r \in Seq(Lines), NEW f \in Seq(Lines), NEW o \in Seq(Lines), NEW a \in Seq(Lines),
         NEW b \in Seq(Lines), NEW x \in Seq(Lines)
  PROVE  Total(r, f, o \o x, a, b) = Total(r, f, o, x \o a, b)
<1>1. PICK p, q : p = r \o f /\ q = p \o o
  OBVIOUS
<1>2. p \in Seq(Lines) /\ q \in Seq(Lines)
  BY <1>1
<1>3. p \o (o \o x) = q \o x
  <2>1. p \o (o \o x) = (p \o o) \o x
    BY <1>2
  <2>2. QED
    BY <1>1, <2>1
<1>4. q \o x \o a = q \o (x \o a)
  BY <1>2
<1>5. QED
  BY <1>1, <1>3, <1>4 DEF Total

\* The first line of one sequence is put behind the other.
LEMMA MovedOver ==
  ASSUME NEW S, NEW p \in Seq(S), NEW q \in Seq(S), q # <<>>
  PROVE  Append(p, Head(q)) \o Tail(q) = p \o q
<1>1. PICK h, t : h = Head(q) /\ t = Tail(q)
  OBVIOUS
<1>2. h \in S /\ t \in Seq(S) /\ Len(t) = Len(q) - 1
      /\ \A i \in 1 .. Len(t) : t[i] = q[i + 1]
  BY <1>1, HeadTailProperties
<1>3. q[1] = h /\ Len(q) \in Nat \ {0}
  BY <1>1, EmptySeq
<1>4. PICK u, v : u = Append(p, h) \o t /\ v = p \o q
  OBVIOUS
<1>5. Append(p, h) \in Seq(S) /\ Len(Append(p, h)) = Len(p) + 1 /\ Len(p) \in Nat
  BY <1>2, AppendProperties, LenProperties
<1>6. u \in Seq(S) /\ v \in Seq(S) /\ Len(u) = Len(p) + Len(q) /\ Len(v) = Len(p) + Len(q)
  <2>1. v \in Seq(S) /\ Len(v) = Len(p) + Len(q)
    BY <1>4, ConcatProperties
  <2>2. u \in Seq(S) /\ Len(u) = Len(Append(p, h)) + Len(t)
    BY <1>2, <1>4, <1>5, ConcatProperties
  <2>3. QED
    BY <1>2, <1>3, <1>5, <2>1, <2>2
<1>7. ASSUME NEW i \in 1 .. Len(u)
      PROVE  u[i] = v[i]
  <2>1. u[i] = IF i <= Len(p) + 1 THEN Append(p, h)[i] ELSE t[i - (Len(p) + 1)]
    BY <1>2, <1>3, <1>4, <1>5, <1>6, ConcatProperties
  <2>2. v[i] = IF i <= Len(p) THEN p[i] ELSE q[i - Len(p)]
    BY <1>3, <1>4, <1>6, ConcatProperties
  <2>3. CASE i <= Len(p)
    <3>1. Append(p, h)[i] = p[i]
      BY <1>2, <1>5, <2>3, AppendProperties
    <3>2. QED
      BY <1>5, <2>1, <2>2, <2>3, <3>1
  <2>4. CASE i = Len(p) + 1
    <3>1. Append(p, h)[i] = h
      BY <1>2, <1>5, <2>4, AppendProperties
    <3>2. i - Len(p) = 1 /\ ~(i <= Len(p))
      BY <1>5, <2>4
    <3>3. QED
      BY <1>3, <1>5, <2>1, <2>2, <2>4, <3>1, <3>2
  <2>5. CASE i > Len(p) + 1
    <3>1. i - (Len(p) + 1) \in 1 .. Len(t) /\ i - (Len(p) + 1) + 1 = i - Len(p)
      BY <1>2, <1>3, <1>5, <1>6, <2>5
    <3>2. t[i - (Len(p) + 1)] = q[i - Len(p)]
      BY <1>2, <3>1
    <3>3. ~(i <= Len(p)) /\ ~(i <= Len(p) + 1)
      BY <1>5, <1>6, <2>5
    <3>4. QED
      BY <2>1, <2>2, <3>2, <3>3
  <2>6. QED
    BY <1>5, <1>6, <2>3, <2>4, <2>5
<1>8. u = v
  BY <1>6, <1>7, SeqEqual
<1>9. QED
  BY <1>1, <1>4, <1>8

LEMMA WrittenOn ==
  ASSUME NEW r \in Seq(Lines), NEW f \in Seq(Lines), NEW o \in Seq(Lines), o # <<>>,
         NEW a \in Seq(Lines), NEW b \in Seq(Lines)
  PROVE  Total(r, Append(f, Head(o)), Tail(o), a, b) = Total(r, f, o, a, b)
<1>1. PICK g, p : g = Append(f, Head(o)) /\ p = Tail(o)
  OBVIOUS
<1>2. g \in Seq(Lines) /\ p \in Seq(Lines)
  BY <1>1, HeadTailProperties, AppendProperties
<1>3. g \o p = f \o o
  BY <1>1, MovedOver
<1>4. (r \o g) \o p = r \o (g \o p)
  BY <1>2
<1>5. (r \o f) \o o = r \o (f \o o)
  OBVIOUS
<1>6. (r \o g) \o p = (r \o f) \o o
  BY <1>3, <1>4, <1>5
<1>7. QED
  BY <1>1, <1>6 DEF Total

LEMMA ReceivedOn ==
  ASSUME NEW r \in Seq(Lines), NEW f \in Seq(Lines), f # <<>>, NEW o, NEW a, NEW b
  PROVE  Total(Append(r, Head(f)), Tail(f), o, a, b) = Total(r, f, o, a, b)
  BY MovedOver DEF Total

\* NothingLost, for lines that are not idle.
LEMMA NothingLostMade ==
  ASSUME rewriting # "idle"
  PROVE  NothingLost(program) <=>
           Total(routput, fromChild, owed, Made(command, toChild), Made(command, unsent))
           = Made(command, program)
  BY RewrittenIsMade DEF NothingLost, Total

\* A step that sends, reads, writes or receives a line loses none.
LEMMA RewriterNextKept ==
  ASSUME RewriterInv, RewriterNext, program' = program, converter' = converter
  PROVE  Underway /\ Underway'
<1> DEFINE In == Understood
<1>1. Underway
  <2>1. CASE Idle
    BY <2>1 DEF Idle, RewriterNext, SendLine, EndOfFile, ChildReads, ChildWrites, ReceiveLine,
           CloseProcess, InputEnded
  <2>2. QED
    BY <2>1 DEF RewriterInv
<1>2. command' = command /\ rewriting # "idle"
  BY <1>1 DEF Underway, RewriterNext, SendLine, EndOfFile, ChildReads, ChildWrites, ReceiveLine,
         CloseProcess
<1>3. /\ command \in DOMAIN Commands
      /\ program \in Seq(In) /\ unsent \in Seq(In) /\ toChild \in Seq(In)
      /\ owed \in Seq(Lines) /\ fromChild \in Seq(Lines) /\ routput \in Seq(Lines)
  BY <1>1 DEF Underway
<1>4. PICK a, b, all : a = Made(command, toChild) /\ b = Made(command, unsent)
                       /\ all = Made(command, program)
  OBVIOUS
<1>5. a \in Seq(Lines) /\ b \in Seq(Lines)
  BY <1>3, <1>4, MadeType DEF Understood
<1>6. Total(routput, fromChild, owed, a, b) = all
  BY <1>1, <1>2, <1>4, NothingLostMade DEF Underway
<1>7. ASSUME unsent' \in Seq(In), toChild' \in Seq(In), owed' \in Seq(Lines),
             fromChild' \in Seq(Lines), routput' \in Seq(Lines),
             Total(routput', fromChild', owed', Made(command, toChild'), Made(command, unsent'))
             = all,
             rewriting' \in RewritingStages \ {"idle"},
             rewriting' # "sending" => unsent' = <<>>,
             rewriting' \notin {"sending", "receiving"} =>
               toChild' = <<>> /\ owed' = <<>> /\ fromChild' = <<>>,
             rewriting' \in {"printing", "printed"} => rewriting' = rewriting,
             rewriting' = "rewritten" => Commands[command].exit = 0
      PROVE  Underway'
  <2>1. NothingLost(program)'
    <3>1. Rewritten(toChild)' = Made(command, toChild')
          /\ Rewritten(unsent)' = Made(command, unsent')
          /\ Rewritten(program)' = all
      BY <1>2, <1>4 DEF Rewritten, Made, MadeOf, Child
    <3>2. QED
      BY <1>7, <3>1 DEF NothingLost, Total
  <2>2. Understood' = Understood
    BY <1>2 DEF Understood
  <2>3. QED
    BY <1>1, <1>2, <1>3, <1>7, <2>1, <2>2 DEF Underway
<1>8. CASE SendLine
  <2>1. /\ rewriting = "sending" /\ rewriting' = rewriting /\ unsent # <<>>
        /\ toChild' = Append(toChild, Head(unsent)) /\ unsent' = Tail(unsent)
        /\ fromChild' = fromChild /\ owed' = owed /\ routput' = routput
    BY <1>8 DEF SendLine
  <2>2. Head(unsent) \in In /\ unsent' \in Seq(In) /\ toChild' \in Seq(In)
    BY <1>3, <2>1, HeadTailProperties, AppendProperties
  <2>3. PICK x, c : x = MadeOf(command, Head(unsent)) /\ c = Made(command, unsent')
    OBVIOUS
  <2>4. x \in Seq(Lines)
    BY <1>3, <2>2, <2>3, CommandsAssumption DEF MadeOf, Lines, Understood
  <2>5. c \in Seq(Lines)
    BY <1>3, <2>2, <2>3, MadeType DEF Understood
  <2>6. Made(command, toChild') = a \o x
    BY <1>3, <1>4, <2>1, <2>2, <2>3, MadeAppend DEF Understood
  <2>7. b = x \o c
    BY <1>3, <1>4, <2>1, <2>3, MadeCons DEF Understood
  <2>8. Total(routput, fromChild, owed, a \o x, c) = Total(routput, fromChild, owed, a, x \o c)
    <3>1. /\ routput \in Seq(Lines) /\ fromChild \in Seq(Lines) /\ owed \in Seq(Lines)
          /\ a \in Seq(Lines) /\ c \in Seq(Lines) /\ x \in Seq(Lines)
      BY <1>3, <1>5, <2>4, <2>5
    <3>2. QED
      BY <3>1, SentOn
  <2>9. QED
    BY <1>1, <1>3, <1>6, <1>7, <2>1, <2>2, <2>3, <2>6, <2>7, <2>8 DEF RewritingStages
<1>9. CASE EndOfFile
  <2>1. /\ rewriting = "sending" /\ rewriting' = "receiving" /\ unsent = <<>>
        /\ toChild' = toChild /\ unsent' = unsent
        /\ fromChild' = fromChild /\ owed' = owed /\ routput' = routput
    BY <1>9 DEF EndOfFile
  <2>2. QED
    BY <1>1, <1>3, <1>4, <1>6, <1>7, <2>1 DEF RewritingStages
<1>10. CASE ChildReads
  <2>1. /\ rewriting' = rewriting /\ toChild # <<>> /\ toChild' = Tail(toChild)
        /\ owed' = owed \o MadeOf(command, Head(toChild))
        /\ unsent' = unsent /\ fromChild' = fromChild /\ routput' = routput
    BY <1>10 DEF ChildReads, MadeOf, Child
  <2>2. Head(toChild) \in In /\ toChild' \in Seq(In)
    BY <1>3, <2>1, HeadTailProperties
  <2>3. PICK x, c : x = MadeOf(command, Head(toChild)) /\ c = Made(command, toChild')
    OBVIOUS
  <2>4. x \in Seq(Lines)
    BY <1>3, <2>2, <2>3, CommandsAssumption DEF MadeOf, Lines, Understood
  <2>5. c \in Seq(Lines)
    BY <1>3, <2>2, <2>3, MadeType DEF Understood
  <2>6. a = x \o c
    BY <1>3, <1>4, <2>1, <2>3, MadeCons DEF Understood
  <2>7. Total(routput, fromChild, owed \o x, c, b) = Total(routput, fromChild, owed, x \o c, b)
    <3>1. /\ routput \in Seq(Lines) /\ fromChild \in Seq(Lines) /\ owed \in Seq(Lines)
          /\ c \in Seq(Lines) /\ b \in Seq(Lines) /\ x \in Seq(Lines)
      BY <1>3, <1>5, <2>4, <2>5
    <3>2. QED
      BY <3>1, ReadOn
  <2>8. owed' \in Seq(Lines) /\ owed' = owed \o x
    BY <1>3, <2>1, <2>3, <2>4
  <2>9. Total(routput', fromChild', owed', Made(command, toChild'), Made(command, unsent')) = all
    BY <1>4, <1>6, <2>1, <2>3, <2>6, <2>7, <2>8
  <2>10. rewriting \in {"sending", "receiving"}
    BY <1>1, <2>1 DEF Underway
  <2>11. QED
    BY <1>1, <1>3, <1>7, <2>1, <2>2, <2>8, <2>9, <2>10 DEF Underway, RewritingStages
<1>11. CASE ChildWrites
  <2>1. /\ rewriting' = rewriting /\ owed # <<>> /\ owed' = Tail(owed)
        /\ fromChild' = Append(fromChild, Head(owed))
        /\ unsent' = unsent /\ toChild' = toChild /\ routput' = routput
    BY <1>11 DEF ChildWrites
  <2>2. owed' \in Seq(Lines) /\ fromChild' \in Seq(Lines)
    BY <1>3, <2>1, HeadTailProperties, AppendProperties
  <2>3. Total(routput, Append(fromChild, Head(owed)), Tail(owed), a, b)
        = Total(routput, fromChild, owed, a, b)
    <3>1. /\ routput \in Seq(Lines) /\ fromChild \in Seq(Lines) /\ owed \in Seq(Lines)
          /\ a \in Seq(Lines) /\ b \in Seq(Lines) /\ owed # <<>>
      BY <1>3, <1>5, <2>1
    <3>2. QED
      BY <3>1, WrittenOn
  <2>4. rewriting \in {"sending", "receiving"}
    BY <1>1, <2>1 DEF Underway
  <2>5. QED
    BY <1>1, <1>3, <1>4, <1>6, <1>7, <2>1, <2>2, <2>3, <2>4 DEF Underway, RewritingStages
<1>12. CASE ReceiveLine
  <2>1. /\ rewriting = "receiving" /\ rewriting' = rewriting
        /\ fromChild # <<>> /\ fromChild' = Tail(fromChild)
        /\ routput' = Append(routput, Head(fromChild))
        /\ unsent' = unsent /\ toChild' = toChild /\ owed' = owed
    BY <1>12 DEF ReceiveLine
  <2>2. routput' \in Seq(Lines) /\ fromChild' \in Seq(Lines)
    BY <1>3, <2>1, HeadTailProperties, AppendProperties
  <2>3. Total(Append(routput, Head(fromChild)), Tail(fromChild), owed, a, b)
        = Total(routput, fromChild, owed, a, b)
    BY <1>3, <2>1, ReceivedOn
  <2>4. unsent = <<>>
    BY <1>1, <2>1 DEF Underway
  <2>5. QED
    BY <1>1, <1>3, <1>4, <1>6, <1>7, <2>1, <2>2, <2>3, <2>4 DEF RewritingStages
<1>13. CASE CloseProcess
  <2>1. /\ rewriting = "receiving" /\ rewriting' \in {"rewritten", "rewriter failed"}
        /\ rewriting' = "rewritten" => Commands[command].exit = 0
        /\ toChild = <<>> /\ owed = <<>> /\ fromChild = <<>>
        /\ unsent' = unsent /\ toChild' = toChild /\ owed' = owed
        /\ fromChild' = fromChild /\ routput' = routput
    BY <1>13 DEF CloseProcess, InputEnded, Child
  <2>2. unsent = <<>>
    BY <1>1, <2>1 DEF Underway
  <2>3. QED
    BY <1>1, <1>3, <1>4, <1>6, <1>7, <2>1, <2>2 DEF RewritingStages
<1>14. QED
  BY <1>8, <1>9, <1>10, <1>11, <1>12, <1>13 DEF RewriterNext

\* The wrapper around dlv works on a copy of what was read.
LEMMA DlvKept ==
  ASSUME Underway, DlvDone \/ DlvNext, program' = program, converter' = converter,
         converter.kind = "dlv"
  PROVE  Underway'
<1>1. /\ command' = command /\ unsent' = unsent /\ toChild' = toChild
      /\ fromChild' = fromChild /\ owed' = owed /\ routput' = routput
  BY DEF DlvDone, DlvNext, PrintAnswerSet, ConvertDiagnosis, SkipToAnswerSet, AllPrinted
<1>2. /\ rewriting \in {"rewritten", "printing"} /\ rewriting' \in {"printing", "printed"}
  BY DEF DlvDone, DlvNext, PrintAnswerSet, ConvertDiagnosis, SkipToAnswerSet, AllPrinted
<1>3. NothingLost(program)'
  <2>1. NothingLost(program)
    BY DEF Underway
  <2>2. /\ Rewritten(toChild)' = Rewritten(toChild) /\ Rewritten(unsent)' = Rewritten(unsent)
        /\ Rewritten(program)' = Rewritten(program)
    BY <1>1 DEF Rewritten, Child
  <2>3. QED
    BY <1>1, <1>2, <2>1, <2>2 DEF NothingLost
<1>4. Understood' = Understood
  BY <1>1 DEF Understood
<1>5. QED
  BY <1>1, <1>2, <1>3, <1>4 DEF Underway, RewritingStages

\* A process gets the program that dlvhex was given, and understands it.
LEMMA SpawnKept ==
  ASSUME SessionInv, session = "starting", converter.kind \in Processes,
         Spawn(converter.command, program), program' = program, converter' = converter
  PROVE  Underway'
<1>1. /\ commandLine \in DOMAIN Calls /\ program \in Calls[commandLine] /\ rewriting = "idle"
  BY DEF SessionInv, OutputInv
<1>2. Idle
  BY <1>1 DEF SessionInv, RewriterInv, Underway
<1>3. converter # NoConverter
  BY DEF Processes, NoConverter
<1>4. PICK i \in DOMAIN commandLine :
        FirstRewriter(i) /\ converter = ConverterOf(commandLine[i])
  BY <1>3 DEF SessionInv, OptionsInv
<1>5. commandLine[i].kind \in Processes
  BY <1>4 DEF ConverterOf
<1>6. /\ converter.command \in DOMAIN Commands
      /\ Calls[commandLine] \subseteq Seq(DOMAIN Commands[converter.command].output)
  BY <1>1, <1>4, <1>5, CallsAssumption DEF FirstRewriter, Processes
<1>7. /\ command' = converter.command /\ unsent' = program /\ rewriting' = "sending"
      /\ toChild' = <<>> /\ fromChild' = <<>> /\ owed' = <<>> /\ routput' = <<>>
  BY <1>2 DEF Spawn, Idle
<1>8. program \in Seq(DOMAIN Commands[converter.command].output)
  BY <1>1, <1>6
<1>9. NothingLost(program)'
  <2>1. Made(converter.command, program) \in Seq(Lines)
    BY <1>6, <1>8, MadeType
  <2>2. PICK all : all = Made(converter.command, program)
    OBVIOUS
  <2>3. Rewritten(toChild)' = <<>>
    BY <1>7, MadeEmpty DEF Rewritten, Made, MadeOf, Child
  <2>4. Rewritten(unsent)' = all /\ Rewritten(program)' = all
    BY <1>7, <2>2 DEF Rewritten, Made, MadeOf, Child
  <2>5. <<>> \o <<>> \o <<>> \o <<>> \o all = all
    BY <2>1, <2>2, ConcatEmptySeq
  <2>6. QED
    BY <1>7, <2>3, <2>4, <2>5 DEF NothingLost
<1>10. QED
  BY <1>6, <1>7, <1>8, <1>9 DEF Underway, Understood, RewritingStages
-----------------------------------------------------------------------------
(***************************************************************************)
(* Both programs.                                                          *)
(***************************************************************************)
LEMMA SessionInitKept ==
  ASSUME SessionInit
  PROVE  SessionInv
<1>1. PICK line : OptionsInit(line) /\ (line \in DOMAIN Calls \/ line = <<>>)
  BY DEF SessionInit
<1>2. RegistryInv
  <2>1. operators = [n \in BuiltIns |-> BuiltIn] /\ scans = <<>> /\ library = NoLibrary
    BY <1>1 DEF OptionsInit, RegistryInit
  <2>2. Denotes
    BY <2>1 DEF Denotes, BuiltIn
  <2>3. QED
    BY <2>1, <2>2 DEF RegistryInv
<1>3. OptionsInv
  <2>1. line \in Seq(CommandOptions)
    <3>1. \A l \in DOMAIN Calls : l \in Seq(CommandOptions)
      BY CallsAssumption DEF CommandOptions
    <3>2. QED
      BY <1>1, <3>1, EmptySeq
  <2>2. QED
    BY <1>1, <2>1 DEF OptionsInv, OptionsInit
<1>4. RewriterInv
  BY DEF SessionInit, RewriterInit, RewriterInv, Idle
<1>5. OutputInv
  BY DEF SessionInit, RewriterInit, OutputInv, OptionsInit
<1>6. QED
  BY <1>2, <1>3, <1>4, <1>5 DEF SessionInv

\* A step that leaves the plugin alone, and the converter's process.
LEMMA OthersKept ==
  ASSUME SessionInv, UNCHANGED pluginVars, UNCHANGED rewriterVars, program' = program
  PROVE  RegistryInv' /\ OptionsInv' /\ RewriterInv' /\ OperatorsKept
<1>1. RegistryInv' /\ OperatorsKept
  BY DEF SessionInv, RegistryInv, Denotes, OperatorsKept, pluginVars, registryVars
<1>2. OptionsInv'
  BY DEF SessionInv, OptionsInv, FirstRewriter, pluginVars, optionVars, registryVars
<1>3. RewriterInv'
  BY DEF SessionInv, RewriterInv, Idle, Underway, Understood, NothingLost, Rewritten, Child,
         pluginVars, optionVars, rewriterVars
<1>4. QED
  BY <1>1, <1>2, <1>3

LEMMA SessionNextKept ==
  ASSUME SessionInv, [SessionNext]_allVars
  PROVE  SessionInv' /\ OperatorsKept
<1>1. CASE UNCHANGED allVars
  <2>1. UNCHANGED pluginVars /\ UNCHANGED rewriterVars /\ UNCHANGED sessionVars
    BY <1>1 DEF allVars
  <2>2. OutputInv'
    BY <2>1 DEF SessionInv, OutputInv, sessionVars, rewriterVars, pluginVars, optionVars
  <2>3. program' = program
    BY <2>1 DEF sessionVars
  <2>4. QED
    BY <2>1, <2>2, <2>3, OthersKept DEF SessionInv
<1>2. CASE ProcessOptions
  <2>1. /\ session = "starting" /\ OptionsNext
        /\ UNCHANGED rewriterVars /\ UNCHANGED sessionVars
    BY <1>2 DEF ProcessOptions
  <2>2. OptionsInv' /\ RegistryInv' /\ OperatorsKept /\ commandLine' = commandLine
    BY <2>1, OptionsNextKept DEF SessionInv
  <2>3. rewriting = "idle" /\ Idle
    BY <2>1 DEF SessionInv, OutputInv, RewriterInv, Underway
  <2>4. RewriterInv'
    BY <2>1, <2>3 DEF RewriterInv, Idle, rewriterVars
  <2>5. OutputInv'
    BY <2>1, <2>2 DEF SessionInv, OutputInv, sessionVars, rewriterVars
  <2>6. QED
    BY <2>2, <2>4, <2>5 DEF SessionInv
<1>3. CASE ReadProgram
  <2>1. /\ UNCHANGED pluginVars /\ UNCHANGED rewriterVars /\ program' = program
        /\ session' = "running" /\ converter.kind = "none" /\ converter' = converter
    BY <1>3 DEF ReadProgram, pluginVars, optionVars
  <2>2. OutputInv'
    BY <2>1 DEF OutputInv
  <2>3. QED
    BY <2>1, <2>2, OthersKept DEF SessionInv
<1>4. CASE ConvertByProcess
  <2>1. /\ UNCHANGED pluginVars /\ program' = program /\ converter' = converter
        /\ session = "starting" /\ session' = "converting" /\ converter.kind \in Processes
        /\ Spawn(converter.command, program)
    BY <1>4 DEF ConvertByProcess, pluginVars, optionVars, Processes
  <2>2. Underway'
    BY <2>1, SpawnKept
  <2>3. RegistryInv' /\ OperatorsKept
    BY <2>1 DEF SessionInv, RegistryInv, Denotes, OperatorsKept, pluginVars, registryVars
  <2>4. OptionsInv'
    BY <2>1 DEF SessionInv, OptionsInv, FirstRewriter, pluginVars, optionVars, registryVars
  <2>5. OutputInv'
    BY <2>1 DEF OutputInv
  <2>6. QED
    BY <2>2, <2>3, <2>4, <2>5 DEF SessionInv, RewriterInv
<1>5. CASE Rewrite
  <2>1. /\ UNCHANGED pluginVars /\ UNCHANGED sessionVars /\ session = "converting" /\ RewriterNext
    BY <1>5 DEF Rewrite
  <2>2. program' = program /\ converter' = converter /\ session' = "converting"
    BY <2>1 DEF sessionVars, pluginVars, optionVars
  <2>3. Underway'
    BY <2>1, <2>2, RewriterNextKept DEF SessionInv
  <2>4. RegistryInv' /\ OperatorsKept
    BY <2>1 DEF SessionInv, RegistryInv, Denotes, OperatorsKept, pluginVars, registryVars
  <2>5. OptionsInv'
    BY <2>1 DEF SessionInv, OptionsInv, FirstRewriter, pluginVars, optionVars, registryVars
  <2>6. OutputInv'
    BY <2>2 DEF OutputInv
  <2>7. QED
    BY <2>3, <2>4, <2>5, <2>6 DEF SessionInv, RewriterInv
<1>6. CASE HandOn
  <2>1. /\ UNCHANGED pluginVars /\ UNCHANGED rewriterVars /\ program' = program
        /\ output' = Output("program", routput) /\ rewriting \in {"rewritten", "rewriter failed"}
        /\ session' = IF rewriting = "rewritten" THEN "running" ELSE "failed"
    BY <1>6 DEF HandOn
  <2>2. rewriting' = rewriting /\ routput' = routput /\ output'.text = routput
    BY <2>1 DEF rewriterVars, Output
  <2>3. OutputInv'
    BY <2>1, <2>2 DEF OutputInv
  <2>4. QED
    BY <2>1, <2>3, OthersKept DEF SessionInv
<1>7. CASE PrintAnswerSets
  <2>1. /\ UNCHANGED pluginVars /\ program' = program /\ session = "converting"
        /\ session' = session /\ converter.kind = "dlv" /\ (DlvDone \/ DlvNext)
    BY <1>7 DEF PrintAnswerSets
  <2>2. converter' = converter
    BY <2>1 DEF pluginVars, optionVars
  <2>3. rewriting # "idle"
    BY <2>1 DEF DlvDone, DlvNext, PrintAnswerSet, ConvertDiagnosis, SkipToAnswerSet, AllPrinted
  <2>4. Underway
    BY <2>3 DEF SessionInv, RewriterInv, Idle
  <2>5. Underway'
    BY <2>1, <2>2, <2>4, DlvKept
  <2>6. RegistryInv' /\ OperatorsKept
    BY <2>1 DEF SessionInv, RegistryInv, Denotes, OperatorsKept, pluginVars, registryVars
  <2>7. OptionsInv'
    BY <2>1 DEF SessionInv, OptionsInv, FirstRewriter, pluginVars, optionVars, registryVars
  <2>8. OutputInv'
    BY <2>1 DEF OutputInv
  <2>9. QED
    BY <2>5, <2>6, <2>7, <2>8 DEF SessionInv, RewriterInv
<1>8. CASE HandOnConstraint
  <2>1. /\ UNCHANGED pluginVars /\ UNCHANGED rewriterVars /\ program' = program
        /\ rewriting = "printed" /\ session' = "running"
    BY <1>8 DEF HandOnConstraint
  <2>2. converter.kind = "dlv" /\ converter' = converter
    BY <2>1 DEF SessionInv, RewriterInv, Idle, Underway, pluginVars, optionVars
  <2>3. OutputInv'
    BY <2>1, <2>2 DEF OutputInv
  <2>4. QED
    BY <2>1, <2>3, OthersKept DEF SessionInv
<1>9. CASE GeneratePlan
  <2>1. /\ UNCHANGED pluginVars /\ UNCHANGED rewriterVars /\ program' = program
        /\ converter.kind \in {"merging", "mergingdump"} /\ session' \in {"failed", "running"}
    BY <1>9 DEF GeneratePlan
  <2>2. converter' = converter
    BY <2>1 DEF pluginVars, optionVars
  <2>3. OutputInv'
    BY <2>1, <2>2 DEF OutputInv
  <2>4. QED
    BY <2>1, <2>3, OthersKept DEF SessionInv
<1>10. CASE DlvFails \/ ConvertPlan \/ ShowHelp \/ ParsingFailed \/ PrintParseTree
            \/ CompilePlan \/ Crash
  <2>1. /\ UNCHANGED pluginVars /\ UNCHANGED rewriterVars /\ program' = program
        /\ session' \in {"failed", "converting", "ended", "crashed"}
    BY <1>10 DEF DlvFails, ConvertPlan, ShowHelp, ParsingFailed, PrintParseTree, CompilePlan,
               Crash
  <2>2. OutputInv'
    BY <2>1 DEF OutputInv
  <2>3. QED
    BY <2>1, <2>2, OthersKept DEF SessionInv
<1>11. CASE ParsePlan \/ CreateParser \/ Parse
  <2>1. /\ UNCHANGED pluginVars /\ UNCHANGED rewriterVars /\ UNCHANGED sessionVars
        /\ session \in {"converting", "mpcompiler"}
    BY <1>11 DEF ParsePlan, CreateParser, Parse
  <2>2. program' = program /\ session' = session /\ rewriting' = rewriting
    BY <2>1 DEF sessionVars, rewriterVars
  <2>3. OutputInv'
    BY <2>1, <2>2 DEF SessionInv, OutputInv
  <2>4. QED
    BY <2>1, <2>2, <2>3, OthersKept DEF SessionInv
<1>12. QED
  BY <1>1, <1>2, <1>3, <1>4, <1>5, <1>6, <1>7, <1>8, <1>9, <1>10, <1>11 DEF SessionNext
-----------------------------------------------------------------------------
\* The inductive invariant of both programs.
THEOREM SessionInvariant == SessionSpec => []SessionInv
<1>1. SessionInit => SessionInv
  BY SessionInitKept
<1>2. SessionInv /\ [SessionNext]_allVars => SessionInv'
  BY SessionNextKept
<1>3. QED
  BY <1>1, <1>2, PTL DEF SessionSpec

\* Operators.cpp:198 and 205: whatever libraries are found, an operator's name
\* denotes a built-in operator or one that a library offers under that name.
THEOREM OperatorsDenote == SessionSpec => []Denotes
<1>1. SessionInv => Denotes
  BY DEF SessionInv, RegistryInv
<1>2. QED
  BY <1>1, SessionInvariant, PTL

\* Operators.cpp:198: an operator that is registered stays, and is the same,
\* however the search for others ends.
THEOREM OperatorsNeverReplaced == SessionSpec => [][OperatorsKept]_allVars
<1>1. SessionInv /\ [SessionNext]_allVars => [OperatorsKept]_allVars
  BY SessionNextKept
<1>2. QED
  BY <1>1, SessionInvariant, PTL DEF SessionSpec

\* MergingPlugin.cpp:60: for every command, program and size of the pipes, no
\* line of the program is lost, doubled or overtaken on its way through the
\* process, all of the output is handed on, and dlvhex goes on only with that of
\* a process that has not failed.
THEOREM EveryLineDelivered == SessionSpec => []LinesDelivered
<1>1. ASSUME SessionInv
      PROVE  LinesDelivered
  <2>1. NothingLost(program)
    BY <1>1 DEF SessionInv, RewriterInv, Idle, Underway, NothingLost
  <2>2. ASSUME session = "running", converter.kind = "inputrewriter"
        PROVE  output.text = Rewritten(program) /\ Commands[converter.command].exit = 0
    <3>1. rewriting = "rewritten" /\ output.text = routput
      BY <1>1, <2>2 DEF SessionInv, OutputInv
    <3>2. Underway
      BY <1>1, <3>1 DEF SessionInv, RewriterInv, Idle
    <3>3. /\ unsent = <<>> /\ toChild = <<>> /\ owed = <<>> /\ fromChild = <<>>
          /\ routput \in Seq(Lines)
      BY <3>1, <3>2 DEF Underway
    <3>4. Rewritten(<<>>) = <<>>
      BY RewrittenIsMade, MadeEmpty
    <3>5. routput \o <<>> \o <<>> \o <<>> \o <<>> = routput
      BY <3>3, ConcatEmptySeq
    <3>6. routput = Rewritten(program)
      BY <2>1, <3>1, <3>3, <3>4, <3>5 DEF NothingLost
    <3>7. Commands[converter.command].exit = 0
      BY <3>1, <3>2 DEF Underway
    <3>8. QED
      BY <3>1, <3>6, <3>7
  <2>3. QED
    BY <2>1, <2>2 DEF LinesDelivered
<1>2. QED
  BY <1>1, SessionInvariant, PTL
-----------------------------------------------------------------------------
(***************************************************************************)
(* The pipes and the files.                                                *)
(***************************************************************************)
ParsingStages == {"idle", "string", "spirit", "bison", "parsed", "crashed"}

Sessions ==
  {"starting", "converting", "running", "failed", "crashed", "mpcompiler", "ended"}

PipesInv == Len(toChild) <= PipeSize /\ Len(fromChild) <= PipeSize

\* The arguments of mpcompiler, and the file that it reads without any.
FileNames == STRING \cup {"--"}

\* Files are counted when they have been named.
FilesInv ==
  /\ arguments \in Seq(FileNames)
  /\ inputFiles \in Seq(FileNames)
  /\ fileCounter \in 0 .. Len(inputFiles)
  /\ parsing = "idle" => fileCounter = 0
  /\ parsing \in ParsingStages

LEMMA PipesKept ==
  ASSUME PipesInv, RewriterInv, RewriterNext
  PROVE  PipesInv'
<1>1. PICK S, T : toChild \in Seq(S) /\ fromChild \in Seq(T)
  <2>1. CASE Idle
    <3>1. <<>> \in Seq(Lines)
      BY EmptySeq
    <3>2. QED
      BY <2>1, <3>1 DEF Idle
  <2>2. CASE Underway
    BY <2>2 DEF Underway
  <2>3. QED
    BY <2>1, <2>2 DEF RewriterInv
<1>2. PipeSize \in Nat \ {0} /\ Len(toChild) \in Nat /\ Len(fromChild) \in Nat
  BY <1>1, PipeSizeAssumption, LenProperties
<1>3. CASE SendLine
  <2>1. toChild' = Append(toChild, Head(unsent)) /\ Len(toChild) < PipeSize
        /\ fromChild' = fromChild
    BY <1>3 DEF SendLine
  <2>2. PICK l : l = Head(unsent)
    OBVIOUS
  <2>3. toChild \in Seq(S \cup {l})
    BY <1>1
  <2>4. Len(Append(toChild, l)) = Len(toChild) + 1
    BY <2>3
  <2>5. QED
    BY <1>2, <2>1, <2>2, <2>4 DEF PipesInv
<1>4. CASE ChildReads
  <2>1. toChild' = Tail(toChild) /\ toChild # <<>> /\ fromChild' = fromChild
    BY <1>4 DEF ChildReads
  <2>2. Len(Tail(toChild)) = Len(toChild) - 1
    BY <1>1, <2>1
  <2>3. QED
    BY <1>2, <2>1, <2>2 DEF PipesInv
<1>5. CASE ChildWrites
  <2>1. fromChild' = Append(fromChild, Head(owed)) /\ Len(fromChild) < PipeSize
        /\ toChild' = toChild
    BY <1>5 DEF ChildWrites
  <2>2. PICK l : l = Head(owed)
    OBVIOUS
  <2>3. fromChild \in Seq(T \cup {l})
    BY <1>1
  <2>4. Len(Append(fromChild, l)) = Len(fromChild) + 1
    BY <2>3
  <2>5. QED
    BY <1>2, <2>1, <2>2, <2>4 DEF PipesInv
<1>6. CASE ReceiveLine
  <2>1. fromChild' = Tail(fromChild) /\ fromChild # <<>> /\ toChild' = toChild
    BY <1>6 DEF ReceiveLine
  <2>2. Len(Tail(fromChild)) = Len(fromChild) - 1
    BY <1>1, <2>1
  <2>3. QED
    BY <1>2, <2>1, <2>2 DEF PipesInv
<1>7. CASE EndOfFile \/ CloseProcess
  <2>1. toChild' = toChild /\ fromChild' = fromChild
    BY <1>7 DEF EndOfFile, CloseProcess
  <2>2. QED
    BY <2>1 DEF PipesInv
<1>8. QED
  BY <1>3, <1>4, <1>5, <1>6, <1>7 DEF RewriterNext

LEMMA InputFilesTyped ==
  ASSUME arguments \in Seq(FileNames)
  PROVE  InputFiles \in Seq(FileNames)
<1>1. Erased(arguments, {k \in DOMAIN arguments : IsFlag(arguments[k])}) \in Seq(FileNames)
  BY ErasedInOrder
<1>2. <<"--">> \in Seq(FileNames)
  <2>1. "--" \in FileNames
    BY DEF FileNames
  <2>2. QED
    BY <2>1
<1>3. QED
  BY <1>1, <1>2 DEF InputFiles

LEMMA StartParsingKept ==
  ASSUME FilesInv, arguments' = arguments, NEW files \in Seq(FileNames), NEW how,
         how \in ParsingStages \ {"idle"}, StartParsing(files, how)
  PROVE  FilesInv'
<1>1. fileCounter' = 0 /\ inputFiles' = files /\ parsing' = how
  BY DEF StartParsing, FilesInv
<1>2. 0 \in 0 .. Len(files)
  BY LenProperties
<1>3. QED
  BY <1>1, <1>2 DEF FilesInv

LEMMA ParserNextKept ==
  ASSUME FilesInv, arguments' = arguments, ParserNext \/ SpiritString(program)
  PROVE  FilesInv'
<1>1. /\ parsing # "idle" /\ parsing' \in ParsingStages \ {"idle"} /\ inputFiles' = inputFiles
  BY DEF ParserNext, OpenFails, SpiritFile, SpiritDone, BisonFile, BisonDone, BisonCrashes,
         SpiritString, ParsingStages
<1>2. fileCounter' \in 0 .. Len(inputFiles)
  <2>1. CASE SpiritFile \/ BisonFile
    <3>1. fileCounter < Len(inputFiles) /\ fileCounter' = fileCounter + 1
      BY <2>1 DEF SpiritFile, BisonFile, Reads
    <3>2. fileCounter \in Nat /\ Len(inputFiles) \in Nat
      BY LenProperties DEF FilesInv
    <3>3. QED
      BY <3>1, <3>2
  <2>2. CASE ~(SpiritFile \/ BisonFile)
    <3>1. fileCounter' = fileCounter
      BY <2>2 DEF ParserNext, OpenFails, SpiritDone, BisonDone, BisonCrashes, SpiritString
    <3>2. QED
      BY <3>1 DEF FilesInv
  <2>3. QED
    BY <2>1, <2>2
<1>3. QED
  BY <1>1, <1>2 DEF FilesInv

LEMMA OthersObey ==
  ASSUME ObeyedInv, UNCHANGED pluginVars
  PROVE  ObeyedInv'
  BY ObeyedStays DEF pluginVars, optionVars, registryVars

TypesInv == SessionInv /\ ObeyedInv /\ PipesInv /\ FilesInv /\ session \in Sessions

LEMMA TypesInitial ==
  ASSUME SessionInit
  PROVE  TypesInv
<1>1. SessionInv
  BY SessionInitKept
<1>2. ObeyedInv
  <2>1. PICK line : OptionsInit(line)
    BY DEF SessionInit
  <2>2. /\ commandLine = line /\ at = 1 /\ found = {} /\ searchpaths = <<>>
        /\ converter = NoConverter /\ stage = "options"
    BY <2>1 DEF OptionsInit
  <2>3. Len(commandLine) \in Nat
    BY <1>1, LenProperties DEF SessionInv, OptionsInv
  <2>4. 1 .. at - 1 = {}
    BY <2>2
  <2>5. PathsObeyed(at - 1) /\ ConverterObeyed(at - 1)
    BY <2>2, <2>4 DEF PathsObeyed, ConverterObeyed
  <2>6. at \in 1 .. Len(commandLine) + 1
    BY <2>2, <2>3
  <2>7. found = {i \in 1 .. at - 1 : commandLine[i].kind \in PluginKinds}
    BY <2>2, <2>4
  <2>8. QED
    BY <2>2, <2>4, <2>5, <2>6, <2>7 DEF ObeyedInv, Reading, Read_
<1>3. PipesInv
  BY PipeSizeAssumption DEF SessionInit, RewriterInit, PipesInv
<1>4. FilesInv
  <2>1. arguments \in Seq(FileNames)
    <3>1. <<>> \in Seq(FileNames) /\ (arguments = <<>> \/ arguments \in Seq(STRING))
      BY EmptySeq, ArgumentsAssumption DEF SessionInit
    <3>2. STRING \subseteq FileNames
      BY DEF FileNames
    <3>3. Seq(STRING) \subseteq Seq(FileNames)
      BY <3>2, SeqMonotonic
    <3>4. QED
      BY <3>1, <3>3
  <2>2. <<>> \in Seq(FileNames) /\ 0 \in 0 .. Len(<<>>)
    OBVIOUS
  <2>3. QED
    BY <2>1, <2>2 DEF SessionInit, ParserInit, FilesInv, ParsingStages
<1>5. session \in Sessions
  BY DEF SessionInit, Sessions
<1>6. QED
  BY <1>1, <1>2, <1>3, <1>4, <1>5 DEF TypesInv

LEMMA TypesKept ==
  ASSUME TypesInv, [SessionNext]_allVars
  PROVE  TypesInv'
<1>1. SessionInv'
  BY SessionNextKept DEF TypesInv
<1>2. ObeyedInv'
  <2>1. CASE ProcessOptions
    BY <2>1, OptionsNextObeys DEF ProcessOptions, TypesInv, SessionInv
  <2>2. CASE ~ProcessOptions
    <3>1. UNCHANGED pluginVars
      BY <2>2 DEF allVars, SessionNext, ReadProgram, ConvertByProcess, Rewrite, HandOn, DlvFails,
             PrintAnswerSets, HandOnConstraint, ConvertPlan, ParsePlan, GeneratePlan, ShowHelp,
             CreateParser, Parse, ParsingFailed, PrintParseTree, CompilePlan, Crash
    <3>2. QED
      BY <3>1, OthersObey DEF TypesInv
  <2>3. QED
    BY <2>1, <2>2
<1>3. PipesInv'
  <2>1. CASE Rewrite
    BY <2>1, PipesKept DEF Rewrite, TypesInv, SessionInv
  <2>2. CASE ~Rewrite
    <3>1. toChild' = toChild /\ fromChild' = fromChild
      BY <2>2 DEF allVars, SessionNext, ProcessOptions, ReadProgram, ConvertByProcess, Spawn,
             HandOn, DlvFails, PrintAnswerSets, HandOnConstraint, ConvertPlan, ParsePlan,
             GeneratePlan, ShowHelp, CreateParser, Parse, ParsingFailed, PrintParseTree,
             CompilePlan, Crash, rewriterVars, DlvDone, DlvNext, PrintAnswerSet, ConvertDiagnosis,
             SkipToAnswerSet, AllPrinted
    <3>2. QED
      BY <3>1 DEF TypesInv, PipesInv
  <2>3. QED
    BY <2>1, <2>2
<1>4. FilesInv'
  <2>1. arguments' = arguments
    BY DEF allVars, SessionNext, ProcessOptions, ReadProgram, ConvertByProcess, Rewrite, HandOn,
           DlvFails, PrintAnswerSets, HandOnConstraint, ConvertPlan, ParsePlan, GeneratePlan,
           ShowHelp, CreateParser, Parse, ParsingFailed, PrintParseTree, CompilePlan, Crash,
           sessionVars
  <2>2. CASE ConvertPlan
    <3>1. StartParsing(<<>>, "string")
      BY <2>2 DEF ConvertPlan
    <3>2. <<>> \in Seq(FileNames) /\ "string" \in ParsingStages \ {"idle"}
      BY DEF ParsingStages
    <3>3. QED
      BY <2>1, <3>1, <3>2, StartParsingKept DEF TypesInv
  <2>3. CASE CreateParser
    <3>1. PICK how \in {"bison", "spirit"} : StartParsing(InputFiles, how)
      BY <2>3 DEF CreateParser
    <3>2. InputFiles \in Seq(FileNames)
      BY InputFilesTyped DEF TypesInv, FilesInv
    <3>3. how \in ParsingStages \ {"idle"}
      BY DEF ParsingStages
    <3>4. QED
      BY <2>1, <3>1, <3>2, <3>3, StartParsingKept DEF TypesInv
  <2>4. CASE ParsePlan \/ Parse
    <3>1. ParserNext \/ SpiritString(program)
      BY <2>4 DEF ParsePlan, Parse
    <3>2. QED
      BY <2>1, <3>1, ParserNextKept DEF TypesInv
  <2>5. CASE ~(ConvertPlan \/ CreateParser \/ ParsePlan \/ Parse)
    <3>1. UNCHANGED parserVars
      BY <2>5 DEF allVars, SessionNext, ProcessOptions, ReadProgram, ConvertByProcess, Rewrite,
             HandOn, DlvFails, PrintAnswerSets, HandOnConstraint, GeneratePlan, ShowHelp,
             ParsingFailed, PrintParseTree, CompilePlan, Crash
    <3>2. QED
      BY <2>1, <3>1 DEF TypesInv, FilesInv, parserVars
  <2>6. QED
    BY <2>2, <2>3, <2>4, <2>5
<1>5. session' \in Sessions
  <2>1. session \in Sessions
    BY DEF TypesInv
  <2>2. QED
    BY <2>1 DEF allVars, SessionNext, ProcessOptions, ReadProgram, ConvertByProcess, Rewrite,
           HandOn, DlvFails, PrintAnswerSets, HandOnConstraint, ConvertPlan, ParsePlan,
           GeneratePlan, ShowHelp, CreateParser, Parse, ParsingFailed, PrintParseTree,
           CompilePlan, Crash, sessionVars, Sessions
<1>6. QED
  BY <1>1, <1>2, <1>3, <1>4, <1>5 DEF TypesInv

LEMMA TypesInvariant == SessionSpec => []TypesInv
<1>1. SessionInit => TypesInv
  BY TypesInitial
<1>2. TypesInv /\ [SessionNext]_allVars => TypesInv'
  BY TypesKept
<1>3. QED
  BY <1>1, <1>2, PTL DEF SessionSpec

\* The types of all variables of the plugin, the rewriter, the parsers and the
\* programs; the pipes never hold more than they can (MergingPlugin.cpp:60), and
\* getNextInputFile (IParser.cpp:19) never counts beyond the files named.
THEOREM SessionTyped == SessionSpec => []SessionTypeOK
<1>1. ASSUME TypesInv
      PROVE  SessionTypeOK
  <2>1. \A k \in DOMAIN scans : scans[k].path \in Directories /\ scans[k].left \subseteq Paths
    <3>1. scans \in Seq([path : Directories, left : SUBSET Paths])
      BY <1>1 DEF TypesInv, SessionInv, RegistryInv
    <3>2. \A k \in DOMAIN scans : scans[k] \in [path : Directories, left : SUBSET Paths]
      BY <3>1, ElementOfSeq, LenProperties
    <3>3. QED
      BY <3>2
  <2>2. BuiltIns \subseteq DOMAIN operators /\ (Scanning \/ library.path \in DOMAIN Libraries)
    BY <1>1 DEF TypesInv, SessionInv, RegistryInv, Scanning, NoLibrary
  <2>3. rewriting \in RewritingStages
    BY <1>1 DEF TypesInv, SessionInv, RewriterInv, Idle, Underway, RewritingStages
  <2>4. at \in 1 .. Len(commandLine) + 1 /\ found \subseteq 1 .. at - 1
        /\ stage \in Reading \cup Read_ \cup {"out of range", "multiple rewriters"}
    BY <1>1 DEF TypesInv, ObeyedInv
  <2>5. QED
    BY <1>1, <2>1, <2>2, <2>3, <2>4
    DEF TypesInv, PipesInv, FilesInv, ParsingStages, Sessions, Reading, Read_, SessionTypeOK
<1>2. QED
  BY <1>1, TypesInvariant, PTL

\* MergingPlugin.cpp:269 and 292: whatever options there are, the plugin takes its
\* own and leaves the others in their order, the last option with paths counts, and
\* the converter is that of the only option that asks for one.
THEOREM OptionsTaken == SessionSpec => []OptionsObeyed
<1>1. ASSUME TypesInv, stage \in {"adding", "searched", "started"}
      PROVE  OptionsObeyed
  <2>1. AllObeyed
    BY <1>1 DEF TypesInv, ObeyedInv, Read_
  <2>2. DOMAIN commandLine = 1 .. Len(commandLine)
    BY <1>1, LenProperties DEF TypesInv, SessionInv, OptionsInv
  <2>3. /\ OptionsOf({"operatorpath"})
             = {i \in 1 .. Len(commandLine) : commandLine[i].kind = "operatorpath"}
        /\ OptionsOf(Rewriters) = {i \in 1 .. Len(commandLine) : commandLine[i].kind \in Rewriters}
    BY <2>2 DEF OptionsOf
  <2>4. QED
    BY <2>1, <2>3 DEF AllObeyed, PathsObeyed, ConverterObeyed, OptionsObeyed
<1>2. TypesInv => OptionsObeyed
  BY <1>1 DEF OptionsObeyed
<1>3. QED
  BY <1>2, TypesInvariant, PTL
-----------------------------------------------------------------------------
(***************************************************************************)
(* Texts: where a token stands in them, and the parts that a pair of       *)
(* tokens cuts them into.                                                  *)
(***************************************************************************)
Without(text, token) == \A i \in 1 .. Len(text) : text[i] # token

\* A text that ends with the first closing token.
Encloses(text, open, close) ==
  /\ Len(text) > 1 /\ text[1] = open /\ text[Len(text)] = close
  /\ \A i \in 1 .. Len(text) - 1 : text[i] # close

\* Where a token stands first, and where alone.
First(text, token, q) == text[q] = token /\ \A j \in 1 .. q - 1 : text[j] # token

Sole(text, token, p) ==
  text[p] = token /\ \A j \in 1 .. Len(text) : text[j] = token => j = p

\* The parts that a pair cuts a text into.
CutBy(S, text, open, close, p, q) ==
  \E a, s, c \in Seq(S) :
    /\ s = SubSeq(text, p, q) /\ text = a \o (s \o c)
    /\ Encloses(s, open, close) /\ Without(a, open) /\ Without(c, open)

\* The same of a line.
HasPair(S, text, open, close, marker, newline, p) ==
  \E q \in 1 .. Len(text) : \E a, s, c \in Seq(S) :
    /\ text \o <<newline>> = a \o (s \o c) /\ c # <<>> /\ Encloses(s, open, close)
    /\ Without(a, open) /\ Without(a, marker) /\ Without(c, open) /\ Without(c, marker)
    /\ s = SubSeq(text, p, q) /\ First(text, open, p) /\ First(text, close, q)

OpensOnce(text, open, close) ==
  \A i, j \in DOMAIN text : text[i] = open /\ text[j] \in {open, close} => i <= j

Closes(text, open, close) ==
  \A i \in DOMAIN text : text[i] = open => \E j \in i + 1 .. Len(text) : text[j] = close

LEMMA OnlyPair ==
  ASSUME NEW S, NEW text \in Seq(S), NEW open, NEW close, open # close,
         NEW p \in 1 .. Len(text), text[p] = open,
         OpensOnce(text, open, close), Closes(text, open, close)
  PROVE  Sole(text, open, p) /\ \E q \in p + 1 .. Len(text) : First(text, close, q)
<1>1. Len(text) \in Nat /\ DOMAIN text = 1 .. Len(text) /\ p \in Nat
  BY LenProperties
<1>2. \E j \in p + 1 .. Len(text) : text[j] = close
  BY <1>1 DEF Closes
<1> DEFINE Q == {j \in p + 1 .. Len(text) : text[j] = close}
<1>3. PICK q \in Q : \A j \in Q : q <= j
  <2>1. Q \in SUBSET Nat
    BY <1>1
  <2>2. Q # {}
    BY <1>2
  <2>3. QED
    BY <2>1, <2>2, LeastOf
<1>4. q \in p + 1 .. Len(text) /\ text[q] = close
  OBVIOUS
<1>5. ASSUME NEW j \in 1 .. q - 1, text[j] = close
      PROVE  FALSE
  <2>1. j \in 1 .. Len(text) /\ q \in Nat
    BY <1>1, <1>4
  <2>2. p <= j
    BY <1>1, <1>5, <2>1 DEF OpensOnce
  <2>3. p # j
    BY <1>5
  <2>4. j \in p + 1 .. Len(text)
    BY <1>1, <2>1, <2>2, <2>3
  <2>5. j \in Q
    BY <1>5, <2>4
  <2>6. q <= j
    BY <1>3, <2>5
  <2>7. QED
    BY <2>1, <2>6
<1> HIDE DEF Q
<1>6. ASSUME NEW j \in 1 .. Len(text), text[j] = open
      PROVE  j = p
  <2>1. p <= j /\ j <= p
    BY <1>1, <1>6 DEF OpensOnce
  <2>2. QED
    BY <1>1, <2>1
<1>7. QED
  BY <1>4, <1>5, <1>6 DEF Sole, First

\* The parts that the pair cuts a text into.
LEMMA PairCuts ==
  ASSUME NEW S, NEW text \in Seq(S), NEW open, NEW close, open # close,
         NEW p \in 1 .. Len(text), Sole(text, open, p),
         NEW q \in p + 1 .. Len(text), First(text, close, q)
  PROVE  CutBy(S, text, open, close, p, q)
<1>0. PICK a, s, c : /\ a = SubSeq(text, 1, p - 1) /\ s = SubSeq(text, p, q)
                     /\ c = SubSeq(text, q + 1, Len(text))
  OBVIOUS
<1>1. PICK n : n = Len(text)
  OBVIOUS
<1>2. n \in Nat /\ p \in Nat /\ q \in Nat /\ 1 <= p /\ p < q /\ q <= n
  BY <1>1
<1>3. a \in Seq(S) /\ Len(a) = p - 1 /\ \A i \in 1 .. p - 1 : a[i] = text[i]
  <2>1. 1 \in 1 .. n + 1 /\ p - 1 \in 1 - 1 .. n /\ p - 1 - 1 + 1 = p - 1
        /\ \A i \in 1 .. p - 1 : 1 + i - 1 = i
    BY <1>2
  <2>2. /\ SubSeq(text, 1, p - 1) \in Seq(S) /\ Len(SubSeq(text, 1, p - 1)) = p - 1 - 1 + 1
        /\ \A i \in 1 .. p - 1 - 1 + 1 : SubSeq(text, 1, p - 1)[i] = text[1 + i - 1]
    BY <1>1, <2>1, Slice, Zenon
  <2>3. QED
    BY <1>0, <2>1, <2>2, Zenon
<1>4. /\ s \in Seq(S) /\ Len(s) = q - p + 1
      /\ \A i \in 1 .. q - p + 1 : s[i] = text[p + i - 1]
  <2>1. p \in 1 .. n + 1 /\ q \in p - 1 .. n
    BY <1>2
  <2>2. /\ SubSeq(text, p, q) \in Seq(S) /\ Len(SubSeq(text, p, q)) = q - p + 1
        /\ \A i \in 1 .. q - p + 1 : SubSeq(text, p, q)[i] = text[p + i - 1]
    BY <1>1, <2>1, Slice, Zenon
  <2>3. QED
    BY <1>0, <2>2, Zenon
<1>5. /\ c \in Seq(S) /\ Len(c) = n - q
      /\ \A i \in 1 .. n - q : c[i] = text[q + i]
  <2>1. PICK m : m = q + 1
    OBVIOUS
  <2>2. /\ m \in 1 .. n + 1 /\ n \in m - 1 .. n /\ n - m + 1 = n - q
        /\ \A i \in 1 .. n - q : m + i - 1 = q + i
    BY <1>2, <2>1
  <2>3. m \in 1 .. Len(text) + 1 /\ Len(text) \in m - 1 .. Len(text) /\ c = SubSeq(text, m, Len(text))
    BY <1>0, <1>1, <2>1, <2>2, Zenon
  <2>4. /\ SubSeq(text, m, Len(text)) \in Seq(S)
        /\ Len(SubSeq(text, m, Len(text))) = Len(text) - m + 1
        /\ \A i \in 1 .. Len(text) - m + 1 : SubSeq(text, m, Len(text))[i] = text[m + i - 1]
    BY <2>3, Slice, Zenon
  <2>5. QED
    BY <1>1, <2>2, <2>3, <2>4, Zenon
<1>6. text = a \o (s \o c)
  <2>1. p \in 1 .. Len(text) /\ q \in p .. Len(text)
    BY <1>1, <1>2
  <2>2. QED
    BY <1>0, <2>1, ThreeParts, Zenon
<1>7. Encloses(s, open, close)
  <2>1. /\ Len(s) > 1 /\ 1 \in 1 .. q - p + 1 /\ q - p + 1 \in 1 .. q - p + 1
        /\ p + 1 - 1 = p /\ p + (q - p + 1) - 1 = q
    BY <1>2, <1>4
  <2>2. s[1] = open /\ s[Len(s)] = close
    BY <1>4, <2>1, Zenon DEF First, Sole
  <2>3. ASSUME NEW i \in 1 .. Len(s) - 1
        PROVE  s[i] # close
    <3>1. p + i - 1 \in 1 .. q - 1 /\ i \in 1 .. q - p + 1
      BY <1>2, <1>4
    <3>2. QED
      BY <1>4, <3>1, Zenon DEF First
  <2>4. QED
    BY <2>1, <2>2, <2>3 DEF Encloses
<1>8. Without(a, open)
  <2>1. SUFFICES ASSUME NEW i \in 1 .. Len(a)
                 PROVE  a[i] # open
    BY DEF Without
  <2>2. i \in 1 .. p - 1 /\ i \in 1 .. n /\ i # p
    BY <1>2, <1>3
  <2>3. QED
    BY <1>1, <1>3, <2>2, Zenon DEF Sole
<1>9. Without(c, open)
  <2>1. SUFFICES ASSUME NEW i \in 1 .. Len(c)
                 PROVE  c[i] # open
    BY DEF Without
  <2>2. i \in 1 .. n - q /\ q + i \in 1 .. n /\ q + i # p
    BY <1>2, <1>5
  <2>3. QED
    BY <1>1, <1>5, <2>2, Zenon DEF Sole
<1>10. QED
  BY <1>0, <1>3, <1>4, <1>5, <1>6, <1>7, <1>8, <1>9 DEF CutBy

\* Parts inherit what does not occur.
LEMMA WithoutParts ==
  ASSUME NEW S, NEW a \in Seq(S), NEW b \in Seq(S), NEW token
  PROVE  Without(a \o b, token) <=> Without(a, token) /\ Without(b, token)
<1>1. PICK d : d = a \o b
  OBVIOUS
<1>2. Len(a) \in Nat /\ Len(b) \in Nat /\ Len(d) = Len(a) + Len(b)
      /\ (\A i \in 1 .. Len(a) : d[i] = a[i]) /\ (\A i \in 1 .. Len(b) : d[Len(a) + i] = b[i])
  BY <1>1
<1>3. ASSUME Without(d, token)
      PROVE  Without(a, token) /\ Without(b, token)
  <2>1. \A i \in 1 .. Len(a) : i \in 1 .. Len(d)
    BY <1>2
  <2>2. \A i \in 1 .. Len(b) : Len(a) + i \in 1 .. Len(d)
    BY <1>2
  <2>3. QED
    BY <1>2, <1>3, <2>1, <2>2, Zenon DEF Without
<1>4. ASSUME Without(a, token), Without(b, token), NEW i \in 1 .. Len(d)
      PROVE  d[i] # token
  <2>1. CASE i \in 1 .. Len(a)
    BY <1>2, <1>4, <2>1 DEF Without
  <2>2. CASE i \notin 1 .. Len(a)
    <3>1. PICK k : k = i - Len(a)
      OBVIOUS
    <3>2. k \in 1 .. Len(b) /\ Len(a) + k = i
      BY <1>2, <2>2, <3>1
    <3>3. QED
      BY <1>2, <1>4, <3>2, Zenon DEF Without
  <2>3. QED
    BY <2>1, <2>2
<1>5. QED
  BY <1>1, <1>3, <1>4, Zenon DEF Without

\* A line with one pair, and the parts around it.
LEMMA LineParts ==
  ASSUME NEW S, NEW text \in Seq(S), NEW open, NEW close, NEW marker, NEW newline \in S,
         open # close, newline # open, newline # marker,
         NEW p \in 1 .. Len(text), text[p] = open,
         OpensOnce(text, open, close), Closes(text, open, close), Without(text, marker)
  PROVE  HasPair(S, text, open, close, marker, newline, p)
<1>1. PICK q \in p + 1 .. Len(text) : Sole(text, open, p) /\ First(text, close, q)
  BY OnlyPair
<1>0. CutBy(S, text, open, close, p, q)
  BY <1>1, PairCuts, Zenon
<1>2. PICK a, s, b \in Seq(S) :
           /\ s = SubSeq(text, p, q) /\ text = a \o (s \o b)
           /\ Encloses(s, open, close) /\ Without(a, open) /\ Without(b, open)
  BY <1>0, Zenon DEF CutBy
<1>3. /\ a \in Seq(S) /\ s \in Seq(S) /\ b \in Seq(S) /\ text = a \o (s \o b)
      /\ Encloses(s, open, close) /\ Without(a, open) /\ Without(b, open)
  BY <1>2, Zenon
<1>4. Without(a, marker) /\ Without(b, marker)
  <2>1. s \o b \in Seq(S)
    BY <1>3
  <2>2. Without(a, marker) /\ Without(s \o b, marker)
    BY <1>3, <2>1, WithoutParts, Zenon
  <2>3. QED
    BY <1>3, <2>2, WithoutParts, Zenon
<1>5. PICK n, c : n = <<newline>> /\ c = b \o n
  OBVIOUS
<1>6. n \in Seq(S) /\ Len(n) = 1 /\ n[1] = newline
  BY <1>5
<1>7. c \in Seq(S) /\ c # <<>>
  <2>1. c \in Seq(S) /\ Len(c) = Len(b) + 1
    BY <1>3, <1>5, <1>6
  <2>2. QED
    BY <1>3, <2>1
<1>8. Without(n, open) /\ Without(n, marker)
  <2>1. \A i \in 1 .. Len(n) : n[i] = newline
    BY <1>6
  <2>2. QED
    BY <2>1 DEF Without
<1>9. Without(c, open) /\ Without(c, marker)
  BY <1>3, <1>4, <1>5, <1>6, <1>8, WithoutParts, Zenon
<1>10. text \o n = a \o (s \o c)
  <2>1. Regroups(a, s, b, n)
    BY <1>3, <1>6, Regrouping, Zenon
  <2>2. QED
    BY <1>3, <1>5, <2>1, Zenon DEF Regroups
<1>11. q \in 1 .. Len(text) /\ \A j \in 1 .. p - 1 : j \in 1 .. Len(text) /\ j # p
  <2>1. Len(text) \in Nat
    OBVIOUS
  <2>2. QED
    BY <1>1, <2>1
<1>12. First(text, open, p)
  BY <1>1, <1>11, Zenon DEF Sole, First
<1>13. QED
  BY <1>1, <1>2, <1>3, <1>4, <1>5, <1>7, <1>9, <1>10, <1>11, <1>12, Zenon DEF HasPair

LEMMA Bracketed ==
  ASSUME NEW S, NEW t \in Seq(S), NEW open \in S, NEW close \in S, open # close, Without(t, close)
  PROVE  /\ <<open>> \o t \o <<close>> \in Seq(S)
         /\ Encloses(<<open>> \o t \o <<close>>, open, close)
<1>1. PICK s : s = <<open>> \o t \o <<close>>
  OBVIOUS
<1>2. Len(t) \in Nat
  OBVIOUS
<1>3. /\ s \in Seq(S) /\ Len(s) = Len(t) + 2 /\ s[1] = open /\ s[Len(t) + 2] = close
      /\ \A i \in 1 .. Len(t) : s[i + 1] = t[i]
  BY <1>1
<1>4. ASSUME NEW i \in 1 .. Len(s) - 1
      PROVE  s[i] # close
  <2>1. CASE i = 1
    BY <1>3, <2>1
  <2>2. CASE i # 1
    <3>1. PICK k : k = i - 1
      OBVIOUS
    <3>2. k \in 1 .. Len(t) /\ k + 1 = i
      BY <1>2, <1>3, <2>2, <3>1
    <3>3. QED
      BY <1>3, <3>2 DEF Without
  <2>3. QED
    BY <2>1, <2>2
<1>5. Len(s) > 1 /\ s[Len(s)] = close
  BY <1>2, <1>3
<1>6. QED
  BY <1>1, <1>3, <1>4, <1>5 DEF Encloses

LEMMA FirstInFront ==
  ASSUME NEW S, NEW a \in Seq(S), NEW b \in Seq(S), a # <<>>, NEW token, First(a, token, Len(a)),
         NEW text, text = a \o b
  PROVE  Len(a) \in 1 .. Len(text) /\ First(text, token, Len(a))
<1>1. PICK n : n = Len(a)
  OBVIOUS
<1>2. /\ n \in Nat \ {0} /\ n \in 1 .. n /\ n <= Len(text) /\ Len(text) \in Nat
      /\ \A i \in 1 .. n : text[i] = a[i]
  BY <1>1
<1>3. \A i \in 1 .. n - 1 : i \in 1 .. n
  BY <1>2
<1>4. QED
  BY <1>1, <1>2, <1>3 DEF First

LEMMA EnclosedText ==
  ASSUME NEW S, NEW text \in Seq(S), NEW open, NEW close, Encloses(text, open, close)
  PROVE  /\ text # <<>> /\ text[1] = open /\ Len(text) \in 1 .. Len(text) /\ Len(text) # 0
         /\ First(text, close, Len(text))
<1>1. Len(text) \in Nat /\ Len(text) > 1
  BY DEF Encloses
<1>2. QED
  BY <1>1 DEF Encloses, First

LEMMA WithoutNothing ==
  ASSUME NEW token
  PROVE  Without(<<>>, token)
  BY DEF Without

LEMMA NotWithoutFirst ==
  ASSUME NEW S, NEW text \in Seq(S), text # <<>>
  PROVE  1 \in 1 .. Len(text) /\ ~Without(text, text[1])
<1>1. 1 \in 1 .. Len(text)
  BY EmptySeq, LenProperties
<1>2. QED
  BY <1>1 DEF Without
-----------------------------------------------------------------------------
(***************************************************************************)
(* The wrapper around dlv. What it has still to read is what is left of a  *)
(* line that has reported, `front', and the lines behind it; in between,   *)
(* the answer set that it prints next stands in front of them.             *)
(***************************************************************************)
Signs == (STRING \ {"newline"}) \cup {"{", "}", "newline", "Diagnosis: "}

\* Lines as dlv writes them.
Proper == {l \in Lines : ReportsOnce(l)}

LineTexts == [l \in Lines |-> Append(Tokens[l], "newline")]
LineReports == [l \in Lines |-> Report(l)]

\* The text of lines, and the answer sets that they report.
Written(lines) == Mapped(LineTexts, lines)
Reports(lines) == Mapped(LineReports, lines)

\* Neither an answer set nor a diagnosis begins in a text.
Silent(text) == Without(text, "{") /\ Without(text, "Diagnosis: ")

NoDiagnosis(lines) == \A i \in 1 .. Len(lines) : ~IsDiagnosis(lines[i])

DiagnosesFirst(lines) ==
  \A i \in 1 .. Len(lines) : IsDiagnosis(lines[i]) => \A j \in 1 .. i : IsDiagnosis(lines[j])

IsSet(set) == set \in Seq(Signs) /\ Encloses(set, "{", "}")

LEMMA TokensTyped ==
  ASSUME NEW l \in Lines
  PROVE  /\ Tokens[l] \in Seq(Signs) /\ Without(Tokens[l], "newline")
         /\ LineTexts[l] = Tokens[l] \o <<"newline">> /\ LineTexts[l] \in Seq(Signs)
         /\ <<"newline">> \in Seq(Signs)
<1>1. Tokens[l] \in Seq(STRING \ {"newline"})
  BY TokensAssumption DEF Lines
<1>2. (STRING \ {"newline"}) \subseteq Signs /\ "newline" \in Signs
  BY DEF Signs
<1>3. Tokens[l] \in Seq(Signs)
  BY <1>1, <1>2, SeqMonotonic
<1>4. \A i \in 1 .. Len(Tokens[l]) : Tokens[l][i] \in STRING \ {"newline"}
  BY <1>1, ElementOfSeq
<1>5. LineTexts[l] = Append(Tokens[l], "newline")
  BY DEF LineTexts
<1>6. PICK text : text = Tokens[l]
  OBVIOUS
<1>7. /\ Append(text, "newline") = text \o <<"newline">> /\ <<"newline">> \in Seq(Signs)
      /\ Append(text, "newline") \in Seq(Signs)
  BY <1>2, <1>3, <1>6
<1>8. QED
  BY <1>3, <1>4, <1>5, <1>6, <1>7 DEF Without

LEMMA TextsMap == Maps(LineTexts, Proper, Signs)
  BY TokensTyped DEF Maps, At, Proper

LEMMA SilentParts ==
  ASSUME NEW a \in Seq(Signs), NEW b \in Seq(Signs)
  PROVE  Silent(a \o b) <=> Silent(a) /\ Silent(b)
  BY WithoutParts DEF Silent

LEMMA SilentNewline == Silent(<<"newline">>)
<1>1. PICK t : t = <<"newline">>
  OBVIOUS
<1>2. Len(t) = 1 /\ t[1] = "newline"
  BY <1>1
<1>3. \A i \in 1 .. Len(t) : t[i] = "newline"
  BY <1>2
<1>4. QED
  BY <1>1, <1>3 DEF Silent, Without

LEMMA FindFirst ==
  ASSUME NEW S, NEW text \in Seq(S), NEW token, NEW k \in 1 .. Len(text), First(text, token, k)
  PROVE  Find(token, text) = k
<1> DEFINE places == {i \in 1 .. Len(text) : text[i] = token}
<1>1. k \in places /\ \A i \in places : k <= i
  <2>1. Len(text) \in Nat /\ k \in places
    BY DEF First
  <2>2. ASSUME NEW i \in places, i < k
        PROVE  FALSE
    <3>1. i \in 1 .. k - 1 /\ text[i] = token
      BY <2>1, <2>2
    <3>2. QED
      BY <3>1 DEF First
  <2>3. \A i \in places : i \in Nat /\ (k <= i \/ i < k)
    BY <2>1
  <2>4. QED
    BY <2>1, <2>2, <2>3
<1>2. Min(places) = k
  <2>1. \A x \in places : (\A y \in places : x <= y) => x = k
    BY <1>1
  <2>2. QED
    BY <1>1, <2>1 DEF Min
<1>3. Find(token, text) = IF places # {} THEN Min(places) ELSE 0
  BY DEF Find, SelectInSeq
<1>4. QED
  BY <1>1, <1>2, <1>3

LEMMA FindBehind ==
  ASSUME NEW S, NEW a \in Seq(S), NEW b \in Seq(S), NEW token, b # <<>>, b[1] = token,
         Without(a, token)
  PROVE  Find(token, a \o b) = Len(a) + 1
<1>1. PICK d : d = a \o b
  OBVIOUS
<1>2. /\ d \in Seq(S) /\ Len(a) + 1 \in 1 .. Len(d) /\ d[Len(a) + 1] = token
      /\ (Len(a) + 1) - 1 = Len(a) /\ \A i \in 1 .. Len(a) : d[i] = a[i]
  BY <1>1
<1>3. First(d, token, Len(a) + 1)
  BY <1>2 DEF Without, First
<1>4. QED
  BY <1>1, <1>2, <1>3, FindFirst

LEMMA FromBehind ==
  ASSUME NEW S, NEW a \in Seq(S), NEW b \in Seq(S)
  PROVE  From(a \o b, Len(a) + 1) = b
  BY BackPart DEF From

\* The only answer set of a line.
LEMMA OneSet ==
  ASSUME NEW l \in Proper, ~IsDiagnosis(l), ~Without(Tokens[l], "{")
  PROVE  \E a \in Seq(Signs), s \in Seq(Signs), c \in Seq(Signs) :
           /\ LineTexts[l] = a \o (s \o c) /\ Silent(a) /\ Silent(c) /\ c # <<>> /\ IsSet(s)
           /\ Report(l) = <<s>>
<1>1. PICK text : text = Tokens[l]
  OBVIOUS
<1>2. text \in Seq(Signs) /\ LineTexts[l] = text \o <<"newline">> /\ "newline" \in Signs
  BY <1>1, TokensTyped DEF Proper, Signs
<1>3. PICK p \in 1 .. Len(text) : text[p] = "{"
  BY <1>1 DEF Without
<1>4. OpensOnce(text, "{", "}") /\ Closes(text, "{", "}") /\ "Diagnosis: " \notin ToSet(text)
  <2>1. ReportsOnce(l)
    BY DEF Proper
  <2>2. QED
    BY <1>1, <2>1 DEF ReportsOnce, Closed, OpensOnce, Closes
<1>5. Without(text, "Diagnosis: ")
  BY <1>2, <1>4, LenProperties DEF ToSet, Without
<1>6. PICK open, close, marker, newline :
        open = "{" /\ close = "}" /\ marker = "Diagnosis: " /\ newline = "newline"
  OBVIOUS
<1>7. open # close /\ newline # open /\ newline # marker
  BY <1>6
<1>8. HasPair(Signs, text, open, close, marker, newline, p)
  <2>1. /\ text \in Seq(Signs) /\ p \in 1 .. Len(text) /\ text[p] = open /\ newline \in Signs
        /\ OpensOnce(text, open, close) /\ Closes(text, open, close) /\ Without(text, marker)
    BY <1>2, <1>3, <1>4, <1>5, <1>6, Zenon
  <2>2. QED
    BY <1>7, <2>1, LineParts, Zenon
<1>9. PICK q \in 1 .. Len(text) : \E a, s, c \in Seq(Signs) :
        /\ text \o <<newline>> = a \o (s \o c) /\ c # <<>> /\ Encloses(s, open, close)
        /\ Without(a, open) /\ Without(a, marker) /\ Without(c, open) /\ Without(c, marker)
        /\ s = SubSeq(text, p, q) /\ First(text, open, p) /\ First(text, close, q)
  BY <1>8, Zenon DEF HasPair
<1>10. PICK a, s, c \in Seq(Signs) :
        /\ text \o <<newline>> = a \o (s \o c) /\ c # <<>> /\ Encloses(s, open, close)
        /\ Without(a, open) /\ Without(a, marker) /\ Without(c, open) /\ Without(c, marker)
        /\ s = SubSeq(text, p, q) /\ First(text, open, p) /\ First(text, close, q)
  BY <1>9, Zenon
<1>11. Find("{", text) = p /\ Find("}", text) = q
  BY <1>2, <1>3, <1>6, <1>9, <1>10, FindFirst, Zenon
<1>12. Report(l) = <<s>>
  <2>1. "{" \in ToSet(text)
    BY <1>2, <1>3, LenProperties DEF ToSet
  <2>2. QED
    BY <1>1, <1>10, <1>11, <2>1 DEF Report, IsDiagnosis
<1>13. IsSet(s) /\ Silent(a) /\ Silent(c)
  BY <1>6, <1>10, Zenon DEF IsSet, Silent
<1>14. LineTexts[l] = a \o (s \o c)
  BY <1>2, <1>6, <1>10, Zenon
<1>15. QED
  BY <1>10, <1>12, <1>13, <1>14, Zenon

\* Any other line reports nothing.
LEMMA NoSet ==
  ASSUME NEW l \in Proper, ~IsDiagnosis(l), Without(Tokens[l], "{")
  PROVE  Report(l) = <<>> /\ Silent(LineTexts[l])
<1>1. PICK text : text = Tokens[l]
  OBVIOUS
<1>2. text \in Seq(Signs) /\ LineTexts[l] = text \o <<"newline">> /\ <<"newline">> \in Seq(Signs)
  BY <1>1, TokensTyped DEF Proper
<1>3. "{" \notin ToSet(text)
  BY <1>1, <1>2, LenProperties DEF ToSet, Without
<1>4. Report(l) = <<>>
  BY <1>1, <1>3 DEF Report, IsDiagnosis
<1>5. ReportsOnce(l)
  BY DEF Proper
<1>6. "Diagnosis: " \notin ToSet(text)
  BY <1>1, <1>5 DEF ReportsOnce
<1>7. Silent(text)
  BY <1>1, <1>2, <1>6, LenProperties DEF ToSet, Silent, Without
<1>8. QED
  BY <1>2, <1>4, <1>7, SilentNewline, SilentParts

\* What a diagnosis is turned into.
DiagnosisSet(d) ==
  <<"{">> \o SubSeq(d, 2, Find("newline", d) - 1) \o <<"}">>

LEMMA DiagnosisTurned ==
  ASSUME NEW l \in Proper, IsDiagnosis(l), NEW behind \in Seq(Signs),
         NEW d, d = LineTexts[l] \o behind
  PROVE  /\ IsSet(DiagnosisSet(d)) /\ Report(l) = <<DiagnosisSet(d)>>
         /\ From(d, Find("newline", d) + 1) = behind
<1>1. PICK text, t, n : text = Tokens[l] /\ t = Tail(text) /\ n = <<"newline">>
  OBVIOUS
<1>2. /\ text \in Seq(Signs) /\ text # <<>> /\ Without(text, "newline") /\ n \in Seq(Signs)
      /\ LineTexts[l] = text \o n /\ LineTexts[l] \in Seq(Signs)
  BY <1>1, TokensTyped DEF Proper, IsDiagnosis
<1>3. t \in Seq(Signs) /\ Without(t, "}")
  <2>1. t \in Seq(Signs)
    BY <1>1, <1>2, HeadTailProperties
  <2>2. "}" \notin ToSet(t)
    BY <1>1 DEF Proper, ReportsOnce
  <2>3. QED
    BY <2>1, <2>2, LenProperties DEF ToSet, Without
<1>4. PICK b : b = n \o behind
  OBVIOUS
<1>5. b \in Seq(Signs) /\ b # <<>> /\ b[1] = "newline" /\ d = text \o b
  <2>1. n # <<>> /\ n[1] = "newline"
    BY <1>1
  <2>2. b \in Seq(Signs) /\ b # <<>> /\ b[1] = n[1]
    BY <1>2, <1>4, <2>1, Leading
  <2>3. (text \o n) \o behind = text \o (n \o behind)
    BY <1>2, ConcatAssociative
  <2>4. QED
    BY <1>2, <1>4, <2>1, <2>2, <2>3
<1>6. Find("newline", d) = Len(text) + 1
  BY <1>2, <1>5, FindBehind
<1>7. Len(text) \in Nat /\ (Len(text) + 1) - 1 = Len(text)
  BY <1>2
<1>8. SubSeq(d, 2, Len(text)) = t
  BY <1>1, <1>2, <1>5, TailPart
<1>9. DiagnosisSet(d) = <<"{">> \o t \o <<"}">>
  BY <1>6, <1>7, <1>8 DEF DiagnosisSet
<1>10. IsSet(DiagnosisSet(d))
  <2>1. "{" \in Signs /\ "}" \in Signs /\ "{" # "}"
    BY DEF Signs
  <2>2. QED
    BY <1>3, <1>9, <2>1, Bracketed DEF IsSet
<1>11. Report(l) = <<DiagnosisSet(d)>>
  BY <1>1, <1>9 DEF Report, IsDiagnosis
<1>12. From(d, Find("newline", d) + 1) = behind
  <2>1. Len(LineTexts[l]) = Len(text) + 1
    BY <1>1, <1>2
  <2>2. From(LineTexts[l] \o behind, Len(LineTexts[l]) + 1) = behind
    BY <1>2, FromBehind
  <2>3. QED
    BY <1>6, <2>1, <2>2
<1>13. QED
  BY <1>10, <1>11, <1>12

LEMMA ReportTyped ==
  ASSUME NEW l \in Proper
  PROVE  Report(l) \in Seq(Seq(Signs))
<1>1. ASSUME NEW s \in Seq(Signs)
      PROVE  <<s>> \in Seq(Seq(Signs))
  OBVIOUS
<1>2. CASE IsDiagnosis(l)
  <2>1. PICK behind \in Seq(Signs) : behind = <<>>
    BY EmptySeq
  <2>2. PICK d : d = LineTexts[l] \o behind
    OBVIOUS
  <2>3. IsSet(DiagnosisSet(d)) /\ Report(l) = <<DiagnosisSet(d)>>
    BY <1>2, <2>2, DiagnosisTurned
  <2>4. DiagnosisSet(d) \in Seq(Signs)
    BY <2>3 DEF IsSet
  <2>5. QED
    BY <1>1, <2>3, <2>4
<1>3. CASE ~IsDiagnosis(l) /\ Without(Tokens[l], "{")
  BY <1>3, NoSet, EmptySeq
<1>4. CASE ~IsDiagnosis(l) /\ ~Without(Tokens[l], "{")
  BY <1>1, <1>4, OneSet
<1>5. QED
  BY <1>2, <1>3, <1>4

LEMMA ReportsMap == Maps(LineReports, Proper, Seq(Signs))
<1>1. ASSUME NEW l \in Proper
      PROVE  LineReports[l] = Report(l)
  BY DEF LineReports, Proper
<1>2. QED
  BY <1>1, ReportTyped DEF Maps, At

\* The first line, and the others.
LEMMA FirstLine ==
  ASSUME NEW lines \in Seq(Proper), lines # <<>>
  PROVE  /\ Head(lines) \in Proper /\ Tail(lines) \in Seq(Proper)
         /\ Written(lines) = LineTexts[Head(lines)] \o Written(Tail(lines))
         /\ Reports(lines) = Report(Head(lines)) \o Reports(Tail(lines))
         /\ LineTexts[Head(lines)] \in Seq(Signs)
<1>1. Head(lines) \in Proper /\ Tail(lines) \in Seq(Proper)
  BY HeadTailProperties
<1>2. LineReports[Head(lines)] = Report(Head(lines)) /\ LineTexts[Head(lines)] \in Seq(Signs)
  BY <1>1, TokensTyped DEF LineReports, Proper
<1>3. Written(lines) = LineTexts[Head(lines)] \o Written(Tail(lines))
  BY TextsMap, MappedCons DEF Written, At
<1>4. Reports(lines) = LineReports[Head(lines)] \o Reports(Tail(lines))
  BY ReportsMap, MappedCons DEF Reports, At
<1>5. QED
  BY <1>1, <1>2, <1>3, <1>4

LEMMA WrittenTyped ==
  ASSUME NEW lines \in Seq(Proper)
  PROVE  Written(lines) \in Seq(Signs) /\ Reports(lines) \in Seq(Seq(Signs))
  BY TextsMap, ReportsMap, MappedType DEF Written, Reports

LEMMA NothingWritten == Written(<<>>) = <<>> /\ Reports(<<>>) = <<>>
  BY MappedEmpty DEF Written, Reports

LEMMA NoDiagnosisLeft ==
  ASSUME NEW lines \in Seq(Proper), lines # <<>>, NoDiagnosis(lines)
  PROVE  ~IsDiagnosis(Head(lines)) /\ NoDiagnosis(Tail(lines))
<1>1. PICK t : t = Tail(lines)
  OBVIOUS
<1>2. /\ Len(t) \in Nat /\ Len(lines) = Len(t) + 1 /\ Head(lines) = lines[1]
      /\ \A i \in 1 .. Len(t) : t[i] = lines[i + 1]
  BY <1>1, HeadTailProperties
<1>3. 1 \in 1 .. Len(lines) /\ \A i \in 1 .. Len(t) : i + 1 \in 1 .. Len(lines)
  BY <1>2
<1>4. ~IsDiagnosis(lines[1]) /\ \A i \in 1 .. Len(t) : ~IsDiagnosis(lines[i + 1])
  BY <1>3 DEF NoDiagnosis
<1>5. QED
  BY <1>1, <1>2, <1>4 DEF NoDiagnosis

\* The next answer set of a text, and what is left behind it.
Opens(d, lines) ==
  \/ Without(d, "{") /\ Reports(lines) = <<>>
  \/ \E g, s, f \in Seq(Signs), q \in Seq(Proper) :
       /\ d = g \o (s \o (f \o Written(q)))
       /\ Silent(g) /\ IsSet(s) /\ Silent(f) /\ f # <<>> /\ NoDiagnosis(q)
       /\ Reports(lines) = <<s>> \o Reports(q)

OpensAlways(lines) ==
  \A f \in Seq(Signs) : Silent(f) => Opens(f \o Written(lines), lines)

LEMMA OpensFirst ==
  ASSUME NEW lines \in Seq(Proper), lines # <<>>, NoDiagnosis(lines),
         NEW front \in Seq(Signs), Silent(front), ~Without(Tokens[Head(lines)], "{")
  PROVE  Opens(front \o Written(lines), lines)
<1>1. PICK h, t, w : h = Head(lines) /\ t = Tail(lines) /\ w = Written(t)
  OBVIOUS
<1>2. /\ h \in Proper /\ t \in Seq(Proper) /\ ~IsDiagnosis(h) /\ NoDiagnosis(t)
      /\ Written(lines) = LineTexts[h] \o w /\ Reports(lines) = Report(h) \o Reports(t)
      /\ w \in Seq(Signs)
  BY <1>1, FirstLine, NoDiagnosisLeft, WrittenTyped
<1>3. ~Without(Tokens[h], "{")
  BY <1>1
<1>4. PICK a, s, c \in Seq(Signs) :
           /\ LineTexts[h] = a \o (s \o c) /\ Silent(a) /\ Silent(c) /\ c # <<>> /\ IsSet(s)
           /\ Report(h) = <<s>>
  BY <1>2, <1>3, OneSet
<1>5. front \o Written(lines) = (front \o a) \o (s \o (c \o w))
  <2>1. FrontRegroups(front, a, s, c, w)
    BY <1>2, <1>4, FrontRegrouping, Zenon
  <2>2. QED
    BY <1>2, <1>4, <2>1, Zenon DEF FrontRegroups
<1>6. front \o a \in Seq(Signs) /\ Silent(front \o a)
  <2>1. front \o a \in Seq(Signs)
    BY <1>4, JoinTyped, Zenon
  <2>2. QED
    BY <1>4, <2>1, SilentParts, Zenon
<1>7. Reports(lines) = <<s>> \o Reports(t)
  BY <1>2, <1>4
<1>8. QED
  BY <1>1, <1>2, <1>4, <1>5, <1>6, <1>7, Zenon DEF Opens

LEMMA OpensLater ==
  ASSUME NEW lines \in Seq(Proper), lines # <<>>, NoDiagnosis(lines),
         NEW front \in Seq(Signs), Silent(front), Without(Tokens[Head(lines)], "{"),
         OpensAlways(Tail(lines))
  PROVE  Opens(front \o Written(lines), lines)
<1>1. PICK h, t, w, x : /\ h = Head(lines) /\ t = Tail(lines) /\ w = Written(t)
                        /\ x = front \o LineTexts[h]
  OBVIOUS
<1>2. /\ h \in Proper /\ t \in Seq(Proper) /\ ~IsDiagnosis(h) /\ LineTexts[h] \in Seq(Signs)
      /\ Written(lines) = LineTexts[h] \o w /\ Reports(lines) = Report(h) \o Reports(t)
      /\ w \in Seq(Signs) /\ Reports(t) \in Seq(Seq(Signs))
  BY <1>1, FirstLine, NoDiagnosisLeft, WrittenTyped
<1>3. Report(h) = <<>> /\ Silent(LineTexts[h])
  BY <1>1, <1>2, NoSet
<1>4. x \in Seq(Signs) /\ Silent(x)
  <2>1. x \in Seq(Signs)
    BY <1>1, <1>2, JoinTyped, Zenon
  <2>2. QED
    BY <1>1, <1>2, <1>3, <2>1, SilentParts, Zenon
<1>5. front \o Written(lines) = x \o w
  <2>1. Associates(front, LineTexts[h], w)
    BY <1>2, Associating, Zenon
  <2>2. QED
    BY <1>1, <1>2, <2>1, Zenon DEF Associates
<1>6. Reports(lines) = Reports(t)
  BY <1>2, <1>3, ConcatEmptySeq
<1>7. Opens(x \o w, t)
  BY <1>1, <1>4, Zenon DEF OpensAlways
<1>8. QED
  BY <1>5, <1>6, <1>7, Zenon DEF Opens

LEMMA Opening ==
  ASSUME NEW lines \in Seq(Proper), NoDiagnosis(lines), NEW front \in Seq(Signs), Silent(front)
  PROVE  Opens(front \o Written(lines), lines)
<1> DEFINE Fine(m) == NoDiagnosis(m) => OpensAlways(m)
           N == {n \in Nat : \E m \in Seq(Proper) : Len(m) = n /\ ~Fine(m)}
<1>1. ASSUME N # {}
      PROVE  FALSE
  <2>1. PICK n \in N : \A k \in N : n <= k
    BY <1>1, LeastOf
  <2>2. PICK m \in Seq(Proper) : Len(m) = n /\ ~Fine(m)
    OBVIOUS
  <2>3. PICK f \in Seq(Signs) : NoDiagnosis(m) /\ Silent(f) /\ ~Opens(f \o Written(m), m)
    BY <2>2 DEF OpensAlways
  <2>4. CASE m = <<>>
    <3>1. Written(m) = <<>> /\ Reports(m) = <<>> /\ f \o <<>> = f
      BY <2>4, NothingWritten, ConcatEmptySeq
    <3>2. QED
      BY <2>3, <3>1 DEF Opens, Silent
  <2>5. CASE m # <<>>
    <3>1. Fine(Tail(m))
      <4>1. Tail(m) \in Seq(Proper) /\ Len(Tail(m)) = Len(m) - 1 /\ Len(m) \in Nat \ {0}
        BY <2>5, HeadTailProperties, EmptySeq, LenProperties
      <4>2. Len(Tail(m)) \in Nat /\ ~(n <= Len(Tail(m)))
        BY <2>2, <4>1
      <4>3. Len(Tail(m)) \notin N
        BY <2>1, <4>2
      <4>4. QED
        BY <4>1, <4>2, <4>3
    <3>2. NoDiagnosis(Tail(m))
      BY <2>3, <2>5, NoDiagnosisLeft
    <3> HIDE DEF N
    <3>3. OpensAlways(Tail(m))
      BY <3>1, <3>2
    <3>4. Opens(f \o Written(m), m)
      BY <2>3, <2>5, <3>3, OpensFirst, OpensLater
    <3>5. QED
      BY <2>3, <3>4
  <2>6. QED
    BY <2>4, <2>5
<1>2. Len(lines) \in Nat
  BY LenProperties
<1>3. Fine(lines)
  BY <1>1, <1>2
<1>4. QED
  BY <1>3 DEF OpensAlways
-----------------------------------------------------------------------------
\* Where the wrapper stands in a text, with these answer sets printed of all:
\* behind a line that has reported or before a line, or before an answer set.
Stands(front, lines) ==
  DiagnosesFirst(lines) /\ Silent(front) /\ (front # <<>> => NoDiagnosis(lines))

BeforeLine(text, done, all) ==
  \E front \in Seq(Signs), lines \in Seq(Proper) :
    Stands(front, lines) /\ text = front \o Written(lines) /\ done \o Reports(lines) = all

BeforeSet(text, done, all) ==
  \E set \in Seq(Signs), front \in Seq(Signs), lines \in Seq(Proper) :
    /\ IsSet(set) /\ Stands(front, lines) /\ text = set \o (front \o Written(lines))
    /\ done \o (<<set>> \o Reports(lines)) = all

LEMMA FewerDiagnoses ==
  ASSUME NEW lines \in Seq(Proper), lines # <<>>, DiagnosesFirst(lines)
  PROVE  /\ DiagnosesFirst(Tail(lines))
         /\ ~IsDiagnosis(Head(lines)) => NoDiagnosis(lines)
<1>1. PICK t : t = Tail(lines)
  OBVIOUS
<1>2. /\ Len(t) \in Nat /\ Len(lines) = Len(t) + 1 /\ Head(lines) = lines[1]
      /\ \A i \in 1 .. Len(t) : t[i] = lines[i + 1]
  BY <1>1, HeadTailProperties
<1>3. \A i \in 1 .. Len(t) : i + 1 \in 1 .. Len(lines) /\ \A j \in 1 .. i : j + 1 \in 1 .. i + 1 /\ j \in 1 .. Len(t)
  BY <1>2
<1>4. DiagnosesFirst(t)
  <2>1. SUFFICES ASSUME NEW i \in 1 .. Len(t), IsDiagnosis(t[i]), NEW j \in 1 .. i
                 PROVE  IsDiagnosis(t[j])
    BY DEF DiagnosesFirst
  <2>2. IsDiagnosis(lines[i + 1]) /\ i + 1 \in 1 .. Len(lines) /\ j + 1 \in 1 .. i + 1
        /\ t[j] = lines[j + 1]
    BY <1>2, <1>3, <2>1
  <2>3. QED
    BY <2>2 DEF DiagnosesFirst
<1>5. ASSUME ~IsDiagnosis(Head(lines)), NEW i \in 1 .. Len(lines), IsDiagnosis(lines[i])
      PROVE  FALSE
  <2>1. 1 \in 1 .. i
    BY <1>2
  <2>2. QED
    BY <1>2, <1>5, <2>1 DEF DiagnosesFirst
<1>6. QED
  BY <1>1, <1>4, <1>5 DEF NoDiagnosis

LEMMA NoneFirst ==
  ASSUME NEW lines \in Seq(Proper), NoDiagnosis(lines)
  PROVE  DiagnosesFirst(lines)
  BY DEF NoDiagnosis, DiagnosesFirst

\* By its first token a line shows whether it is a diagnosis.
LEMMA FirstToken ==
  ASSUME NEW l \in Proper
  PROVE  LineTexts[l] # <<>> /\ (IsDiagnosis(l) <=> LineTexts[l][1] = "Diagnosis: ")
<1>1. PICK text, n : text = Tokens[l] /\ n = <<"newline">>
  OBVIOUS
<1>2. text \in Seq(Signs) /\ LineTexts[l] = text \o n /\ n \in Seq(Signs) /\ n # <<>>
      /\ n[1] = "newline"
  BY <1>1, TokensTyped DEF Proper
<1>3. CASE text = <<>>
  <2>1. LineTexts[l] = n
    BY <1>2, <1>3, ConcatEmptySeq
  <2>2. ~IsDiagnosis(l)
    BY <1>1, <1>3 DEF IsDiagnosis
  <2>3. QED
    BY <1>2, <2>1, <2>2
<1>4. CASE text # <<>>
  <2>1. LineTexts[l] # <<>> /\ LineTexts[l][1] = text[1]
    BY <1>2, <1>4, Leading
  <2>2. QED
    BY <1>1, <1>4, <2>1 DEF IsDiagnosis
<1>5. QED
  BY <1>3, <1>4

LEMMA FirstOfText ==
  ASSUME NEW lines \in Seq(Proper), lines # <<>>
  PROVE  /\ Written(lines) # <<>>
         /\ IsDiagnosis(Head(lines)) <=> Written(lines)[1] = "Diagnosis: "
<1>1. PICK h, t, x, w : /\ h = Head(lines) /\ t = Tail(lines) /\ x = LineTexts[h]
                        /\ w = Written(t)
  OBVIOUS
<1>2. h \in Proper /\ x \in Seq(Signs) /\ w \in Seq(Signs) /\ Written(lines) = x \o w
  BY <1>1, FirstLine, WrittenTyped
<1>3. x # <<>> /\ (IsDiagnosis(h) <=> x[1] = "Diagnosis: ")
  BY <1>1, <1>2, FirstToken
<1>4. x \o w # <<>> /\ (x \o w)[1] = x[1]
  BY <1>2, <1>3, Leading, Zenon
<1>5. QED
  BY <1>1, <1>2, <1>3, <1>4, Zenon

\* Nothing is left to be read: nothing is left to be printed.
LEMMA NothingLeft ==
  ASSUME NEW done \in Seq(Seq(Signs)), NEW all, BeforeLine(<<>>, done, all)
  PROVE  done = all
<1>1. PICK front \in Seq(Signs), lines \in Seq(Proper) :
        Stands(front, lines) /\ <<>> = front \o Written(lines) /\ done \o Reports(lines) = all
  BY DEF BeforeLine
<1>2. Written(lines) \in Seq(Signs)
  BY WrittenTyped
<1>3. Written(lines) = <<>>
  BY <1>1, <1>2, NothingJoined, Zenon
<1>4. lines = <<>>
  BY <1>3, FirstOfText
<1>5. done \o <<>> = all
  BY <1>1, <1>4, NothingWritten
<1>6. QED
  BY <1>5, ConcatEmptySeq

\* An answer set is printed.
LEMMA SetPrinted ==
  ASSUME NEW text, NEW done \in Seq(Seq(Signs)), NEW all, BeforeSet(text, done, all),
         NEW end, end = Find("}", text)
  PROVE  /\ text # <<>> /\ text[1] = "{" /\ end # 0
         /\ Append(done, SubSeq(text, 1, end)) \in Seq(Seq(Signs))
         /\ BeforeLine(From(text, end + 1), Append(done, SubSeq(text, 1, end)), all)
<1>1. PICK set \in Seq(Signs), front \in Seq(Signs), lines \in Seq(Proper) :
        /\ IsSet(set) /\ Stands(front, lines) /\ text = set \o (front \o Written(lines))
        /\ done \o (<<set>> \o Reports(lines)) = all
  BY DEF BeforeSet
<1>2. PICK behind, w, reports : /\ w = Written(lines) /\ behind = front \o w
                              /\ reports = Reports(lines)
  OBVIOUS
<1>3. w \in Seq(Signs) /\ reports \in Seq(Seq(Signs))
  BY <1>2, WrittenTyped
<1>4. behind \in Seq(Signs)
  BY <1>2, <1>3, JoinTyped, Zenon
<1>5. text = set \o behind
  BY <1>1, <1>2, Zenon
<1>6. set # <<>> /\ set[1] = "{" /\ Len(set) \in 1 .. Len(set) /\ Len(set) # 0
      /\ First(set, "}", Len(set))
  BY <1>1, EnclosedText, Zenon DEF IsSet
<1>7. text \in Seq(Signs) /\ text # <<>> /\ text[1] = "{"
  <2>1. set \o behind \in Seq(Signs) /\ set \o behind # <<>> /\ (set \o behind)[1] = set[1]
    BY <1>4, <1>6, Leading, Zenon
  <2>2. QED
    BY <1>5, <1>6, <2>1, Zenon
<1>8. end = Len(set)
  <2>1. Len(set) \in 1 .. Len(text) /\ First(text, "}", Len(set))
    BY <1>4, <1>5, <1>6, FirstInFront, Zenon
  <2>2. QED
    BY <1>7, <2>1, FindFirst, Zenon
<1>9. end # 0
  BY <1>6, <1>8, Zenon
<1>10. SubSeq(text, 1, end) = set /\ From(text, end + 1) = behind
  <2>1. SubSeq(set \o behind, 1, Len(set)) = set
    BY <1>4, FrontPart, Zenon
  <2>2. From(set \o behind, Len(set) + 1) = behind
    BY <1>4, FromBehind, Zenon
  <2>3. QED
    BY <1>5, <1>8, <2>1, <2>2, Zenon
<1>11. Append(done, set) \in Seq(Seq(Signs)) /\ Append(done, set) \o reports = all
  <2>1. Append(done, set) \in Seq(Seq(Signs)) /\ Appends(done, set, reports)
    BY <1>3, AppendJoins, Zenon
  <2>2. QED
    BY <1>1, <1>2, <2>1, Zenon DEF Appends
<1>12. BeforeLine(behind, Append(done, set), all)
  BY <1>1, <1>2, <1>11, Zenon DEF BeforeLine
<1>13. QED
  BY <1>7, <1>9, <1>10, <1>11, <1>12, Zenon

\* Before a line: is it a diagnosis or is there none any more?
LEMMA LineShown ==
  ASSUME NEW front \in Seq(Signs), NEW lines \in Seq(Proper), Stands(front, lines),
         NEW text, text = front \o Written(lines), text # <<>>
  PROVE  IF text[1] = "Diagnosis: "
           THEN lines # <<>> /\ IsDiagnosis(Head(lines)) /\ text = Written(lines)
           ELSE NoDiagnosis(lines)
<1>1. PICK w : w = Written(lines)
  OBVIOUS
<1>2. w \in Seq(Signs)
  BY <1>1, WrittenTyped
<1>3. CASE front # <<>>
  <2>1. text[1] = front[1]
    <3>1. front \o w \in Seq(Signs) /\ front \o w # <<>> /\ (front \o w)[1] = front[1]
      BY <1>2, <1>3, Leading
    <3>2. QED
      BY <1>1, <3>1, Zenon
  <2>2. 1 \in 1 .. Len(front)
    BY <1>3, EmptySeq, LenProperties
  <2>3. text[1] # "Diagnosis: "
    BY <2>1, <2>2 DEF Stands, Silent, Without
  <2>4. QED
    BY <1>3, <2>3 DEF Stands
<1>4. CASE front = <<>>
  <2>1. text = w
    BY <1>1, <1>2, <1>4, ConcatEmptySeq
  <2>2. lines # <<>>
    BY <1>1, <2>1, NothingWritten
  <2>3. IsDiagnosis(Head(lines)) <=> text[1] = "Diagnosis: "
    BY <1>1, <2>1, <2>2, FirstOfText
  <2>4. QED
    BY <1>1, <2>1, <2>2, <2>3, FewerDiagnoses DEF Stands
<1>5. QED
  BY <1>3, <1>4

\* A diagnosis becomes an answer set.
LEMMA DiagnosisRead ==
  ASSUME NEW text, NEW done \in Seq(Seq(Signs)), NEW all, BeforeLine(text, done, all),
         text # <<>>, text[1] = "Diagnosis: "
  PROVE  BeforeSet(DiagnosisSet(text) \o From(text, Find("newline", text) + 1), done, all)
<1>1. PICK front \in Seq(Signs), lines \in Seq(Proper) :
        Stands(front, lines) /\ text = front \o Written(lines) /\ done \o Reports(lines) = all
  BY DEF BeforeLine
<1>2. lines # <<>> /\ IsDiagnosis(Head(lines)) /\ text = Written(lines)
  BY <1>1, LineShown
<1>3. PICK h, t, w, set : /\ h = Head(lines) /\ t = Tail(lines) /\ w = Written(t)
                          /\ set = DiagnosisSet(text)
  OBVIOUS
<1>4. /\ h \in Proper /\ t \in Seq(Proper) /\ text = LineTexts[h] \o w
      /\ Reports(lines) = Report(h) \o Reports(t) /\ w \in Seq(Signs)
  BY <1>2, <1>3, FirstLine, WrittenTyped
<1>5. IsSet(set) /\ Report(h) = <<set>> /\ From(text, Find("newline", text) + 1) = w
  BY <1>2, <1>3, <1>4, DiagnosisTurned
<1>6. DiagnosesFirst(t)
  BY <1>1, <1>2, <1>3, FewerDiagnoses DEF Stands
<1>7. PICK none \in Seq(Signs) : none = <<>>
  BY EmptySeq
<1>8. Silent(none) /\ none \o w = w
  <2>1. Silent(none)
    BY <1>7, WithoutNothing, Zenon DEF Silent
  <2>2. QED
    BY <1>4, <1>7, <2>1, ConcatEmptySeq
<1>9. Stands(none, t)
  BY <1>6, <1>7, <1>8, Zenon DEF Stands
<1>10. done \o (<<set>> \o Reports(t)) = all
  BY <1>1, <1>4, <1>5, Zenon
<1>11. set \in Seq(Signs)
  BY <1>5 DEF IsSet
<1>12. BeforeSet(set \o w, done, all)
  BY <1>3, <1>4, <1>5, <1>8, <1>9, <1>10, <1>11, Zenon DEF BeforeSet
<1>13. QED
  BY <1>3, <1>5, <1>12, Zenon

\* The text before the next answer set is skipped.
LEMMA SetReached ==
  ASSUME NEW text, NEW done \in Seq(Seq(Signs)), NEW all, BeforeLine(text, done, all),
         text # <<>>, text[1] # "Diagnosis: "
  PROVE  IF "{" \in ToSet(text) THEN BeforeSet(From(text, Find("{", text)), done, all)
                                ELSE BeforeLine(<<>>, done, all)
<1>1. PICK front \in Seq(Signs), lines \in Seq(Proper) :
        Stands(front, lines) /\ text = front \o Written(lines) /\ done \o Reports(lines) = all
  BY DEF BeforeLine
<1>2. NoDiagnosis(lines) /\ Silent(front)
  BY <1>1, LineShown DEF Stands
<1>3. Opens(text, lines)
  BY <1>1, <1>2, Opening, Zenon
<1>4. text \in Seq(Signs)
  <2>1. Written(lines) \in Seq(Signs)
    BY WrittenTyped
  <2>2. QED
    BY <1>1, <2>1, JoinTyped, Zenon
<1>5. CASE Without(text, "{") /\ Reports(lines) = <<>>
  <2>1. "{" \notin ToSet(text)
    BY <1>4, <1>5, LenProperties DEF ToSet, Without
  <2>2. PICK none \in Seq(Signs), no \in Seq(Proper) : none = <<>> /\ no = <<>>
    BY EmptySeq
  <2>3. Stands(none, no)
    <3>1. Silent(none)
      BY <2>2, WithoutNothing, Zenon DEF Silent
    <3>2. DiagnosesFirst(no)
      BY <2>2, NoPlaces, Zenon DEF DiagnosesFirst
    <3>3. QED
      BY <2>2, <3>1, <3>2, Zenon DEF Stands
  <2>4. Written(no) = <<>> /\ Reports(no) = <<>>
    BY <2>2, NothingWritten
  <2>5. none \o Written(no) = <<>>
    <3>1. none \o <<>> = none
      BY ConcatEmptySeq, Zenon
    <3>2. QED
      BY <2>2, <2>4, <3>1, Zenon
  <2>6. BeforeLine(<<>>, done, all)
    BY <1>1, <1>5, <2>3, <2>4, <2>5, Zenon DEF BeforeLine
  <2>7. QED
    BY <2>1, <2>6
<1>6. CASE \E g, s, f \in Seq(Signs), q \in Seq(Proper) :
             /\ text = g \o (s \o (f \o Written(q)))
             /\ Silent(g) /\ IsSet(s) /\ Silent(f) /\ f # <<>> /\ NoDiagnosis(q)
             /\ Reports(lines) = <<s>> \o Reports(q)
  <2>1. PICK g, s, f \in Seq(Signs), q \in Seq(Proper) :
             /\ text = g \o (s \o (f \o Written(q)))
             /\ Silent(g) /\ IsSet(s) /\ Silent(f) /\ f # <<>> /\ NoDiagnosis(q)
             /\ Reports(lines) = <<s>> \o Reports(q)
    BY <1>6
  <2>2. PICK b : b = s \o (f \o Written(q))
    OBVIOUS
  <2>3. s # <<>> /\ s[1] = "{"
    BY <2>1, EnclosedText, Zenon DEF IsSet
  <2>4. b \in Seq(Signs) /\ b # <<>> /\ b[1] = "{"
    <3>1. Written(q) \in Seq(Signs)
      BY WrittenTyped
    <3>2. f \o Written(q) \in Seq(Signs)
      BY <3>1, JoinTyped, Zenon
    <3>3. b \in Seq(Signs) /\ b # <<>> /\ b[1] = s[1]
      BY <2>2, <2>3, <3>2, Leading, Zenon
    <3>4. QED
      BY <2>3, <3>3, Zenon
  <2>5. Find("{", text) = Len(g) + 1 /\ From(text, Len(g) + 1) = b
    <3>1. Without(g, "{")
      BY <2>1 DEF Silent
    <3>2. Find("{", g \o b) = Len(g) + 1
      BY <2>4, <3>1, FindBehind, Zenon
    <3>3. From(g \o b, Len(g) + 1) = b
      BY <2>4, FromBehind, Zenon
    <3>4. QED
      BY <2>1, <2>2, <3>2, <3>3, Zenon
  <2>6. Stands(f, q)
    BY <2>1, NoneFirst DEF Stands
  <2>7. BeforeSet(b, done, all)
    BY <1>1, <2>1, <2>2, <2>6, Zenon DEF BeforeSet
  <2>8. "{" \in ToSet(text)
    <3>1. ~Without(b, "{")
      BY <2>4, NotWithoutFirst, Zenon
    <3>2. ~Without(g \o b, "{")
      BY <2>4, <3>1, WithoutParts, Zenon
    <3>3. ~Without(text, "{")
      BY <2>1, <2>2, <3>2, Zenon
    <3>4. QED
      BY <1>4, <3>3, LenProperties DEF Without, ToSet
  <2>9. QED
    BY <2>5, <2>7, <2>8, Zenon
<1>7. QED
  BY <1>3, <1>5, <1>6 DEF Opens
-----------------------------------------------------------------------------
\* What dlv has written is well formed.
Reported == routput \in Seq(Proper) /\ DiagnosesFirst(routput)

PrintingInv ==
  /\ printed \in Seq(Seq(Signs))
  /\ rewriting = "printed" => printed = Reports(routput)
  /\ rewriting = "printing" =>
       BeforeLine(dlv, printed, Reports(routput)) \/ BeforeSet(dlv, printed, Reports(routput))

DlvInv ==
  /\ rewriting \notin {"printing", "printed"} => printed = <<>>
  /\ rewriting \in {"printing", "printed"} =>
       stdout.text = printed /\ (Reported => PrintingInv)
  /\ session = "running" /\ converter.kind = "dlv" =>
       rewriting = "printed" /\ output = Inconsistent

LEMMA TextWritten ==
  ASSUME NEW lines \in Seq(Lines)
  PROVE  /\ Text(lines) = Written(lines)
         /\ Reports(lines) = FlattenSeq([i \in DOMAIN lines |-> Report(lines[i])])
<1>1. \A i \in DOMAIN lines : lines[i] \in Lines
  BY ElementOfSeq, LenProperties
<1>2. /\ \A i \in DOMAIN lines : At(LineTexts, lines[i]) = Append(Tokens[lines[i]], "newline")
      /\ \A i \in DOMAIN lines : At(LineReports, lines[i]) = Report(lines[i])
  BY <1>1 DEF At, LineTexts, LineReports
<1>3. [i \in DOMAIN lines |-> At(LineTexts, lines[i])]
        = [i \in DOMAIN lines |-> Append(Tokens[lines[i]], "newline")]
  BY <1>2, Zenon
<1>4. [i \in DOMAIN lines |-> At(LineReports, lines[i])]
        = [i \in DOMAIN lines |-> Report(lines[i])]
  BY <1>2, Zenon
<1>5. QED
  BY <1>3, <1>4, Zenon DEF Text, Written, Reports, Mapped

\* At first the whole output is to be read.
LEMMA PrintingBegins ==
  ASSUME Reported
  PROVE  BeforeLine(Text(routput), <<>>, Reports(routput)) /\ <<>> \in Seq(Seq(Signs))
<1>1. PICK none \in Seq(Signs) : none = <<>>
  BY EmptySeq
<1>2. Silent(none)
  BY <1>1, WithoutNothing, Zenon DEF Silent
<1>3. Stands(none, routput)
  BY <1>1, <1>2, Zenon DEF Stands, Reported
<1>4. routput \in Seq(Proper) /\ Text(routput) = Written(routput)
  <2>1. routput \in Seq(Proper) /\ Proper \subseteq Lines
    BY DEF Reported, Proper
  <2>2. routput \in Seq(Lines)
    BY <2>1, SeqMonotonic
  <2>3. QED
    BY <2>1, <2>2, TextWritten
<1>5. PICK text, reports : text = Written(routput) /\ reports = Reports(routput)
  OBVIOUS
<1>6. text \in Seq(Signs) /\ reports \in Seq(Seq(Signs))
  BY <1>4, <1>5, WrittenTyped
<1>7. <<>> \o text = text /\ <<>> \o reports = reports
  BY <1>6, ConcatEmptySeq
<1>8. BeforeLine(Text(routput), <<>>, Reports(routput))
  BY <1>1, <1>3, <1>4, <1>5, <1>7, Zenon DEF BeforeLine
<1>9. QED
  BY <1>8, EmptySeq

\* A set in front is a brace in front.
LEMMA SetShown ==
  ASSUME NEW text, NEW done \in Seq(Seq(Signs)), NEW all, BeforeSet(text, done, all)
  PROVE  text # <<>> /\ text[1] = "{"
<1>1. PICK end : end = Find("}", text)
  OBVIOUS
<1>2. QED
  BY <1>1, SetPrinted

LEMMA BraceInFront ==
  ASSUME NEW text, NEW done \in Seq(Seq(Signs)), NEW all, BeforeLine(text, done, all),
         text # <<>>, text[1] = "{"
  PROVE  BeforeSet(text, done, all)
<1>1. text \in Seq(Signs)
  <2>1. PICK front \in Seq(Signs), lines \in Seq(Proper) : text = front \o Written(lines)
    BY DEF BeforeLine
  <2>2. Written(lines) \in Seq(Signs)
    BY WrittenTyped
  <2>3. QED
    BY <2>1, <2>2, JoinTyped, Zenon
<1>2. 1 \in 1 .. Len(text) /\ First(text, "{", 1)
  <2>1. 1 \in 1 .. Len(text)
    BY <1>1, NotWithoutFirst
  <2>2. QED
    BY <2>1, NoneBeforeFirst, Zenon DEF First
<1>3. Find("{", text) = 1
  BY <1>1, <1>2, FindFirst, Zenon
<1>4. From(text, 1) = text
  BY <1>1, SubSeqFull DEF From
<1>5. "{" \in ToSet(text)
  BY <1>1, <1>2, LenProperties DEF ToSet
<1>6. BeforeSet(From(text, Find("{", text)), done, all)
  BY <1>5, SetReached
<1>7. QED
  BY <1>3, <1>4, <1>6, Zenon

LEMMA DlvNextPrints ==
  ASSUME DlvNext, Reported, PrintingInv
  PROVE  PrintingInv'
<1>1. rewriting = "printing" /\ routput' = routput /\ rewriting' \in {"printing", "printed"}
  BY DEF DlvNext, PrintAnswerSet, ConvertDiagnosis, SkipToAnswerSet, AllPrinted
<1>2. PICK all : all = Reports(routput) /\ all = Reports(routput')
  BY <1>1
<1>3. /\ printed \in Seq(Seq(Signs))
      /\ BeforeLine(dlv, printed, all) \/ BeforeSet(dlv, printed, all)
  BY <1>1, <1>2 DEF PrintingInv
<1>4. CASE PrintAnswerSet
  <2>1. PICK end : end = Find("}", dlv)
    OBVIOUS
  <2>2. /\ rewriting' = "printing" /\ dlv # <<>> /\ dlv[1] = "{"
        /\ printed' = IF end = 0 THEN printed ELSE Append(printed, SubSeq(dlv, 1, end))
        /\ dlv' = From(dlv, end + 1)
    BY <1>1, <1>4, <2>1 DEF PrintAnswerSet
  <2>3. BeforeSet(dlv, printed, all)
    BY <1>3, <2>2, BraceInFront
  <2>4. /\ end # 0 /\ Append(printed, SubSeq(dlv, 1, end)) \in Seq(Seq(Signs))
        /\ BeforeLine(From(dlv, end + 1), Append(printed, SubSeq(dlv, 1, end)), all)
    BY <1>3, <2>1, <2>3, SetPrinted
  <2>5. printed' \in Seq(Seq(Signs)) /\ BeforeLine(dlv', printed', all)
    BY <2>2, <2>4, Zenon
  <2>6. QED
    BY <1>2, <2>2, <2>5, Zenon DEF PrintingInv
<1>5. CASE ConvertDiagnosis
  <2>1. /\ rewriting' = "printing" /\ dlv # <<>> /\ dlv[1] = "Diagnosis: " /\ printed' = printed
        /\ dlv' = DiagnosisSet(dlv) \o From(dlv, Find("newline", dlv) + 1)
    BY <1>1, <1>5 DEF ConvertDiagnosis, DiagnosisSet
  <2>2. ~BeforeSet(dlv, printed, all)
    BY <1>3, <2>1, SetShown
  <2>3. BeforeSet(dlv', printed', all)
    BY <1>3, <2>1, <2>2, DiagnosisRead
  <2>4. QED
    BY <1>2, <1>3, <2>1, <2>3, Zenon DEF PrintingInv
<1>6. CASE SkipToAnswerSet
  <2>1. /\ rewriting' = "printing" /\ dlv # <<>> /\ dlv[1] \notin {"{", "Diagnosis: "}
        /\ printed' = printed
        /\ dlv' = IF "{" \in ToSet(dlv) THEN From(dlv, Find("{", dlv)) ELSE <<>>
    BY <1>1, <1>6 DEF SkipToAnswerSet
  <2>2. ~BeforeSet(dlv, printed, all)
    BY <1>3, <2>1, SetShown
  <2>3. BeforeSet(dlv', printed', all) \/ BeforeLine(dlv', printed', all)
    BY <1>3, <2>1, <2>2, SetReached
  <2>4. QED
    BY <1>2, <1>3, <2>1, <2>3, Zenon DEF PrintingInv
<1>7. CASE AllPrinted
  <2>1. rewriting' = "printed" /\ dlv = <<>> /\ printed' = printed
    BY <1>7 DEF AllPrinted
  <2>2. ~BeforeSet(dlv, printed, all)
    BY <1>3, <2>1, SetShown
  <2>3. printed = all
    BY <1>3, <2>1, <2>2, NothingLeft
  <2>4. QED
    BY <1>2, <1>3, <2>1, <2>3, Zenon DEF PrintingInv
<1>8. QED
  BY <1>4, <1>5, <1>6, <1>7 DEF DlvNext

\* A step that leaves the rewriter alone.
LEMMA DlvStays ==
  ASSUME DlvInv, UNCHANGED rewriterVars, stdout' = stdout \/ rewriting \notin {"printing", "printed"},
         session' # "running" \/ converter'.kind # "dlv"
           \/ (session' = session /\ output' = output /\ converter' = converter)
           \/ (rewriting = "printed" /\ output' = Inconsistent)
  PROVE  DlvInv'
<1>1. /\ rewriting' = rewriting /\ printed' = printed /\ dlv' = dlv /\ routput' = routput
  BY DEF rewriterVars
<1>2. Reported' = Reported /\ PrintingInv' = PrintingInv
  BY <1>1 DEF Reported, PrintingInv
<1>3. rewriting \in {"printing", "printed"} => stdout' = stdout
  OBVIOUS
<1>4. QED
  BY <1>1, <1>2, <1>3 DEF DlvInv, Inconsistent

\* The process is through when its output is printed.
LEMMA WaitsNoMore ==
  ASSUME RewriterInv, RewriterNext
  PROVE  rewriting \notin {"printing", "printed"}
<1>1. \/ toChild = <<>> /\ owed = <<>> /\ fromChild = <<>>
      \/ rewriting \in {"sending", "receiving"}
  BY DEF RewriterInv, Idle, Underway
<1>2. SUFFICES ASSUME rewriting \in {"printing", "printed"}
               PROVE  FALSE
  OBVIOUS
<1>3. toChild = <<>> /\ owed = <<>> /\ fromChild = <<>>
  BY <1>1, <1>2
<1>4. QED
  BY <1>2, <1>3 DEF RewriterNext, SendLine, EndOfFile, ChildReads, ChildWrites, ReceiveLine,
         CloseProcess, InputEnded

LEMMA DlvInvKept ==
  ASSUME SessionInv, DlvInv, [SessionNext]_allVars
  PROVE  DlvInv'
<1>1. /\ rewriting # "idle" => converter.kind \in Processes
      /\ rewriting \in {"printing", "printed"} => converter.kind = "dlv"
      /\ session \in {"starting", "mpcompiler"} => rewriting = "idle"
  BY DEF SessionInv, RewriterInv, OutputInv, Idle, Underway
<1>2. CASE UNCHANGED allVars
  BY <1>2, DlvStays DEF allVars, pluginVars, optionVars, sessionVars
<1>3. CASE ProcessOptions
  BY <1>3, DlvStays DEF ProcessOptions, sessionVars
<1>4. CASE ReadProgram
  <2>1. converter' = converter /\ converter.kind = "none"
    BY <1>4 DEF ReadProgram, pluginVars, optionVars
  <2>2. QED
    BY <1>4, <2>1, DlvStays DEF ReadProgram
<1>5. CASE ConvertByProcess
  <2>1. rewriting = "idle" /\ rewriting' = "sending" /\ printed' = printed
        /\ session' = "converting"
    BY <1>5 DEF ConvertByProcess, Spawn
  <2>2. QED
    BY <2>1 DEF DlvInv
<1>6. CASE Rewrite
  <2>1. rewriting \notin {"printing", "printed"}
    BY <1>6, WaitsNoMore DEF Rewrite, SessionInv
  <2>2. rewriting' \notin {"printing", "printed"} /\ printed' = printed
    <3>1. printed' = printed
          /\ rewriting' \in {rewriting, "receiving", "rewritten", "rewriter failed"}
      BY <1>6 DEF Rewrite, RewriterNext, SendLine, EndOfFile, ChildReads, ChildWrites,
             ReceiveLine, CloseProcess
    <3>2. QED
      BY <2>1, <3>1
  <2>3. session' = "converting"
    BY <1>6 DEF Rewrite, sessionVars
  <2>4. QED
    BY <2>1, <2>2, <2>3 DEF DlvInv
<1>7. CASE HandOn
  <2>1. converter' = converter /\ converter.kind = "inputrewriter" /\ stdout' = stdout
    BY <1>7 DEF HandOn, pluginVars, optionVars
  <2>2. QED
    BY <1>7, <2>1, DlvStays DEF HandOn
<1>8. CASE DlvFails
  BY <1>8, DlvStays DEF DlvFails
<1>9. CASE PrintAnswerSets
  <2>1. session' = "converting" /\ stdout'.text = printed'
    BY <1>9 DEF PrintAnswerSets, Output
  <2>2. CASE DlvDone
    <3>1. /\ rewriting = "rewritten" /\ rewriting' = "printing" /\ dlv' = Text(routput)
          /\ routput' = routput /\ printed' = printed /\ printed = <<>>
      BY <2>2 DEF DlvDone, DlvInv
    <3>2. ASSUME Reported'
          PROVE  PrintingInv'
      <4>1. Reported
        BY <3>1, <3>2 DEF Reported
      <4>2. QED
        BY <3>1, <4>1, PrintingBegins, Zenon DEF PrintingInv
    <3>3. QED
      BY <2>1, <3>1, <3>2 DEF DlvInv
  <2>3. CASE DlvNext
    <3>1. rewriting = "printing" /\ rewriting' \in {"printing", "printed"} /\ routput' = routput
      BY <2>3 DEF DlvNext, PrintAnswerSet, ConvertDiagnosis, SkipToAnswerSet, AllPrinted
    <3>2. ASSUME Reported'
          PROVE  PrintingInv'
      <4>1. Reported
        BY <3>1, <3>2 DEF Reported
      <4>2. QED
        BY <2>3, <3>1, <4>1, DlvNextPrints DEF DlvInv
    <3>3. QED
      BY <2>1, <3>1, <3>2 DEF DlvInv
  <2>4. QED
    BY <1>9, <2>2, <2>3 DEF PrintAnswerSets
<1>10. CASE HandOnConstraint
  BY <1>10, DlvStays DEF HandOnConstraint
<1>11. CASE ConvertPlan
  BY <1>11, DlvStays DEF ConvertPlan
<1>12. CASE ParsePlan
  <2>1. session' = "converting" /\ stdout' = stdout
    BY <1>12 DEF ParsePlan, sessionVars
  <2>2. QED
    BY <1>12, <2>1, DlvStays DEF ParsePlan
<1>13. CASE GeneratePlan
  <2>1. /\ converter' = converter /\ converter.kind \in {"merging", "mergingdump"}
        /\ UNCHANGED rewriterVars
    BY <1>13 DEF GeneratePlan, pluginVars, optionVars
  <2>2. converter.kind # "dlv" /\ rewriting \notin {"printing", "printed"}
    BY <1>1, <2>1
  <2>3. QED
    BY <2>1, <2>2, DlvStays
<1>14. CASE ShowHelp
  BY <1>1, <1>14, DlvStays DEF ShowHelp
<1>15. CASE CreateParser
  BY <1>15, DlvStays DEF CreateParser, sessionVars
<1>16. CASE Parse
  BY <1>16, DlvStays DEF Parse, sessionVars
<1>17. CASE ParsingFailed
  BY <1>17, DlvStays DEF ParsingFailed
<1>18. CASE PrintParseTree
  BY <1>1, <1>18, DlvStays DEF PrintParseTree
<1>19. CASE CompilePlan
  <2>1. session' \in {"failed", "ended"}
    BY <1>19 DEF CompilePlan
  <2>2. QED
    BY <1>1, <1>19, <2>1, DlvStays DEF CompilePlan
<1>20. CASE Crash
  BY <1>20, DlvStays DEF Crash
<1>21. QED
  BY <1>2, <1>3, <1>4, <1>5, <1>6, <1>7, <1>8, <1>9, <1>10, <1>11, <1>12, <1>13, <1>14, <1>15,
     <1>16, <1>17, <1>18, <1>19, <1>20 DEF SessionNext

LEMMA RunningPrinted ==
  ASSUME SessionInv, DlvInv
  PROVE  AnswerSetsPrinted
<1>1. SUFFICES ASSUME session = "running", converter.kind = "dlv", WellFormed(routput)
               PROVE  /\ stdout.text = FlattenSeq([i \in DOMAIN routput |-> Report(routput[i])])
                      /\ output = Inconsistent
  BY DEF AnswerSetsPrinted
<1>2. rewriting = "printed" /\ output = Inconsistent /\ stdout.text = printed
      /\ (Reported => PrintingInv)
  BY <1>1 DEF DlvInv
<1>3. routput \in Seq(Lines)
  BY <1>2 DEF SessionInv, RewriterInv, Idle, Underway
<1>4. routput \in Seq(Proper)
  <2>1. Len(routput) \in Nat /\ routput \in [1 .. Len(routput) -> Lines]
        /\ DOMAIN routput = 1 .. Len(routput)
    BY <1>3, LenProperties
  <2>2. \A i \in 1 .. Len(routput) : routput[i] \in Proper
    BY <1>1, <2>1 DEF WellFormed, ToSet, Proper
  <2>3. routput \in [1 .. Len(routput) -> Proper]
    BY <2>1, <2>2
  <2>4. QED
    BY <2>1, <2>3, IsASeq
<1>5. DiagnosesFirst(routput)
  BY <1>1, <1>3, LenProperties DEF WellFormed, DiagnosesFirst
<1>6. printed = Reports(routput)
  BY <1>2, <1>4, <1>5 DEF Reported, PrintingInv
<1>7. QED
  BY <1>2, <1>3, <1>6, TextWritten

\* MergingPlugin.cpp:157: whatever dlv writes, line by line and of any length, every
\* answer set and every diagnosis is printed once and in its order when each line
\* reports at most one and diagnoses come first; what is handed to dlvhex is the
\* constraint.
THEOREM SetsPrinted == SessionSpec => []AnswerSetsPrinted
<1>1. SessionInit => DlvInv
  BY DEF SessionInit, RewriterInit, DlvInv
<1>2. SessionInv /\ DlvInv /\ [SessionNext]_allVars => DlvInv'
  BY DlvInvKept
<1>3. SessionInv /\ DlvInv => AnswerSetsPrinted
  BY RunningPrinted
<1>4. QED
  BY <1>1, <1>2, <1>3, SessionInvariant, PTL DEF SessionSpec
-----------------------------------------------------------------------------
(***************************************************************************)
(* The search for operators. An operator that the search paths offer is    *)
(* behind when the search has left its path, or an entry on the way to it, *)
(* or has entered it: the names entered are at any time those of the       *)
(* operators behind, and each step puts at most one more of them behind.   *)
(***************************************************************************)

Stacks == Seq([path : Directories, left : SUBSET Paths])

\* The directories that are being scanned.
WayOf(S) == [k \in 1 .. Len(S) |-> S[k].path]

\* Where a library is found next, behind k directories of the way to it.
After(f, k) == IF k < Len(f.way) THEN f.way[k + 1] ELSE f.library

\* The way leads through the first k directories of the stack S,
Below(f, k, S) == k <= Len(f.way) /\ \A h \in 1 .. k : f.way[h] = S[h].path

\* and then to an entry that has been read, and that is not being looked at.
Passed(f, k, S, L) ==
  /\ Below(f, k, S)
  /\ After(f, k) \notin S[k].left
  /\ k < Len(S) => After(f, k) # S[k + 1].path
  /\ k = Len(S) /\ L.next # 0 => After(f, k) # L.path

\* The search below its search path is over for the operator: nothing is left, an
\* entry on its way has been read, or it is one of the first of the library.
Seen(o, S, L) ==
  \/ S = <<>> /\ L.next = 0
  \/ \E k \in 1 .. Len(S) : Passed(o[1], k, S, L)
  \/ L.next # 0 /\ o[1].library = L.path /\ o[1].way = WayOf(S) /\ o[2] < L.next

\* The operator has been looked at.
LookedAt(o, S, L, j) == o[1].root < j \/ (o[1].root = j /\ Seen(o, S, L))

\* A bound on how many directories lie below one another in a directory.
Rank == CHOOSE rank \in [Directories -> 1 .. Cardinality(Directories)] : Deepens(rank)

\* The stack S leads down from the search path j.
Descends(g, S, j) ==
  /\ \E T : g \in Seq(T)
  /\ S \in Stacks
  /\ j \in 0 .. Len(g)
  /\ S # <<>> => j > 0 /\ S[1].path = g[j]
  /\ \A k \in 1 .. Len(S) : Rank[S[k].path] + k <= Cardinality(Directories) + 1
  /\ \A k \in 1 .. Len(S) : S[k].left \subseteq Entries[S[k].path]
  /\ \A k \in 1 .. Len(S) : k + 1 <= Len(S) =>
       S[k + 1].path \in Entries[S[k].path] \cap SharedObjects /\ S[k + 1].path \notin S[k].left

\* The library L has been reached behind it.
Reached(g, S, L, j) ==
  /\ L \in [path : DOMAIN Libraries \ Directories, next : Nat \ {0}]
  /\ L.next <= Len(Libraries[L.path]) + 1
  /\ IF S = <<>> THEN j > 0 /\ L.path = g[j]
     ELSE /\ L.path \in Entries[S[Len(S)].path] \cap SharedObjects
          /\ L.path \notin S[Len(S)].left

OnWay(g, S, L, j) == Descends(g, S, j) /\ (L = NoLibrary \/ Reached(g, S, L, j))

\* The search paths.
LEMMA GivenTyped ==
  ASSUME NEW g, \E T : g \in Seq(T)
  PROVE  Len(g) \in Nat /\ DOMAIN g = 1 .. Len(g)
  BY LenProperties

LEMMA RankTyped ==
  /\ Cardinality(Directories) \in Nat
  /\ Rank \in [Directories -> 1 .. Cardinality(Directories)]
  /\ \A d \in Directories :
       \A e \in Entries[d] \cap SharedObjects \cap Directories : Rank[e] < Rank[d]
<1>1. Cardinality(Directories) \in Nat
  BY NoCycleAssumption, FS_CardinalityType
<1>2. \E rank \in [Directories -> 1 .. Cardinality(Directories)] : Deepens(rank)
  BY NoCycleAssumption
<1>3. Rank \in [Directories -> 1 .. Cardinality(Directories)] /\ Deepens(Rank)
  BY <1>2 DEF Rank
<1>4. QED
  BY <1>1, <1>3 DEF Deepens

LEMMA WayTyped ==
  ASSUME NEW w \in Ways
  PROVE  /\ Len(w) \in 0 .. Cardinality(Directories) /\ DOMAIN w = 1 .. Len(w)
         /\ \A k \in 1 .. Len(w) : w[k] \in Directories
         /\ \A k \in 1 .. Len(w) : k + 1 <= Len(w) => w[k + 1] \in Entries[w[k]] \cap SharedObjects
         /\ w = <<>> <=> Len(w) = 0
<1>1. PICK n \in 0 .. Cardinality(Directories) : w \in [1 .. n -> Directories]
  BY DEF Ways
<1>2. n \in Nat /\ w \in Seq(Directories)
  BY <1>1, RankTyped, SeqDef
<1>3. Len(w) = n /\ DOMAIN w = 1 .. n
  BY <1>1, <1>2, LenProperties
<1>4. \A k \in DOMAIN w : k + 1 \in DOMAIN w => w[k + 1] \in Entries[w[k]] \cap SharedObjects
  BY DEF Ways
<1>5. w = <<>> <=> n = 0
  BY <1>2, <1>3
<1>6. QED
  BY <1>1, <1>2, <1>3, <1>4, <1>5

\* What the stack holds.
LEMMA StackTyped ==
  ASSUME NEW g, NEW S, NEW j, Descends(g, S, j)
  PROVE  /\ Len(S) \in Nat /\ (Len(S) = 0 <=> S = <<>>) /\ DOMAIN S = 1 .. Len(S)
         /\ j \in Nat /\ j <= Len(g) /\ Len(g) \in Nat /\ DOMAIN g = 1 .. Len(g)
         /\ \A k \in 1 .. Len(S) :
              /\ S[k] \in [path : Directories, left : SUBSET Paths]
              /\ Rank[S[k].path] \in Nat /\ Rank[S[k].path] >= 1
         /\ Len(S) <= Cardinality(Directories)
<1>1. S \in Stacks /\ (\E T : g \in Seq(T)) /\ j \in 0 .. Len(g)
  BY DEF Descends
<1>2. Len(S) \in Nat /\ (Len(S) = 0 <=> S = <<>>) /\ DOMAIN S = 1 .. Len(S)
  BY <1>1, LenProperties, EmptySeq DEF Stacks
<1>3. j \in Nat /\ j <= Len(g) /\ Len(g) \in Nat /\ DOMAIN g = 1 .. Len(g)
  BY <1>1, GivenTyped
<1>4. \A k \in 1 .. Len(S) : S[k] \in [path : Directories, left : SUBSET Paths]
  BY <1>1, ElementOfSeq DEF Stacks
<1>5. \A d \in Directories : Rank[d] \in Nat /\ Rank[d] >= 1
  BY RankTyped
<1>6. \A k \in 1 .. Len(S) : Rank[S[k].path] \in Nat /\ Rank[S[k].path] >= 1
  BY <1>4, <1>5
<1>7. Len(S) <= Cardinality(Directories)
  <2>1. Len(S) # 0 => Len(S) \in 1 .. Len(S)
    BY <1>2
  <2>2. Len(S) # 0 => Rank[S[Len(S)].path] + Len(S) <= Cardinality(Directories) + 1
    BY <2>1 DEF Descends
  <2>3. QED
    BY <1>2, <1>6, <2>1, <2>2, RankTyped
<1>8. QED
  BY <1>2, <1>3, <1>4, <1>6, <1>7

\* What a find is.
LEMMA FindTyped ==
  ASSUME NEW g, NEW o \in Offers(g)
  PROVE  /\ o = <<o[1], o[2]>> /\ o[1] \in Finds(g)
         /\ o[1].root \in DOMAIN g /\ o[1].way \in Ways
         /\ o[1].library \in DOMAIN Libraries \ Directories
         /\ o[2] \in 1 .. Len(Libraries[o[1].library])
         /\ Len(o[1].way) = 0 => o[1].library = g[o[1].root]
         /\ Len(o[1].way) > 0 =>
              /\ o[1].way[1] = g[o[1].root]
              /\ o[1].library \in Entries[o[1].way[Len(o[1].way)]] \cap SharedObjects
<1>1. PICK f \in Finds(g) : \E i \in 1 .. Len(Libraries[f.library]) : o = <<f, i>>
  BY DEF Offers
<1>2. o = <<o[1], o[2]>> /\ o[1] = f /\ o[2] \in 1 .. Len(Libraries[f.library])
  BY <1>1
<1>3. /\ f.root \in DOMAIN g /\ f.way \in Ways /\ f.library \in DOMAIN Libraries \ Directories
      /\ IF f.way = <<>> THEN f.library = g[f.root]
         ELSE f.way[1] = g[f.root] /\ f.library \in Entries[f.way[Len(f.way)]] \cap SharedObjects
  BY DEF Finds
<1>4. f.way = <<>> <=> Len(f.way) = 0
  BY <1>3, WayTyped
<1>5. QED
  BY <1>1, <1>2, <1>3, <1>4

\* Where a find is after k directories.
LEMMA AfterEntry ==
  ASSUME NEW g, NEW o \in Offers(g), NEW k \in 1 .. Len(o[1].way)
  PROVE  /\ After(o[1], k) \in Entries[o[1].way[k]] \cap SharedObjects
         /\ o[1].way[k] \in Directories
         /\ k = Len(o[1].way) <=> After(o[1], k) \notin Directories
         /\ k = Len(o[1].way) => After(o[1], k) = o[1].library
         /\ k < Len(o[1].way) => After(o[1], k) = o[1].way[k + 1]
<1> DEFINE f == o[1]
           w == o[1].way
<1>1. /\ w \in Ways /\ f.library \in DOMAIN Libraries \ Directories
      /\ Len(w) > 0 => f.library \in Entries[w[Len(w)]] \cap SharedObjects
  BY FindTyped
<1>2. /\ Len(w) \in Nat
      /\ \A i \in 1 .. Len(w) : w[i] \in Directories
      /\ \A i \in 1 .. Len(w) : i + 1 <= Len(w) => w[i + 1] \in Entries[w[i]] \cap SharedObjects
  BY <1>1, WayTyped, RankTyped
<1>3. CASE k = Len(w)
  BY <1>1, <1>2, <1>3 DEF After
<1>4. CASE k < Len(w)
  BY <1>1, <1>2, <1>4 DEF After
<1>5. QED
  BY <1>2, <1>3, <1>4

\* The operator that is being entered is one that is found, and it has not been
\* looked at.
LEMMA EnteredIsOffered ==
  ASSUME NEW g, NEW S, NEW L, NEW j, OnWay(g, S, L, j), L # NoLibrary,
         L.next <= Len(Libraries[L.path])
  PROVE  LET cur == <<[root |-> j, way |-> WayOf(S), library |-> L.path], L.next>>
         IN  cur \in Offers(g) /\ NameOf(cur) = Libraries[L.path][L.next] /\ ~LookedAt(cur, S, L, j)
<1> DEFINE w == WayOf(S)
           f == [root |-> j, way |-> w, library |-> L.path]
           cur == <<f, L.next>>
           n == Len(S)
<1>1. /\ L \in [path : DOMAIN Libraries \ Directories, next : Nat \ {0}]
      /\ IF S = <<>> THEN j > 0 /\ L.path = g[j]
         ELSE L.path \in Entries[S[n].path] \cap SharedObjects
  BY DEF OnWay, Reached
<1>2. n \in Nat /\ (n = 0 <=> S = <<>>) /\ \A k \in 1 .. n : S[k].path \in Directories
  BY StackTyped DEF OnWay
<1>3. DOMAIN g = 1 .. Len(g) /\ Len(g) \in Nat /\ j \in Nat /\ j <= Len(g)
  BY StackTyped DEF OnWay
<1>4. j \in DOMAIN g
  BY <1>1, <1>2, <1>3 DEF OnWay, Descends
<1>5. n <= Cardinality(Directories)
  BY StackTyped DEF OnWay
<1>6. w \in [1 .. n -> Directories] /\ w \in Seq(Directories) /\ Len(w) = n /\ DOMAIN w = 1 .. n
      /\ \A k \in 1 .. n : w[k] = S[k].path
  BY <1>2, SeqDef, LenProperties DEF WayOf
<1>7. w \in Ways
  <2>1. \A k \in 1 .. n : k + 1 <= n => S[k + 1].path \in Entries[S[k].path] \cap SharedObjects
    BY DEF OnWay, Descends
  <2>2. \A k \in DOMAIN w : k + 1 \in DOMAIN w => w[k + 1] \in Entries[w[k]] \cap SharedObjects
    BY <1>2, <1>6, <2>1
  <2> HIDE DEF w, n
  <2>3. w \in UNION {[1 .. m -> Directories] : m \in 0 .. Cardinality(Directories)}
    BY <1>2, <1>5, <1>6, RankTyped
  <2>4. QED
    BY <2>2, <2>3 DEF Ways
<1>8. f \in Finds(g)
  <2> HIDE DEF w, n
  <2>1. f \in [root : DOMAIN g, way : Ways, library : DOMAIN Libraries \ Directories]
    BY <1>1, <1>4, <1>7
  <2>2. w = <<>> => f.library = g[f.root]
    <3>1. w = <<>> => n = 0
      BY <1>6
    <3>2. QED
      BY <1>1, <1>2, <3>1
  <2>3. w # <<>> => w[1] = g[j] /\ L.path \in Entries[w[Len(w)]] \cap SharedObjects
    <3>1. w # <<>> => n # 0
      BY <1>6
    <3>2. n # 0 => n \in 1 .. n /\ 1 \in 1 .. n
      BY <1>2
    <3>3. S # <<>> => S[1].path = g[j]
      BY DEF OnWay, Descends
    <3>4. QED
      BY <1>1, <1>2, <1>6, <3>1, <3>2, <3>3
  <2>4. QED
    BY <2>1, <2>2, <2>3 DEF Finds
<1>9. cur \in Offers(g)
  <2> HIDE DEF f
  <2>1. L.next \in 1 .. Len(Libraries[L.path]) /\ f.library = L.path
    <3>1. Libraries[L.path] \in Seq(STRING)
      BY <1>1, FileSystemAssumption
    <3>2. L.next \in Nat \ {0} /\ Len(Libraries[L.path]) \in Nat
      BY <1>1, <3>1
    <3>3. QED
      BY <3>2 DEF f
  <2>2. QED
    BY <1>8, <2>1 DEF Offers
<1>10. ASSUME LookedAt(cur, S, L, j)
       PROVE  FALSE
  <2> HIDE DEF w, n
  <2>1. ~(f.root < j) /\ ~(S = <<>> /\ L.next = 0) /\ ~(L.next < L.next)
    BY <1>1, <1>3
  <2>2. PICK k \in 1 .. n : Passed(f, k, S, L)
    BY <1>10, <2>1 DEF LookedAt, Seen, n
  <2>3. After(f, k) = IF k < n THEN S[k + 1].path ELSE L.path
    <3>1. k < n => k + 1 \in 1 .. n
      BY <1>2
    <3>2. QED
      BY <1>6, <3>1 DEF After
  <2>4. k < n \/ k = n
    BY <1>2
  <2>5. L.next # 0
    BY <1>1
  <2>6. QED
    BY <1>2, <2>2, <2>3, <2>4, <2>5 DEF Passed, n
<1>11. NameOf(cur) = Libraries[L.path][L.next]
  BY DEF NameOf
<1>12. QED
  BY <1>9, <1>10, <1>11

\* The stack after readdir.
LEMMA ReadTyped ==
  ASSUME NEW g, NEW S, NEW j, Descends(g, S, j), S # <<>>, NEW e
  PROVE  LET n == Len(S)
             T == Read(S, e)
         IN  /\ T \in Stacks /\ Len(T) = n /\ T # <<>>
             /\ \A k \in 1 .. n : T[k].path = S[k].path /\ T[k].left \subseteq S[k].left
             /\ \A k \in 1 .. n : k # n => T[k].left = S[k].left
             /\ T[n].left = S[n].left \ {e}
<1> DEFINE Scan == [path : Directories, left : SUBSET Paths]
           n == Len(S)
           T == Read(S, e)
<1>1. n \in Nat /\ n # 0 /\ \A k \in 1 .. n : S[k] \in Scan
  BY StackTyped
<1>2. n \in 1 .. n /\ S \in Seq(Scan)
  BY <1>1 DEF Descends, Stacks
<1>3. PICK s : s = [S[n] EXCEPT !.left = @ \ {e}]
  OBVIOUS
<1>4. s \in Scan /\ s.path = S[n].path /\ s.left = S[n].left \ {e}
  BY <1>1, <1>2, <1>3
<1>5. T = [S EXCEPT ![n] = s]
  BY <1>3 DEF Read
<1> HIDE DEF T, n, Scan
<1>6. T \in Seq(Scan) /\ Len(T) = n /\ \A k \in 1 .. n : T[k] = IF k = n THEN s ELSE S[k]
  BY <1>2, <1>4, <1>5, ExceptSeq DEF n
<1>7. T # <<>>
  BY <1>1, <1>6
<1>8. QED
  BY <1>4, <1>6, <1>7 DEF T, n, Scan, Stacks

LEMMA DescendsOn ==
  ASSUME NEW g, NEW S, NEW j, Descends(g, S, j), S # <<>>, NEW e
  PROVE  Descends(g, Read(S, e), j)
<1> DEFINE n == Len(S)
           T == Read(S, e)
<1>1. /\ T \in Stacks /\ Len(T) = n /\ n \in Nat /\ 1 \in 1 .. n
      /\ \A k \in 1 .. n : T[k].path = S[k].path /\ T[k].left \subseteq S[k].left
  <2>1. n \in Nat /\ n # 0
    BY StackTyped
  <2>2. QED
    BY <2>1, ReadTyped
<1> HIDE DEF T, n
<1>2. /\ \E G : g \in Seq(G)
      /\ j \in 0 .. Len(g) /\ j > 0 /\ S[1].path = g[j]
      /\ \A k \in 1 .. n : Rank[S[k].path] + k <= Cardinality(Directories) + 1
      /\ \A k \in 1 .. n : S[k].left \subseteq Entries[S[k].path]
      /\ \A k \in 1 .. n : k + 1 <= n =>
           S[k + 1].path \in Entries[S[k].path] \cap SharedObjects /\ S[k + 1].path \notin S[k].left
  BY DEF Descends, n
<1>3. \A k \in 1 .. n : k + 1 <= n => k + 1 \in 1 .. n
  BY <1>1
<1>4. \A k \in 1 .. n : k + 1 <= n =>
        T[k + 1].path \in Entries[T[k].path] \cap SharedObjects /\ T[k + 1].path \notin T[k].left
  BY <1>1, <1>2, <1>3
<1>5. T[1].path = g[j] /\ \A k \in 1 .. n : Rank[T[k].path] + k <= Cardinality(Directories) + 1
  BY <1>1, <1>2
<1>6. \A k \in 1 .. n : T[k].left \subseteq Entries[T[k].path]
  BY <1>1, <1>2
<1>7. Descends(g, T, j)
  BY <1>1, <1>2, <1>4, <1>5, <1>6 DEF Descends
<1>8. QED
  BY <1>7 DEF T

LEMMA DescendsDown ==
  ASSUME NEW g, NEW S, NEW j, Descends(g, S, j), NEW e \in Directories,
         IF S = <<>> THEN j > 0 /\ e = g[j]
         ELSE /\ e \in Entries[S[Len(S)].path] \cap SharedObjects
              /\ e \notin S[Len(S)].left
  PROVE  LET n == Len(S)
             T == Append(S, [path |-> e, left |-> Entries[e]])
         IN  /\ Descends(g, T, j) /\ Len(T) = n + 1
             /\ \A k \in 1 .. n : T[k] = S[k]
             /\ T[n + 1].path = e /\ T[n + 1].left = Entries[e]
<1> DEFINE Scan == [path : Directories, left : SUBSET Paths]
           n == Len(S)
           s == [path |-> e, left |-> Entries[e]]
           T == Append(S, s)
<1>1. /\ n \in Nat /\ (n = 0 <=> S = <<>>)
      /\ \A k \in 1 .. n : S[k] \in Scan /\ Rank[S[k].path] \in Nat
  BY StackTyped
<1>2. s \in Scan /\ s.path = e /\ s.left = Entries[e]
  BY FileSystemAssumption
<1>3. S \in Seq(Scan)
  BY DEF Descends, Stacks
<1> HIDE DEF s
<1>4. T \in Seq(Scan) /\ Len(T) = n + 1 /\ T[n + 1] = s /\ \A k \in 1 .. n : T[k] = S[k]
  BY <1>2, <1>3, AppendProperties
<1> HIDE DEF n, T, Scan
<1>5. /\ \E G : g \in Seq(G)
      /\ j \in 0 .. Len(g) /\ (n # 0 => j > 0 /\ S[1].path = g[j])
      /\ \A k \in 1 .. n : Rank[S[k].path] + k <= Cardinality(Directories) + 1
      /\ \A k \in 1 .. n : S[k].left \subseteq Entries[S[k].path]
      /\ \A k \in 1 .. n : k + 1 <= n =>
           S[k + 1].path \in Entries[S[k].path] \cap SharedObjects /\ S[k + 1].path \notin S[k].left
  BY <1>1 DEF Descends, n
<1>6. T # <<>> /\ j > 0 /\ T[1].path = g[j]
  <2>1. Len(T) # 0
    BY <1>1, <1>4
  <2>2. CASE n = 0
    <3>1. T[1] = s /\ S = <<>>
      BY <1>1, <1>4, <2>2
    <3>2. QED
      BY <1>2, <2>1, <2>2, <3>1
  <2>3. CASE n # 0
    <3>1. 1 \in 1 .. n
      BY <1>1, <2>3
    <3>2. QED
      BY <1>4, <1>5, <2>1, <2>3, <3>1
  <2>4. QED
    BY <2>2, <2>3
<1>7. Rank[e] + n + 1 <= Cardinality(Directories) + 1 /\ Rank[e] \in Nat
  <2>1. Rank[e] \in Nat /\ Rank[e] <= Cardinality(Directories) /\ Cardinality(Directories) \in Nat
    BY RankTyped
  <2>2. CASE n = 0
    BY <2>1, <2>2
  <2>3. CASE n # 0
    <3>1. n \in 1 .. n
      BY <1>1, <2>3
    <3>2. S[n].path \in Directories /\ e \in Entries[S[n].path] \cap SharedObjects \cap Directories
      BY <1>1, <2>3, <3>1 DEF n, Scan
    <3>3. Rank[e] < Rank[S[n].path]
      BY <3>2, RankTyped
    <3>4. Rank[S[n].path] + n <= Cardinality(Directories) + 1 /\ Rank[S[n].path] \in Nat
      BY <1>1, <1>5, <3>1
    <3>5. QED
      BY <1>1, <2>1, <3>3, <3>4
  <2>4. QED
    BY <2>2, <2>3
<1>8. \A k \in 1 .. n + 1 : Rank[T[k].path] + k <= Cardinality(Directories) + 1
  <2>1. TAKE k \in 1 .. n + 1
  <2>2. CASE k \in 1 .. n
    BY <1>4, <1>5, <2>2
  <2>3. CASE k = n + 1
    <3>1. T[k].path = e
      BY <1>2, <1>4, <2>3
    <3>2. QED
      BY <1>1, <1>7, <2>3, <3>1, RankTyped
  <2>4. QED
    BY <1>1, <2>2, <2>3
<1>9. \A k \in 1 .. n + 1 : k + 1 <= n + 1 =>
        T[k + 1].path \in Entries[T[k].path] \cap SharedObjects /\ T[k + 1].path \notin T[k].left
  <2>1. SUFFICES ASSUME NEW k \in 1 .. n + 1, k + 1 <= n + 1
                 PROVE  T[k + 1].path \in Entries[T[k].path] \cap SharedObjects
                        /\ T[k + 1].path \notin T[k].left
    OBVIOUS
  <2>2. k \in 1 .. n /\ T[k] = S[k]
    BY <1>1, <1>4, <2>1
  <2>3. CASE k + 1 <= n
    <3>1. k + 1 \in 1 .. n /\ T[k + 1] = S[k + 1]
      BY <1>1, <1>4, <2>2, <2>3
    <3>2. QED
      BY <1>5, <2>2, <2>3, <3>1
  <2>4. CASE k = n
    <3>1. T[k + 1].path = e /\ n # 0
      BY <1>1, <1>2, <1>4, <2>2, <2>4
    <3>2. e \in Entries[S[n].path] \cap SharedObjects /\ e \notin S[n].left
      BY <1>1, <3>1 DEF n
    <3>3. QED
      BY <2>2, <2>4, <3>1, <3>2
  <2>5. QED
    BY <1>1, <2>2, <2>3, <2>4
<1>10. \A k \in 1 .. n + 1 : T[k].left \subseteq Entries[T[k].path]
  <2>1. \A k \in 1 .. n + 1 : k \in 1 .. n \/ k = n + 1
    BY <1>1
  <2>2. QED
    BY <1>2, <1>4, <1>5, <2>1
<1>11. Descends(g, T, j)
  <2>1. T \in Stacks
    BY <1>4 DEF Stacks, Scan
  <2>2. QED
    BY <1>4, <1>5, <1>6, <1>8, <1>9, <1>10, <2>1 DEF Descends
<1>12. QED
  BY <1>2, <1>4, <1>11 DEF n, T, s

LEMMA DescendsUp ==
  ASSUME NEW g, NEW S, NEW j, Descends(g, S, j), S # <<>>
  PROVE  LET n == Len(S)
             T == SubSeq(S, 1, n - 1)
         IN  /\ Descends(g, T, j) /\ Len(T) = n - 1
             /\ \A k \in 1 .. n - 1 : T[k] = S[k]
<1> DEFINE Scan == [path : Directories, left : SUBSET Paths]
           n == Len(S)
           T == SubSeq(S, 1, n - 1)
<1>1. n \in Nat /\ n # 0 /\ \A k \in 1 .. n : S[k] \in Scan
  BY StackTyped
<1>2. \A k \in 1 .. n - 1 : k \in 1 .. n
  BY <1>1
<1>3. S \in Seq(Scan) /\ \A k \in 1 .. n - 1 : S[k] \in Scan
  BY <1>1, <1>2 DEF Descends, Stacks
<1> HIDE DEF n, Scan
<1>4. T \in Seq(Scan) /\ Len(T) = n - 1 /\ \A k \in 1 .. n - 1 : T[k] = S[k]
  <2>1. 1 \in Int /\ n - 1 \in Int /\ n - 1 - 1 + 1 = n - 1
    BY <1>1
  <2>2. /\ T \in Seq(Scan)
        /\ Len(T) = IF 1 <= n - 1 THEN n - 1 - 1 + 1 ELSE 0
        /\ \A k \in 1 .. n - 1 - 1 + 1 : T[k] = S[1 + k - 1]
    BY <1>3, <2>1, SubSeqProperties
  <2>3. \A k \in 1 .. n - 1 : 1 + k - 1 = k
    BY <1>1
  <2> HIDE DEF T
  <2>4. Len(T) = n - 1
    BY <1>1, <2>2
  <2>5. QED
    BY <2>1, <2>2, <2>3, <2>4
<1> HIDE DEF T
<1>5. /\ \E G : g \in Seq(G)
      /\ j \in 0 .. Len(g) /\ j > 0 /\ S[1].path = g[j]
      /\ \A k \in 1 .. n : Rank[S[k].path] + k <= Cardinality(Directories) + 1
      /\ \A k \in 1 .. n : S[k].left \subseteq Entries[S[k].path]
      /\ \A k \in 1 .. n : k + 1 <= n =>
           S[k + 1].path \in Entries[S[k].path] \cap SharedObjects /\ S[k + 1].path \notin S[k].left
  BY DEF Descends, n
<1>6. T # <<>> => T[1].path = g[j]
  <2>1. T # <<>> => n - 1 # 0
    BY <1>1, <1>4
  <2>2. n - 1 # 0 => 1 \in 1 .. n - 1
    BY <1>1
  <2>3. QED
    BY <1>4, <1>5, <2>1, <2>2
<1>7. \A k \in 1 .. n - 1 : /\ Rank[T[k].path] + k <= Cardinality(Directories) + 1
                            /\ T[k].left \subseteq Entries[T[k].path]
  BY <1>2, <1>4, <1>5
<1>8. \A k \in 1 .. n - 1 : k + 1 <= n - 1 =>
        T[k + 1].path \in Entries[T[k].path] \cap SharedObjects /\ T[k + 1].path \notin T[k].left
  <2>1. \A k \in 1 .. n - 1 : k + 1 <= n - 1 => k + 1 \in 1 .. n - 1 /\ k + 1 <= n
    BY <1>1
  <2>2. QED
    BY <1>2, <1>4, <1>5, <2>1
<1>9. Descends(g, T, j)
  <2>1. T \in Stacks
    BY <1>4 DEF Stacks, Scan
  <2>2. QED
    BY <1>4, <1>5, <1>6, <1>7, <1>8, <2>1 DEF Descends
<1>10. QED
  BY <1>4, <1>9 DEF n, T

\* Of a directory that has just been opened nothing has been read.
LEMMA NotPassedYet ==
  ASSUME NEW g, NEW o \in Offers(g), NEW S, NEW L, NEW k \in Nat \ {0},
         S[k].left = Entries[S[k].path]
  PROVE  ~Passed(o[1], k, S, L)
<1>1. SUFFICES ASSUME Passed(o[1], k, S, L) PROVE FALSE
  OBVIOUS
<1>2. k \in 1 .. Len(o[1].way) /\ o[1].way[k] = S[k].path /\ After(o[1], k) \notin S[k].left
  <2>1. o[1].way \in Ways
    BY FindTyped
  <2>2. Len(o[1].way) \in Nat
    BY <2>1, WayTyped, RankTyped
  <2>3. k \in 1 .. k
    OBVIOUS
  <2>4. QED
    BY <1>1, <2>2, <2>3 DEF Passed, Below
<1>3. After(o[1], k) \in Entries[o[1].way[k]]
  BY <1>2, AfterEntry
<1>4. QED
  BY <1>2, <1>3

\* Only the top of the stack, and what is being looked at there, makes a difference.
LEMMA PassedAlike ==
  ASSUME NEW f, NEW k \in Nat, NEW S, NEW L, NEW T, NEW M, Len(S) \in Nat, Len(T) \in Nat,
         k < Len(S), k < Len(T), S[k].left = T[k].left,
         \A h \in 1 .. k + 1 : S[h].path = T[h].path
  PROVE  Passed(f, k, S, L) <=> Passed(f, k, T, M)
<1>1. \A h \in 1 .. k : S[h].path = T[h].path
  OBVIOUS
<1>2. Below(f, k, S) <=> Below(f, k, T)
  BY <1>1 DEF Below
<1>3. S[k + 1].path = T[k + 1].path
  OBVIOUS
<1>4. QED
  BY <1>2, <1>3 DEF Passed

\* readdir has delivered the entry e in the topmost directory of the stack S: then
\* it is looked at, if a way leads to it.
EntryRead(S, e, T, M) ==
  LET n == Len(S) IN
  /\ Len(T) \in {n, n + 1} /\ T # <<>>
  /\ \A h \in 1 .. n : T[h].path = S[h].path
  /\ \A h \in 1 .. n : h # n => T[h].left = S[h].left
  /\ T[n].left = S[n].left \ {e}
  /\ \/ /\ Len(T) = n /\ M = NoLibrary
        /\ e \in SharedObjects => e \notin Directories \cup DOMAIN Libraries
     \/ Len(T) = n /\ M = [path |-> e, next |-> 1]
     \/ Len(T) = n + 1 /\ T[n + 1].path = e /\ T[n + 1].left = Entries[e] /\ M = NoLibrary

LEMMA PassedRead ==
  ASSUME NEW g, NEW o \in Offers(g), NEW S, NEW j, Descends(g, S, j), S # <<>>,
         NEW e \in S[Len(S)].left, NEW T, NEW M, EntryRead(S, e, T, M)
  PROVE  Passed(o[1], Len(S), S, NoLibrary) <=> Passed(o[1], Len(S), T, M)
<1> DEFINE n == Len(S)
           f == o[1]
           a == After(f, n)
<1>1. n \in Nat /\ n # 0 /\ n \in 1 .. n
  <2>1. n \in Nat /\ (n = 0 <=> S = <<>>)
    BY StackTyped
  <2>2. QED
    BY <2>1
<1>2. Below(f, n, S) <=> Below(f, n, T)
  BY DEF Below, EntryRead
<1>3. Below(f, n, S) => a \in SharedObjects /\ a \in Directories \cup DOMAIN Libraries
  <2>1. SUFFICES ASSUME Below(f, n, S)
                 PROVE  a \in SharedObjects /\ a \in Directories \cup DOMAIN Libraries
    OBVIOUS
  <2>2. f.way \in Ways /\ f.library \in DOMAIN Libraries
    BY FindTyped
  <2>3. Len(f.way) \in Nat /\ \A h \in 1 .. Len(f.way) : f.way[h] \in Directories
    BY <2>2, WayTyped, RankTyped
  <2>4. n \in 1 .. Len(f.way)
    BY <1>1, <2>1, <2>3 DEF Below
  <2>5. /\ a \in Entries[f.way[n]] \cap SharedObjects
        /\ n = Len(f.way) => a = f.library
        /\ n < Len(f.way) => a = f.way[n + 1]
    BY <2>4, AfterEntry
  <2>6. n < Len(f.way) => n + 1 \in 1 .. Len(f.way)
    BY <1>1, <2>3
  <2>7. n < Len(f.way) \/ n = Len(f.way)
    BY <2>3, <2>4
  <2>8. QED
    BY <2>2, <2>3, <2>5, <2>6, <2>7
<1> SUFFICES Passed(f, n, S, NoLibrary) <=> Passed(f, n, T, M)
  OBVIOUS
<1> HIDE DEF a, n
<1>4. Passed(f, n, S, NoLibrary) <=> Below(f, n, S) /\ a \notin S[n].left
  BY <1>1 DEF Passed, NoLibrary, a, n
<1>5. Passed(f, n, T, M) <=>
        /\ Below(f, n, T) /\ a \notin S[n].left \ {e}
        /\ n < Len(T) => a # T[n + 1].path
        /\ n = Len(T) /\ M.next # 0 => a # M.path
  BY DEF Passed, EntryRead, a, n
<1>6. n < Len(T) <=> Len(T) = n + 1
  BY <1>1 DEF EntryRead, n
<1>7. e \in S[n].left /\ NoLibrary.next = 0
  BY DEF n, NoLibrary
<1>8. CASE Len(T) = n /\ M = NoLibrary
         /\ (e \in SharedObjects => e \notin Directories \cup DOMAIN Libraries)
  BY <1>1, <1>2, <1>3, <1>4, <1>5, <1>6, <1>7, <1>8
<1>9. CASE Len(T) = n /\ M = [path |-> e, next |-> 1]
  BY <1>1, <1>2, <1>4, <1>5, <1>6, <1>7, <1>9
<1>10. CASE Len(T) = n + 1 /\ T[n + 1].path = e /\ M = NoLibrary
  BY <1>1, <1>2, <1>4, <1>5, <1>6, <1>7, <1>10
<1>11. QED
  BY <1>8, <1>9, <1>10 DEF EntryRead, n

LEMMA SeenRead ==
  ASSUME NEW g, NEW o \in Offers(g), NEW S, NEW j, Descends(g, S, j), S # <<>>,
         NEW e \in S[Len(S)].left, NEW T, NEW M, EntryRead(S, e, T, M)
  PROVE  Seen(o, S, NoLibrary) <=> Seen(o, T, M)
<1> DEFINE n == Len(S)
           f == o[1]
<1>1. n \in Nat /\ n # 0 /\ n \in 1 .. n /\ NoLibrary.next = 0
  <2>1. n \in Nat /\ (n = 0 <=> S = <<>>)
    BY StackTyped
  <2>2. QED
    BY <2>1 DEF NoLibrary
<1>2. Passed(f, n, S, NoLibrary) <=> Passed(f, n, T, M)
  BY PassedRead
<1>3. \A k \in 1 .. n : k # n => (Passed(f, k, S, NoLibrary) <=> Passed(f, k, T, M))
  <2>1. SUFFICES ASSUME NEW k \in 1 .. n, k # n
                 PROVE  Passed(f, k, S, NoLibrary) <=> Passed(f, k, T, M)
    OBVIOUS
  <2>2. k \in Nat /\ k < n /\ \A h \in 1 .. k + 1 : h \in 1 .. n
    BY <1>1, <2>1
  <2>3. Len(T) \in Nat /\ k < Len(T)
    BY <1>1, <2>2 DEF EntryRead
  <2>4. S[k].left = T[k].left /\ \A h \in 1 .. k + 1 : S[h].path = T[h].path
    BY <2>1, <2>2 DEF EntryRead
  <2>5. QED
    BY <1>1, <2>2, <2>3, <2>4, PassedAlike
<1>4. Len(T) = n + 1 => ~Passed(f, n + 1, T, M)
  <2>1. n + 1 \in Nat \ {0}
    BY <1>1
  <2>2. Len(T) = n + 1 => T[n + 1].left = Entries[T[n + 1].path]
    BY <1>1 DEF EntryRead
  <2>3. QED
    BY <2>1, <2>2, NotPassedYet
<1>5. ~(M.next # 0 /\ f.library = M.path /\ f.way = WayOf(T) /\ o[2] < M.next)
  <2>1. o[1].library \in DOMAIN Libraries /\ o[2] \in 1 .. Len(Libraries[o[1].library])
    BY FindTyped
  <2>2. Len(Libraries[o[1].library]) \in Nat
    BY <2>1, FileSystemAssumption, LenProperties
  <2>3. ~(o[2] < 1)
    BY <2>1, <2>2
  <2>4. M.next = 0 \/ M.next = 1
    BY <1>1 DEF EntryRead
  <2>5. QED
    BY <2>3, <2>4
<1> HIDE DEF n, f
<1>6. Seen(o, S, NoLibrary) <=> \E k \in 1 .. n : Passed(f, k, S, NoLibrary)
  BY <1>1 DEF Seen, f, n
<1>7. Seen(o, T, M) <=> \E k \in 1 .. Len(T) : Passed(f, k, T, M)
  BY <1>5 DEF Seen, EntryRead, f
<1>8. (\E k \in 1 .. Len(T) : Passed(f, k, T, M)) <=> \E k \in 1 .. n : Passed(f, k, T, M)
  <2>1. CASE Len(T) = n
    BY <2>1
  <2>2. CASE Len(T) = n + 1
    <3>1. \A k : k \in 1 .. Len(T) <=> k \in 1 .. n \/ k = n + 1
      BY <1>1, <2>2
    <3>2. ~Passed(f, n + 1, T, M)
      BY <1>4, <2>2
    <3>3. QED
      BY <3>1, <3>2
  <2>3. QED
    BY <2>1, <2>2 DEF EntryRead, n
<1>9. \A k \in 1 .. n : Passed(f, k, S, NoLibrary) <=> Passed(f, k, T, M)
  BY <1>2, <1>3
<1>10. QED
  BY <1>6, <1>7, <1>8, <1>9

\* Behind closedir, the whole directory is behind.
LEMMA SeenUp ==
  ASSUME NEW g, NEW S, NEW j, Descends(g, S, j), S # <<>>, S[Len(S)].left = {},
         NEW o \in Offers(g), o[1].root = j
  PROVE  Seen(o, S, NoLibrary) <=> Seen(o, SubSeq(S, 1, Len(S) - 1), NoLibrary)
<1> DEFINE n == Len(S)
           f == o[1]
           w == o[1].way
           T == SubSeq(S, 1, n - 1)
<1>1. n \in Nat /\ n # 0 /\ n \in 1 .. n /\ NoLibrary.next = 0
      /\ \A k \in 1 .. n : S[k].path \in Directories
  <2>1. n \in Nat /\ (n = 0 <=> S = <<>>)
    BY StackTyped
  <2>2. \A k \in 1 .. n : S[k].path \in Directories
    BY StackTyped
  <2>3. QED
    BY <2>1, <2>2 DEF NoLibrary
<1>2. Len(T) = n - 1 /\ (\A k \in 1 .. n - 1 : T[k] = S[k]) /\ (T = <<>> <=> n = 1)
  <2>1. Descends(g, T, j) /\ Len(T) = n - 1 /\ \A k \in 1 .. n - 1 : T[k] = S[k]
    BY DescendsUp
  <2> HIDE DEF T, n
  <2>2. Descends(g, T, j)
    BY <2>1
  <2>3. T = <<>> <=> Len(T) = 0
    BY <2>2, StackTyped
  <2>4. QED
    BY <1>1, <2>1, <2>3
<1>3. /\ w \in Ways /\ f.library \in DOMAIN Libraries \ Directories
      /\ Len(w) = 0 => f.library = g[j]
      /\ Len(w) > 0 => w[1] = g[j]
  BY FindTyped
<1>4. Len(w) \in Nat
  BY <1>3, WayTyped, RankTyped
<1> HIDE DEF n, w, f, T
<1>5. Passed(f, n, S, NoLibrary) <=> Below(f, n, S)
  BY <1>1 DEF Passed, n
<1>6. Seen(o, S, NoLibrary) <=> \E k \in 1 .. n : Passed(f, k, S, NoLibrary)
  BY <1>1 DEF Seen, f, n
<1>7. CASE n = 1
  <2>1. Seen(o, T, NoLibrary)
    BY <1>1, <1>2, <1>7 DEF Seen
  <2>2. S[1].path = g[j]
    BY DEF Descends
  <2>3. Len(w) > 0 /\ w[1] = S[1].path
    BY <1>1, <1>3, <1>4, <1>7, <2>2
  <2>4. Below(f, n, S)
    BY <1>4, <1>7, <2>3 DEF Below, w, f
  <2>5. QED
    BY <1>1, <1>5, <1>6, <2>1, <2>4 DEF n, T
<1>8. CASE n # 1
  <2>1. n - 1 \in Nat \ {0} /\ n - 1 \in 1 .. n - 1 /\ n - 1 \in 1 .. n /\ n - 1 < n
    BY <1>1, <1>8
  <2>2. Seen(o, T, NoLibrary) <=> \E k \in 1 .. n - 1 : Passed(f, k, T, NoLibrary)
    BY <1>1, <1>2, <1>8 DEF Seen, f
  <2>3. \A k \in 1 .. n - 1 :
          k # n - 1 => (Passed(f, k, S, NoLibrary) <=> Passed(f, k, T, NoLibrary))
    <3>1. SUFFICES ASSUME NEW k \in 1 .. n - 1, k # n - 1
                   PROVE  Passed(f, k, S, NoLibrary) <=> Passed(f, k, T, NoLibrary)
      OBVIOUS
    <3>2. /\ k \in Nat /\ k < n /\ k < Len(T) /\ Len(T) \in Nat
          /\ \A h \in 1 .. k + 1 : h \in 1 .. n - 1
      BY <1>1, <1>2, <2>1, <3>1
    <3>3. S[k].left = T[k].left /\ \A h \in 1 .. k + 1 : S[h].path = T[h].path
      BY <1>2, <3>2
    <3>4. Len(S) \in Nat /\ k < Len(S)
      BY <1>1, <3>2 DEF n
    <3>5. QED
      BY <3>2, <3>3, <3>4, PassedAlike
  <2>4. Passed(f, n - 1, T, NoLibrary) <=>
          Below(f, n - 1, S) /\ After(f, n - 1) \notin S[n - 1].left
    <3>1. Below(f, n - 1, T) <=> Below(f, n - 1, S)
      BY <1>2 DEF Below
    <3>2. T[n - 1] = S[n - 1] /\ ~(n - 1 < Len(T))
      BY <1>2, <2>1
    <3>3. QED
      BY <1>1, <3>1, <3>2 DEF Passed
  <2>5. Passed(f, n - 1, S, NoLibrary) <=>
          Below(f, n - 1, S) /\ After(f, n - 1) \notin S[n - 1].left /\ After(f, n - 1) # S[n].path
    <3>1. n - 1 < Len(S) /\ n - 1 # Len(S) /\ n - 1 + 1 = n
      BY <2>1 DEF n
    <3>2. QED
      BY <3>1 DEF Passed
  <2>6. S[n].path \notin S[n - 1].left /\ S[n].path \in Directories
    <3>1. n - 1 \in 1 .. Len(S) /\ n - 1 + 1 <= Len(S) /\ n - 1 + 1 = n
      BY <1>1, <2>1 DEF n
    <3>2. S[n - 1 + 1].path \notin S[n - 1].left
      BY <3>1 DEF Descends
    <3>3. QED
      BY <1>1, <3>1, <3>2
  <2>7. Below(f, n, S) => Below(f, n - 1, S) /\ After(f, n - 1) = S[n].path
    <3>1. ASSUME Below(f, n, S)
          PROVE  Below(f, n - 1, S) /\ After(f, n - 1) = S[n].path
      <4>1. n <= Len(w) /\ \A h \in 1 .. n : w[h] = S[h].path
        BY <3>1 DEF Below, w, f
      <4>2. n - 1 < Len(w) /\ n - 1 <= Len(w) /\ n - 1 + 1 = n
        BY <1>1, <1>4, <4>1
      <4>3. After(f, n - 1) = w[n]
        BY <4>2 DEF After, w, f
      <4>4. \A h \in 1 .. n - 1 : h \in 1 .. n
        BY <1>1
      <4>5. QED
        BY <1>1, <4>1, <4>2, <4>3, <4>4 DEF Below, w, f
    <3>2. QED
      BY <3>1
  <2>8. Below(f, n - 1, S) /\ After(f, n - 1) = S[n].path => Below(f, n, S)
    <3>1. ASSUME Below(f, n - 1, S), After(f, n - 1) = S[n].path
          PROVE  Below(f, n, S)
      <4>1. n - 1 <= Len(w) /\ \A h \in 1 .. n - 1 : w[h] = S[h].path
        BY <3>1 DEF Below, w, f
      <4>2. n - 1 < Len(w)
        BY <1>3, <2>6, <3>1 DEF After, w, f
      <4>3. n <= Len(w) /\ w[n] = S[n].path
        BY <1>1, <1>4, <3>1, <4>2 DEF After, w, f
      <4>4. \A h \in 1 .. n : h \in 1 .. n - 1 \/ h = n
        BY <1>1
      <4>5. QED
        BY <4>1, <4>3, <4>4 DEF Below, w, f
    <3>2. QED
      BY <3>1
  <2>9. Passed(f, n - 1, T, NoLibrary) <=>
          Passed(f, n - 1, S, NoLibrary) \/ Passed(f, n, S, NoLibrary)
    BY <1>5, <2>4, <2>5, <2>6, <2>7, <2>8
  <2>10. \A k : k \in 1 .. n <=> k \in 1 .. n - 1 \/ k = n
    BY <1>1
  <2>11. (\E k \in 1 .. n - 1 : Passed(f, k, T, NoLibrary)) <=>
           \E k \in 1 .. n : Passed(f, k, S, NoLibrary)
    BY <2>1, <2>3, <2>9, <2>10
  <2>12. QED
    BY <1>6, <2>2, <2>11 DEF n, T
<1>9. QED
  BY <1>7, <1>8

\* When all its operators are entered, a library is behind.
LEMMA SeenLibrary ==
  ASSUME NEW g, NEW S, NEW j, Descends(g, S, j), NEW L, Reached(g, S, L, j),
         L.next > Len(Libraries[L.path]),
         NEW o \in Offers(g), o[1].root = j
  PROVE  Seen(o, S, L) <=> Seen(o, S, NoLibrary)
<1> DEFINE n == Len(S)
           f == o[1]
           w == o[1].way
<1>1. n \in Nat /\ (n = 0 <=> S = <<>>) /\ NoLibrary.next = 0
      /\ \A k \in 1 .. n : S[k].path \in Directories
  <2>1. n \in Nat /\ (n = 0 <=> S = <<>>) /\ \A k \in 1 .. n : S[k].path \in Directories
    BY StackTyped
  <2>2. QED
    BY <2>1 DEF NoLibrary
<1>2. /\ L.path \in DOMAIN Libraries \ Directories /\ L.next \in Nat \ {0}
      /\ IF S = <<>> THEN L.path = g[j] ELSE L.path \notin S[n].left
  BY DEF Reached
<1>3. /\ w \in Ways /\ f.library \in DOMAIN Libraries \ Directories
      /\ o[2] \in 1 .. Len(Libraries[f.library])
      /\ Len(w) = 0 => f.library = g[j]
      /\ Len(w) > 0 => w[1] = g[j]
  BY FindTyped
<1>4. /\ Len(w) \in Nat /\ (w = <<>> <=> Len(w) = 0)
      /\ \A k \in 1 .. Len(w) : w[k] \in Directories
      /\ w = [k \in 1 .. Len(w) |-> w[k]]
  <2>1. /\ Len(w) \in Nat /\ (w = <<>> <=> Len(w) = 0) /\ DOMAIN w = 1 .. Len(w)
        /\ \A k \in 1 .. Len(w) : w[k] \in Directories
    BY <1>3, WayTyped, RankTyped
  <2>2. w = [k \in DOMAIN w |-> w[k]]
    BY <1>3 DEF Ways
  <2>3. QED
    BY <2>1, <2>2
<1>5. f.library = L.path => o[2] < L.next
  <2>1. Len(Libraries[f.library]) \in Nat
    BY <1>3, FileSystemAssumption, LenProperties
  <2>2. QED
    BY <1>2, <1>3, <2>1
<1>6. WayOf(S) = [k \in 1 .. n |-> S[k].path]
  BY DEF WayOf
<1> HIDE DEF n, w, f
<1>7. f.library = L.path /\ w = WayOf(S) <=>
        IF n = 0 THEN TRUE ELSE Below(f, n, S) /\ After(f, n) = L.path
  <2>1. CASE n = 0
    <3>1. L.path = g[j] /\ L.path \notin Directories
      BY <1>1, <1>2, <2>1
    <3>2. Len(w) = 0
      <4>1. Len(w) > 0 => w[1] \in Directories
        BY <1>4
      <4>2. QED
        BY <1>3, <1>4, <3>1, <4>1
    <3>3. w = WayOf(S)
      BY <1>4, <1>6, <2>1, <3>2
    <3>4. QED
      BY <1>3, <2>1, <3>1, <3>2, <3>3
  <2>2. CASE n # 0
    <3>1. ASSUME f.library = L.path, w = WayOf(S)
          PROVE  Below(f, n, S) /\ After(f, n) = L.path
      <4>1. Len(w) = n /\ \A k \in 1 .. n : w[k] = S[k].path
        <5>1. w = [k \in 1 .. n |-> S[k].path]
          BY <1>6, <3>1
        <5>2. DOMAIN w = 1 .. Len(w)
          BY <1>4
        <5>3. DOMAIN w = 1 .. n
          BY <5>1
        <5>4. 1 .. Len(w) = 1 .. n
          BY <5>2, <5>3
        <5>5. Len(w) = n
          BY <1>1, <1>4, <5>4
        <5>6. QED
          BY <5>1, <5>5
      <4>2. QED
        BY <1>1, <3>1, <4>1 DEF Below, After, w, f
    <3>2. ASSUME Below(f, n, S), After(f, n) = L.path
          PROVE  f.library = L.path /\ w = WayOf(S)
      <4>1. n <= Len(w) /\ \A k \in 1 .. n : w[k] = S[k].path
        BY <3>2 DEF Below, w, f
      <4>2. n < Len(w) => n + 1 \in 1 .. Len(w) /\ After(f, n) = w[n + 1]
        BY <1>1, <1>4 DEF After, w, f
      <4>3. n = Len(w)
        BY <1>1, <1>2, <1>4, <3>2, <4>1, <4>2
      <4>4. After(f, n) = f.library
        BY <1>1, <4>3 DEF After, w, f
      <4>5. w = [k \in 1 .. n |-> w[k]]
        BY <1>4, <4>3
      <4>6. w = [k \in 1 .. n |-> S[k].path]
        BY <4>1, <4>5
      <4>7. QED
        BY <1>6, <3>2, <4>4, <4>6
    <3>3. QED
      BY <2>2, <3>1, <3>2
  <2>3. QED
    BY <2>1, <2>2
<1>8. \A k \in 1 .. n : k # n => (Passed(f, k, S, L) <=> Passed(f, k, S, NoLibrary))
  BY DEF Passed, n
<1>9. n # 0 =>
        /\ Passed(f, n, S, L) <=>
             Below(f, n, S) /\ After(f, n) \notin S[n].left /\ After(f, n) # L.path
        /\ Passed(f, n, S, NoLibrary) <=> Below(f, n, S) /\ After(f, n) \notin S[n].left
  BY <1>1, <1>2 DEF Passed, n
<1>10. Seen(o, S, L) <=>
         (\E k \in 1 .. n : Passed(f, k, S, L)) \/ (f.library = L.path /\ w = WayOf(S))
  BY <1>2, <1>5 DEF Seen, n, w, f
<1>11. Seen(o, S, NoLibrary) <=> n = 0 \/ \E k \in 1 .. n : Passed(f, k, S, NoLibrary)
  BY <1>1 DEF Seen, n, f
<1>12. CASE n = 0
  BY <1>7, <1>10, <1>11, <1>12
<1>13. CASE n # 0
  <2>1. n \in 1 .. n /\ L.path \notin S[n].left
    BY <1>1, <1>2, <1>13
  <2>2. Passed(f, n, S, NoLibrary) <=>
          Passed(f, n, S, L) \/ (f.library = L.path /\ w = WayOf(S))
    BY <1>7, <1>9, <1>13, <2>1
  <2>3. (\E k \in 1 .. n : Passed(f, k, S, NoLibrary)) <=>
          (\E k \in 1 .. n : Passed(f, k, S, L)) \/ (f.library = L.path /\ w = WayOf(S))
    BY <1>8, <2>1, <2>2
  <2>4. QED
    BY <1>10, <1>11, <1>13, <2>3
<1>14. QED
  BY <1>12, <1>13

\* An operator that is entered is the only one that comes to be behind.
LEMMA SeenEntered ==
  ASSUME NEW g, NEW S, NEW j, NEW L, Descends(g, S, j), Reached(g, S, L, j),
         NEW o \in Offers(g), o[1].root = j
  PROVE  Seen(o, S, [path |-> L.path, next |-> L.next + 1]) <=>
           \/ Seen(o, S, L)
           \/ o = <<[root |-> j, way |-> WayOf(S), library |-> L.path], L.next>>
<1> DEFINE f == o[1]
           M == [path |-> L.path, next |-> L.next + 1]
<1>1. L.next \in Nat /\ L.next # 0 /\ L.next + 1 # 0
  BY DEF Reached
<1>2. /\ o = <<f, o[2]>> /\ o[2] \in Nat
      /\ f \in [root : DOMAIN g, way : Ways, library : DOMAIN Libraries \ Directories]
  <2>1. o = <<f, o[2]>> /\ f \in Finds(g) /\ f.library \in DOMAIN Libraries
        /\ o[2] \in 1 .. Len(Libraries[f.library])
    BY FindTyped
  <2>2. Len(Libraries[f.library]) \in Nat
    BY <2>1, FileSystemAssumption, LenProperties
  <2>3. QED
    BY <2>1, <2>2 DEF Finds
<1>3. \A k : Passed(f, k, S, M) <=> Passed(f, k, S, L)
  BY <1>1 DEF Passed
<1>4. o[2] < L.next + 1 <=> o[2] < L.next \/ o[2] = L.next
  BY <1>1, <1>2
<1>5. o = <<[root |-> j, way |-> WayOf(S), library |-> L.path], L.next>> <=>
        f.library = L.path /\ f.way = WayOf(S) /\ o[2] = L.next
  <2>1. f = [root |-> f.root, way |-> f.way, library |-> f.library]
    BY <1>2
  <2>2. f.library = L.path /\ f.way = WayOf(S) /\ o[2] = L.next =>
          o = <<[root |-> j, way |-> WayOf(S), library |-> L.path], L.next>>
    BY <1>2, <2>1
  <2>3. QED
    BY <2>2
<1>6. M.path = L.path /\ M.next = L.next + 1
  OBVIOUS
<1> HIDE DEF M
<1>7. Seen(o, S, M) <=>
        (\E k \in 1 .. Len(S) : Passed(f, k, S, M))
        \/ (f.library = L.path /\ f.way = WayOf(S) /\ o[2] < L.next + 1)
  BY <1>1, <1>6 DEF Seen
<1>8. Seen(o, S, L) <=>
        (\E k \in 1 .. Len(S) : Passed(f, k, S, L))
        \/ (f.library = L.path /\ f.way = WayOf(S) /\ o[2] < L.next)
  BY <1>1 DEF Seen
<1>9. QED
  BY <1>3, <1>4, <1>5, <1>7, <1>8 DEF M

\* When the search of a path begins, nothing below it is behind.
LEMMA SeenNothing ==
  ASSUME NEW g, NEW o \in Offers(g), NEW e
  PROVE  /\ ~Seen(o, <<[path |-> e, left |-> Entries[e]]>>, NoLibrary)
         /\ ~Seen(o, <<>>, [path |-> e, next |-> 1])
<1> DEFINE S == <<[path |-> e, left |-> Entries[e]]>>
           L == [path |-> e, next |-> 1]
<1>1. Len(S) = 1 /\ S # <<>> /\ S[1].path = e /\ S[1].left = Entries[e] /\ NoLibrary.next = 0
  BY DEF NoLibrary
<1>2. ~Passed(o[1], 1, S, NoLibrary)
  BY <1>1, NotPassedYet
<1>3. L.next = 1 /\ Len(<<>>) = 0
  OBVIOUS
<1>4. ~(o[2] < 1)
  <2>1. o[1].library \in DOMAIN Libraries /\ o[2] \in 1 .. Len(Libraries[o[1].library])
    BY FindTyped
  <2>2. Len(Libraries[o[1].library]) \in Nat
    BY <2>1, FileSystemAssumption, LenProperties
  <2>3. QED
    BY <2>1, <2>2
<1> HIDE DEF S, L
<1>5. ~Seen(o, S, NoLibrary)
  BY <1>1, <1>2 DEF Seen
<1>6. ~Seen(o, <<>>, L)
  BY <1>3, <1>4 DEF Seen
<1>7. QED
  BY <1>5, <1>6 DEF S, L

\* A path that is ignored leads to no operator.
LEMMA NothingFound ==
  ASSUME NEW g, NEW o \in Offers(g)
  PROVE  g[o[1].root] \in Directories \cup DOMAIN Libraries
<1>1. /\ o[1].way \in Ways /\ o[1].library \in DOMAIN Libraries
      /\ Len(o[1].way) = 0 => o[1].library = g[o[1].root]
      /\ Len(o[1].way) > 0 => o[1].way[1] = g[o[1].root]
  BY FindTyped
<1>2. Len(o[1].way) \in Nat /\ (Len(o[1].way) > 0 => o[1].way[1] \in Directories)
  BY <1>1, WayTyped, RankTyped
<1>3. QED
  BY <1>1, <1>2

\* The names D are those of the operators that are behind, each of another one.
Names(g, D, S, L, j) ==
  /\ D = BuiltIns \cup {NameOf(o) : o \in {p \in Offers(g) : LookedAt(p, S, L, j)}}
  /\ \A o, p \in Offers(g) :
       LookedAt(o, S, L, j) /\ LookedAt(p, S, L, j) /\ NameOf(o) = NameOf(p) => o = p
  /\ \A o \in Offers(g) : LookedAt(o, S, L, j) => NameOf(o) \notin BuiltIns

\* The paths Q are still to be searched.
Left(g, Q) ==
  /\ \E T : g \in Seq(T) /\ Q \in Seq(T)
  /\ Len(Q) <= Len(g)
  /\ \A k \in 1 .. Len(Q) : Q[k] = g[Len(g) - Len(Q) + k]

\* The search below the paths g stands at a place, and has entered the names D.
SearchState(g, D, Q, S, L) ==
  LET j == Len(g) - Len(Q) IN
  Left(g, Q) /\ OnWay(g, S, L, j) /\ Names(g, D, S, L, j)

LEMMA LeftTyped ==
  ASSUME NEW g, NEW Q, Left(g, Q)
  PROVE  /\ Len(g) \in Nat /\ Len(Q) \in Nat /\ Len(g) - Len(Q) \in 0 .. Len(g)
         /\ (Q = <<>> <=> Len(Q) = 0) /\ \E T : g \in Seq(T)
<1>1. PICK T : g \in Seq(T) /\ Q \in Seq(T)
  BY DEF Left
<1>2. Len(g) \in Nat /\ Len(Q) \in Nat /\ Len(Q) <= Len(g)
  BY <1>1, LenProperties DEF Left
<1>3. Q = <<>> <=> Len(Q) = 0
  BY <1>1, EmptySeq
<1>4. QED
  BY <1>1, <1>2, <1>3

LEMMA NamesAlike ==
  ASSUME NEW g, NEW D, NEW S, NEW L, NEW j, NEW T, NEW M, NEW i, Names(g, D, S, L, j),
         \A o \in Offers(g) : LookedAt(o, S, L, j) <=> LookedAt(o, T, M, i)
  PROVE  Names(g, D, T, M, i)
<1>1. {p \in Offers(g) : LookedAt(p, S, L, j)} = {p \in Offers(g) : LookedAt(p, T, M, i)}
  OBVIOUS
<1>2. QED
  BY <1>1 DEF Names

\* When all paths are searched, all operators are entered, and no two have a name.
LEMMA SearchEnds ==
  ASSUME NEW g, NEW D, SearchState(g, D, <<>>, <<>>, NoLibrary)
  PROVE  Distinct(g) /\ D = BuiltIns \cup {NameOf(o) : o \in Offers(g)}
<1>1. Len(g) \in Nat /\ DOMAIN g = 1 .. Len(g) /\ Names(g, D, <<>>, NoLibrary, Len(g))
  <2>1. Left(g, <<>>) /\ Names(g, D, <<>>, NoLibrary, Len(g) - Len(<<>>))
    BY DEF SearchState
  <2>2. Len(g) \in Nat /\ \E T : g \in Seq(T)
    BY <2>1, LeftTyped
  <2>3. DOMAIN g = 1 .. Len(g) /\ Len(g) - Len(<<>>) = Len(g)
    BY <2>2, GivenTyped
  <2>4. QED
    BY <2>1, <2>2, <2>3
<1>2. ASSUME NEW o \in Offers(g)
      PROVE  LookedAt(o, <<>>, NoLibrary, Len(g))
  <2>1. o[1].root \in DOMAIN g
    BY FindTyped
  <2>2. o[1].root < Len(g) \/ o[1].root = Len(g)
    BY <1>1, <2>1
  <2>3. QED
    BY <2>2 DEF LookedAt, Seen, NoLibrary
<1>3. {p \in Offers(g) : LookedAt(p, <<>>, NoLibrary, Len(g))} = Offers(g)
  BY <1>2
<1>4. QED
  BY <1>1, <1>2, <1>3 DEF Names, Distinct

\* When it begins, none is.
LEMMA SearchBegins ==
  ASSUME NEW g, \E T : g \in Seq(T)
  PROVE  SearchState(g, BuiltIns, g, <<>>, NoLibrary)
<1>1. Len(g) \in Nat /\ DOMAIN g = 1 .. Len(g)
  BY GivenTyped
<1>2. Left(g, g)
  <2>1. \A k \in 1 .. Len(g) : Len(g) - Len(g) + k = k
    BY <1>1
  <2>2. QED
    BY <1>1, <2>1 DEF Left
<1>3. OnWay(g, <<>>, NoLibrary, 0)
  <2>1. <<>> \in Stacks /\ 0 \in 0 .. Len(g) /\ Len(<<>>) = 0
    BY <1>1, EmptySeq DEF Stacks
  <2>2. QED
    BY <2>1 DEF OnWay, Descends
<1>4. ASSUME NEW o \in Offers(g)
      PROVE  ~LookedAt(o, <<>>, NoLibrary, 0)
  <2>1. o[1].root \in DOMAIN g
    BY FindTyped
  <2>2. ~(o[1].root < 0) /\ o[1].root # 0
    BY <1>1, <2>1
  <2>3. QED
    BY <2>2 DEF LookedAt
<1>5. {p \in Offers(g) : LookedAt(p, <<>>, NoLibrary, 0)} = {}
  BY <1>4
<1>6. Names(g, BuiltIns, <<>>, NoLibrary, 0)
  BY <1>4, <1>5 DEF Names
<1>7. Len(g) - Len(g) = 0
  BY <1>1
<1>8. QED
  BY <1>2, <1>3, <1>6, <1>7 DEF SearchState

LEMMA NextPath ==
  ASSUME NEW g, NEW D, NEW Q, Q # <<>>, SearchState(g, D, Q, <<>>, NoLibrary),
         NEW T, NEW M,
         LET path == Head(Q) IN
         /\ T = IF path \in Directories THEN Append(<<>>, [path |-> path, left |-> Entries[path]])
                                        ELSE <<>>
         /\ M = IF path \in (DOMAIN Libraries \ Directories) THEN [path |-> path, next |-> 1]
                                                             ELSE NoLibrary
  PROVE  SearchState(g, D, Tail(Q), T, M)
<1> DEFINE i == Len(g) - Len(Q)
           path == Head(Q)
           R == Tail(Q)
<1>1. Left(g, Q) /\ Descends(g, <<>>, i) /\ Names(g, D, <<>>, NoLibrary, i)
  BY DEF SearchState, OnWay
<1>2. /\ Len(g) \in Nat /\ Len(Q) \in Nat /\ Len(Q) # 0 /\ i \in 0 .. Len(g)
      /\ Len(Q) <= Len(g)
  BY <1>1, LeftTyped DEF Left
<1>3. path = g[i + 1]
  <2>1. Head(Q) = Q[1] /\ 1 \in 1 .. Len(Q)
    BY <1>1, <1>2, HeadTailProperties DEF Left
  <2>2. QED
    BY <1>1, <2>1 DEF Left
<1>4. Left(g, R) /\ Len(R) = Len(Q) - 1
  <2>1. PICK E : g \in Seq(E) /\ Q \in Seq(E)
    BY <1>1 DEF Left
  <2>2. R \in Seq(E) /\ Len(R) = Len(Q) - 1 /\ \A k \in 1 .. Len(R) : R[k] = Q[k + 1]
    BY <2>1, HeadTailProperties
  <2> HIDE DEF R
  <2>3. \A k \in 1 .. Len(R) : R[k] = g[Len(g) - Len(R) + k]
    <3>1. SUFFICES ASSUME NEW k \in 1 .. Len(R) PROVE R[k] = g[Len(g) - Len(R) + k]
      OBVIOUS
    <3>2. k + 1 \in 1 .. Len(Q) /\ Len(g) - Len(Q) + (k + 1) = Len(g) - Len(R) + k
      BY <1>2, <2>2
    <3>3. Q[k + 1] = g[Len(g) - Len(Q) + (k + 1)]
      BY <1>1, <3>2 DEF Left
    <3>4. QED
      BY <2>2, <3>2, <3>3
  <2>4. Len(R) <= Len(g)
    BY <1>2, <2>2
  <2>5. QED
    BY <2>1, <2>2, <2>3, <2>4 DEF Left
<1>5. Len(g) - Len(R) = i + 1 /\ i \in Nat /\ i + 1 \in 0 .. Len(g) /\ i + 1 > 0
  BY <1>2, <1>4
<1>6. /\ T = IF path \in Directories THEN <<[path |-> path, left |-> Entries[path]]>> ELSE <<>>
      /\ M = IF path \in (DOMAIN Libraries \ Directories) THEN [path |-> path, next |-> 1]
                                                          ELSE NoLibrary
  OBVIOUS
<1>7. Descends(g, <<>>, i + 1)
  <2>1. <<>> \in Stacks /\ Len(<<>>) = 0
    BY EmptySeq DEF Stacks
  <2>2. QED
    BY <1>1, <1>5, <2>1 DEF Descends
<1> HIDE DEF path, i, R
<1>8. OnWay(g, T, M, i + 1)
  <2>1. CASE path \in Directories
    <3>1. T = Append(<<>>, [path |-> path, left |-> Entries[path]]) /\ M = NoLibrary
      BY <1>6, <2>1
    <3>2. Descends(g, T, i + 1)
      <4>1. PICK j : j = i + 1
        OBVIOUS
      <4>2. Descends(g, <<>>, j) /\ j > 0 /\ path = g[j]
        BY <1>3, <1>5, <1>7, <4>1
      <4>3. Descends(g, Append(<<>>, [path |-> path, left |-> Entries[path]]), j)
        BY <2>1, <4>2, DescendsDown
      <4>4. QED
        BY <3>1, <4>1, <4>3
    <3>3. QED
      BY <3>1, <3>2 DEF OnWay
  <2>2. CASE path \in DOMAIN Libraries \ Directories
    <3>1. T = <<>> /\ M = [path |-> path, next |-> 1]
      BY <1>6, <2>2
    <3>2. Len(Libraries[path]) \in Nat
      BY <2>2, FileSystemAssumption, LenProperties
    <3>3. Reached(g, T, M, i + 1)
      BY <1>3, <1>5, <2>2, <3>1, <3>2 DEF Reached
    <3>4. QED
      BY <1>7, <3>1, <3>3 DEF OnWay
  <2>3. CASE path \notin Directories \cup DOMAIN Libraries
    BY <1>6, <1>7, <2>3 DEF OnWay
  <2>4. QED
    BY <2>1, <2>2, <2>3
<1>9. ASSUME NEW o \in Offers(g)
      PROVE  LookedAt(o, <<>>, NoLibrary, i) <=> LookedAt(o, T, M, i + 1)
  <2>1. o[1].root \in Nat
    <3>1. o[1].root \in DOMAIN g /\ DOMAIN g = 1 .. Len(g)
      BY <1>1, LeftTyped, FindTyped, GivenTyped
    <3>2. QED
      BY <1>2, <3>1
  <2>2. o[1].root < i + 1 <=> o[1].root < i \/ o[1].root = i
    BY <1>5, <2>1
  <2>3. Seen(o, <<>>, NoLibrary)
    BY DEF Seen, NoLibrary
  <2>4. o[1].root = i + 1 => ~Seen(o, T, M)
    <3>1. CASE path \in Directories
      BY <1>6, <3>1, SeenNothing
    <3>2. CASE path \in DOMAIN Libraries \ Directories
      BY <1>6, <3>2, SeenNothing
    <3>3. CASE path \notin Directories \cup DOMAIN Libraries
      BY <1>3, <3>3, NothingFound
    <3>4. QED
      BY <3>1, <3>2, <3>3
  <2>5. QED
    BY <2>2, <2>3, <2>4 DEF LookedAt
<1>10. Names(g, D, T, M, i + 1)
  BY <1>1, <1>9, NamesAlike
<1>11. SearchState(g, D, R, T, M)
  BY <1>4, <1>5, <1>8, <1>10 DEF SearchState
<1>12. QED
  BY <1>11 DEF R

\* The search goes on without entering anything.
LEMMA SearchMoves ==
  ASSUME NEW g, NEW D, NEW Q, NEW S, NEW L, SearchState(g, D, Q, S, L), NEW T, NEW M,
         OnWay(g, T, M, Len(g) - Len(Q)),
         \A o \in Offers(g) : o[1].root = Len(g) - Len(Q) => (Seen(o, S, L) <=> Seen(o, T, M))
  PROVE  SearchState(g, D, Q, T, M)
<1> DEFINE j == Len(g) - Len(Q)
<1>1. Left(g, Q) /\ Names(g, D, S, L, j)
  BY DEF SearchState
<1>2. \A o \in Offers(g) : LookedAt(o, S, L, j) <=> LookedAt(o, T, M, j)
  BY DEF LookedAt
<1> HIDE DEF j
<1>3. Names(g, D, T, M, j)
  BY <1>1, <1>2, NamesAlike
<1>4. QED
  BY <1>1, <1>3 DEF SearchState, j

LEMMA NextEntry ==
  ASSUME NEW g, NEW D, NEW Q, NEW S, S # <<>>, SearchState(g, D, Q, S, NoLibrary),
         NEW e \in S[Len(S)].left, NEW T, NEW M,
         LET U == Read(S, e) IN
         IF e \in SharedObjects
           THEN /\ T = IF e \in Directories THEN Append(U, [path |-> e, left |-> Entries[e]])
                                            ELSE U
                /\ M = IF e \in (DOMAIN Libraries \ Directories) THEN [path |-> e, next |-> 1]
                                                                 ELSE NoLibrary
           ELSE T = U /\ M = NoLibrary
  PROVE  SearchState(g, D, Q, T, M)
<1> DEFINE n == Len(S)
           U == Read(S, e)
<1>1. PICK j : j = Len(g) - Len(Q)
  OBVIOUS
<1>2. Descends(g, S, j)
  BY <1>1 DEF SearchState, OnWay
<1>3. n \in Nat /\ n # 0 /\ n \in 1 .. n
  <2>1. n \in Nat /\ (n = 0 <=> S = <<>>)
    BY <1>2, StackTyped
  <2>2. QED
    BY <2>1
<1>4. /\ Len(U) = n /\ U # <<>>
      /\ \A k \in 1 .. n : U[k].path = S[k].path
      /\ \A k \in 1 .. n : k # n => U[k].left = S[k].left
      /\ U[n].left = S[n].left \ {e}
  BY <1>2, ReadTyped
<1>5. Descends(g, U, j)
  BY <1>2, DescendsOn
<1>6. e \in Entries[U[Len(U)].path] /\ e \notin U[Len(U)].left
  <2>1. S[n].left \subseteq Entries[S[n].path]
    BY <1>2, <1>3 DEF Descends
  <2>2. QED
    BY <1>3, <1>4, <2>1
<1>7. CASE e \in SharedObjects \cap Directories
  <2>1. T = Append(U, [path |-> e, left |-> Entries[e]]) /\ M = NoLibrary
    BY <1>7
  <2> HIDE DEF U, n
  <2>2. /\ Descends(g, T, j) /\ Len(T) = Len(U) + 1
        /\ \A k \in 1 .. Len(U) : T[k] = U[k]
        /\ T[Len(U) + 1].path = e /\ T[Len(U) + 1].left = Entries[e]
    BY <1>4, <1>5, <1>6, <1>7, <2>1, DescendsDown
  <2>3. EntryRead(S, e, T, M)
    <3>1. T # <<>> /\ Len(T) = n + 1
      BY <1>3, <1>4, <2>2
    <3>2. /\ \A k \in 1 .. n : T[k].path = S[k].path
          /\ \A k \in 1 .. n : k # n => T[k].left = S[k].left
          /\ T[n].left = S[n].left \ {e}
          /\ T[n + 1].path = e /\ T[n + 1].left = Entries[e]
      BY <1>3, <1>4, <2>2
    <3>3. QED
      BY <2>1, <3>1, <3>2 DEF EntryRead, n
  <2>4. \A o \in Offers(g) : Seen(o, S, NoLibrary) <=> Seen(o, T, M)
    BY <1>2, <2>3, SeenRead
  <2>5. OnWay(g, T, M, j)
    BY <2>1, <2>2 DEF OnWay
  <2>6. QED
    BY <1>1, <2>4, <2>5, SearchMoves
<1>8. CASE e \in SharedObjects \cap (DOMAIN Libraries \ Directories)
  <2>1. T = U /\ M = [path |-> e, next |-> 1]
    BY <1>8
  <2> HIDE DEF U, n
  <2>2. EntryRead(S, e, T, M)
    BY <1>4, <2>1 DEF EntryRead, n
  <2>3. \A o \in Offers(g) : Seen(o, S, NoLibrary) <=> Seen(o, T, M)
    BY <1>2, <2>2, SeenRead
  <2>4. Len(Libraries[e]) \in Nat
    BY <1>8, FileSystemAssumption, LenProperties
  <2>5. Reached(g, T, M, j)
    BY <1>4, <1>6, <1>8, <2>1, <2>4 DEF Reached
  <2>6. OnWay(g, T, M, j)
    BY <1>5, <2>1, <2>5 DEF OnWay
  <2>7. QED
    BY <1>1, <2>3, <2>6, SearchMoves
<1>9. CASE e \in SharedObjects => e \notin Directories \cup DOMAIN Libraries
  <2>1. T = U /\ M = NoLibrary
    BY <1>9
  <2> HIDE DEF U, n
  <2>2. EntryRead(S, e, T, M)
    BY <1>4, <1>9, <2>1 DEF EntryRead, n
  <2>3. \A o \in Offers(g) : Seen(o, S, NoLibrary) <=> Seen(o, T, M)
    BY <1>2, <2>2, SeenRead
  <2>4. OnWay(g, T, M, j)
    BY <1>5, <2>1 DEF OnWay
  <2>5. QED
    BY <1>1, <2>3, <2>4, SearchMoves
<1>10. QED
  BY <1>7, <1>8, <1>9

LEMMA DirectoryEnds ==
  ASSUME NEW g, NEW D, NEW Q, NEW S, S # <<>>, SearchState(g, D, Q, S, NoLibrary),
         S[Len(S)].left = {}
  PROVE  SearchState(g, D, Q, SubSeq(S, 1, Len(S) - 1), NoLibrary)
<1>1. PICK j : j = Len(g) - Len(Q)
  OBVIOUS
<1>2. PICK T : T = SubSeq(S, 1, Len(S) - 1)
  OBVIOUS
<1>3. Descends(g, S, j)
  BY <1>1 DEF SearchState, OnWay
<1>4. OnWay(g, T, NoLibrary, j)
  BY <1>2, <1>3, DescendsUp DEF OnWay
<1>5. \A o \in Offers(g) : o[1].root = j => (Seen(o, S, NoLibrary) <=> Seen(o, T, NoLibrary))
  BY <1>2, <1>3, SeenUp
<1>6. QED
  BY <1>1, <1>2, <1>4, <1>5, SearchMoves

LEMMA LibraryEnds ==
  ASSUME NEW g, NEW D, NEW Q, NEW S, NEW L, SearchState(g, D, Q, S, L), L # NoLibrary,
         L.next > Len(Libraries[L.path])
  PROVE  SearchState(g, D, Q, S, NoLibrary)
<1>1. PICK j : j = Len(g) - Len(Q)
  OBVIOUS
<1>2. Descends(g, S, j) /\ Reached(g, S, L, j)
  BY <1>1 DEF SearchState, OnWay
<1>3. \A o \in Offers(g) : o[1].root = j => (Seen(o, S, L) <=> Seen(o, S, NoLibrary))
  BY <1>2, SeenLibrary
<1>4. OnWay(g, S, NoLibrary, j)
  BY <1>2 DEF OnWay
<1>5. QED
  BY <1>1, <1>3, <1>4, SearchMoves

LEMMA OperatorEnters ==
  ASSUME NEW g, NEW D, NEW Q, NEW S, NEW L, SearchState(g, D, Q, S, L), L # NoLibrary,
         L.next <= Len(Libraries[L.path]), Libraries[L.path][L.next] \notin D
  PROVE  SearchState(g, D \cup {Libraries[L.path][L.next]}, Q, S,
                     [path |-> L.path, next |-> L.next + 1])
<1> DEFINE new == Libraries[L.path][L.next]
           M == [path |-> L.path, next |-> L.next + 1]
<1>1. PICK j : j = Len(g) - Len(Q)
  OBVIOUS
<1>2. Left(g, Q) /\ OnWay(g, S, L, j) /\ Names(g, D, S, L, j)
  BY <1>1 DEF SearchState
<1>3. Descends(g, S, j) /\ Reached(g, S, L, j)
  BY <1>2 DEF OnWay
<1>4. PICK c : c = <<[root |-> j, way |-> WayOf(S), library |-> L.path], L.next>>
  OBVIOUS
<1>5. c \in Offers(g) /\ NameOf(c) = new /\ ~LookedAt(c, S, L, j) /\ c[1].root = j
  BY <1>2, <1>4, EnteredIsOffered
<1>6. \A o \in Offers(g) : LookedAt(o, S, M, j) <=> LookedAt(o, S, L, j) \/ o = c
  <2>1. SUFFICES ASSUME NEW o \in Offers(g)
                 PROVE  LookedAt(o, S, M, j) <=> LookedAt(o, S, L, j) \/ o = c
    OBVIOUS
  <2>2. o[1].root = j => (Seen(o, S, M) <=> Seen(o, S, L) \/ o = c)
    BY <1>3, <1>4, SeenEntered
  <2>3. o = c => o[1].root = j
    BY <1>5
  <2>4. QED
    BY <2>2, <2>3 DEF LookedAt
<1>7. Reached(g, S, M, j)
  <2>1. /\ L \in [path : DOMAIN Libraries \ Directories, next : Nat \ {0}]
        /\ IF S = <<>> THEN j > 0 /\ L.path = g[j]
           ELSE /\ L.path \in Entries[S[Len(S)].path] \cap SharedObjects
                /\ L.path \notin S[Len(S)].left
    BY <1>3 DEF Reached
  <2>2. Len(Libraries[L.path]) \in Nat
    BY <2>1, FileSystemAssumption, LenProperties
  <2>3. M.path = L.path /\ M.next = L.next + 1 /\ L.next + 1 \in Nat \ {0}
        /\ L.next + 1 <= Len(Libraries[L.path]) + 1
    BY <2>1, <2>2
  <2>4. M \in [path : DOMAIN Libraries \ Directories, next : Nat \ {0}]
    BY <2>1, <2>3
  <2>5. QED
    BY <2>1, <2>3, <2>4 DEF Reached
<1> HIDE DEF new, M
<1>8. OnWay(g, S, M, j)
  BY <1>3, <1>7 DEF OnWay
<1>9. Names(g, D \cup {new}, S, M, j)
  <2>1. /\ D = BuiltIns \cup {NameOf(o) : o \in {p \in Offers(g) : LookedAt(p, S, L, j)}}
        /\ \A o, p \in Offers(g) :
             LookedAt(o, S, L, j) /\ LookedAt(p, S, L, j) /\ NameOf(o) = NameOf(p) => o = p
        /\ \A o \in Offers(g) : LookedAt(o, S, L, j) => NameOf(o) \notin BuiltIns
    BY <1>2 DEF Names
  <2>2. \A o \in Offers(g) : LookedAt(o, S, L, j) => NameOf(o) # new
    BY <2>1 DEF new
  <2>3. new \notin BuiltIns
    BY <2>1 DEF new
  <2>4. {p \in Offers(g) : LookedAt(p, S, M, j)} = {p \in Offers(g) : LookedAt(p, S, L, j)} \cup {c}
    BY <1>5, <1>6
  <2>5. D \cup {new} = BuiltIns \cup {NameOf(o) : o \in {p \in Offers(g) : LookedAt(p, S, M, j)}}
    BY <1>5, <2>1, <2>4
  <2>6. \A o, p \in Offers(g) :
          LookedAt(o, S, M, j) /\ LookedAt(p, S, M, j) /\ NameOf(o) = NameOf(p) => o = p
    BY <1>5, <1>6, <2>1, <2>2
  <2>7. \A o \in Offers(g) : LookedAt(o, S, M, j) => NameOf(o) \notin BuiltIns
    BY <1>5, <1>6, <2>1, <2>3
  <2>8. QED
    BY <2>5, <2>6, <2>7 DEF Names
<1>10. SearchState(g, D \cup {new}, Q, S, M)
  BY <1>1, <1>2, <1>8, <1>9 DEF SearchState
<1>11. QED
  BY <1>10 DEF new, M

\* A name that is taken is offered twice, or is that of a built-in operator.
LEMMA NameTaken ==
  ASSUME NEW g, NEW D, NEW Q, NEW S, NEW L, SearchState(g, D, Q, S, L), L # NoLibrary,
         L.next <= Len(Libraries[L.path]), Libraries[L.path][L.next] \in D
  PROVE  ~Distinct(g)
<1>1. PICK j : j = Len(g) - Len(Q)
  OBVIOUS
<1>2. OnWay(g, S, L, j) /\ Names(g, D, S, L, j)
  BY <1>1 DEF SearchState
<1>3. PICK c : c = <<[root |-> j, way |-> WayOf(S), library |-> L.path], L.next>>
  OBVIOUS
<1>4. c \in Offers(g) /\ NameOf(c) \in D /\ ~LookedAt(c, S, L, j)
  BY <1>2, <1>3, EnteredIsOffered
<1>5. NameOf(c) \in BuiltIns \/ \E o \in Offers(g) : LookedAt(o, S, L, j) /\ NameOf(o) = NameOf(c)
  BY <1>2, <1>4 DEF Names
<1>6. QED
  BY <1>4, <1>5 DEF Distinct

AllEntered ==
  Distinct(Given) /\ DOMAIN operators = BuiltIns \cup {NameOf(o) : o \in Offers(Given)}

\* The inductive invariant of the search.
DecidedInv ==
  /\ \E T : searchpaths \in Seq(T)
  /\ stage \in Reading => DOMAIN operators = BuiltIns /\ scans = <<>> /\ library = NoLibrary
  /\ stage = "adding" => SearchState(Given, DOMAIN operators, pending, scans, library)
  /\ stage = "duplicate name" => ~Distinct(Given)
  /\ stage \in Outcomes => AllEntered

LEMMA SearchedInv ==
  ASSUME DecidedInv, searchpaths' = searchpaths, stage' = "adding",
         SearchState(Given, DOMAIN operators', pending', scans', library')
  PROVE  DecidedInv'
<1>1. Given' = Given
  BY DEF Given
<1>2. SearchState(Given, DOMAIN operators, pending, scans, library)'
  BY <1>1
<1>3. \E T : searchpaths' \in Seq(T)
  BY DEF DecidedInv
<1>4. stage' \notin Reading /\ stage' \notin Outcomes /\ stage' # "duplicate name"
  BY DEF Reading, Outcomes
<1>5. QED
  BY <1>2, <1>3, <1>4 DEF DecidedInv

LEMMA RegistryNextDecides ==
  ASSUME DecidedInv, RegistryInv, RegistryNext, searchpaths' = searchpaths
  PROVE  DecidedInv'
<1> DEFINE D == DOMAIN operators
<1>1. stage = "adding" /\ SearchState(Given, D, pending, scans, library) /\ Given' = Given
  BY DEF DecidedInv, RegistryNext, SearchPath, ReadEntry, CloseDirectory, EnterOperator,
         DuplicateName, LibraryEntered, PathsSearched, Given
<1>2. library = NoLibrary \/ library \in [path : DOMAIN Libraries, next : Nat \ {0}]
  BY DEF RegistryInv
<1>3. Scanning <=> library = NoLibrary
  BY <1>2 DEF Scanning, NoLibrary
<1>4. CASE SearchPath
  <2>1. /\ scans = <<>> /\ library = NoLibrary /\ pending # <<>> /\ stage' = "adding"
        /\ pending' = Tail(pending) /\ operators' = operators
        /\ AddOperators(Head(pending), scans)
    BY <1>1, <1>3, <1>4 DEF SearchPath
  <2>2. SearchState(Given, D, pending', scans', library')
    BY <1>1, <2>1, NextPath DEF AddOperators
  <2>3. QED
    BY <2>1, <2>2, SearchedInv
<1>5. CASE ReadEntry
  <2>1. /\ scans # <<>> /\ library = NoLibrary /\ stage' = "adding" /\ operators' = operators
        /\ pending' = pending
    BY <1>1, <1>3, <1>5 DEF ReadEntry
  <2>2. PICK e \in scans[Len(scans)].left :
          IF e \in SharedObjects
            THEN AddOperators(e, Read(scans, e))
            ELSE scans' = Read(scans, e) /\ UNCHANGED library
    BY <1>5 DEF ReadEntry, Top
  <2>3. SearchState(Given, D, pending, scans', library')
    BY <1>1, <2>1, <2>2, NextEntry DEF AddOperators
  <2>4. QED
    BY <2>1, <2>3, SearchedInv
<1>6. CASE CloseDirectory
  <2>1. /\ scans # <<>> /\ library = NoLibrary /\ stage' = "adding" /\ operators' = operators
        /\ pending' = pending /\ library' = library /\ scans[Len(scans)].left = {}
        /\ scans' = SubSeq(scans, 1, Len(scans) - 1)
    BY <1>1, <1>3, <1>6 DEF CloseDirectory, Top
  <2>2. SearchState(Given, D, pending, scans', NoLibrary)
    BY <1>1, <2>1, DirectoryEnds
  <2>3. QED
    BY <2>1, <2>2, SearchedInv
<1>7. CASE EnterOperator
  <2>1. /\ library # NoLibrary /\ stage' = "adding" /\ pending' = pending /\ scans' = scans
        /\ library.next <= Len(Libraries[library.path])
        /\ Libraries[library.path][library.next] \notin D
        /\ operators' = Entered(library)
        /\ library' = [library EXCEPT !.next = @ + 1]
    BY <1>1, <1>3, <1>7 DEF EnterOperator
  <2>2. library' = [path |-> library.path, next |-> library.next + 1]
    BY <1>2, <2>1
  <2>3. DOMAIN operators' = D \cup {Libraries[library.path][library.next]}
    BY <2>1 DEF Entered
  <2>4. SearchState(Given, D \cup {Libraries[library.path][library.next]}, pending, scans,
                    [path |-> library.path, next |-> library.next + 1])
    <3> HIDE DEF D
    <3>1. QED
      BY <1>1, <2>1, OperatorEnters
  <2>5. SearchState(Given, DOMAIN operators', pending', scans', library')
    BY <2>1, <2>2, <2>3, <2>4
  <2>6. QED
    BY <2>1, <2>5, SearchedInv
<1>8. CASE LibraryEntered
  <2>1. /\ library # NoLibrary /\ stage' = "adding" /\ pending' = pending /\ scans' = scans
        /\ operators' = operators /\ library' = NoLibrary
        /\ library.next > Len(Libraries[library.path])
    BY <1>1, <1>3, <1>8 DEF LibraryEntered
  <2>2. SearchState(Given, D, pending, scans, NoLibrary)
    BY <1>1, <2>1, LibraryEnds
  <2>3. QED
    BY <2>1, <2>2, SearchedInv
<1>9. CASE DuplicateName
  <2>1. /\ library # NoLibrary /\ stage' = "duplicate name"
        /\ library.next <= Len(Libraries[library.path])
        /\ Libraries[library.path][library.next] \in D
    BY <1>3, <1>9 DEF DuplicateName
  <2>2. ~Distinct(Given)
    BY <1>1, <2>1, NameTaken
  <2>3. ~Distinct(Given)'
    BY <1>1, <2>2
  <2>4. QED
    BY <2>1, <2>3 DEF DecidedInv, Reading, Outcomes
<1>10. CASE PathsSearched
  <2>1. /\ pending = <<>> /\ scans = <<>> /\ library = NoLibrary /\ stage' = "searched"
        /\ operators' = operators
    BY <1>3, <1>10 DEF PathsSearched
  <2>2. Distinct(Given) /\ D = BuiltIns \cup {NameOf(o) : o \in Offers(Given)}
    BY <1>1, <2>1, SearchEnds
  <2>3. AllEntered'
    BY <1>1, <2>1, <2>2 DEF AllEntered
  <2>4. QED
    BY <2>1, <2>3 DEF DecidedInv, Reading, Outcomes
<1>11. QED
  BY <1>4, <1>5, <1>6, <1>7, <1>8, <1>9, <1>10 DEF RegistryNext

\* What the search depends on is left alone.
LEMMA DecidedStays ==
  ASSUME DecidedInv, UNCHANGED registryVars, searchpaths' = searchpaths
  PROVE  DecidedInv'
<1>1. /\ Given' = Given /\ operators' = operators /\ pending' = pending /\ scans' = scans
      /\ library' = library /\ stage' = stage
  BY DEF Given, registryVars
<1>2. QED
  BY <1>1 DEF DecidedInv, AllEntered

LEMMA OptionsNextDecides ==
  ASSUME DecidedInv, RegistryInv, OptionsNext
  PROVE  DecidedInv'
<1>1. PICK T : searchpaths \in Seq(T)
  BY DEF DecidedInv
<1>2. ASSUME NEW x, searchpaths' = Append(searchpaths, x)
      PROVE  searchpaths' \in Seq(T \cup {x})
  <2>1. T \subseteq T \cup {x} /\ x \in T \cup {x}
    OBVIOUS
  <2>2. searchpaths \in Seq(T \cup {x})
    BY <1>1, <2>1, SeqMonotonic
  <2>3. QED
    BY <1>2, <2>1, <2>2, AppendProperties
<1>3. ASSUME stage \in Reading, stage' \in Reading, \E U : searchpaths' \in Seq(U),
             operators' = operators, scans' = scans, library' = library
      PROVE  DecidedInv'
  BY <1>3 DEF DecidedInv, Reading, Outcomes
<1>4. CASE Search
  BY <1>4, RegistryNextDecides DEF Search, optionVars
<1>5. CASE SkipOption \/ InfoOption \/ DebugOption \/ RewriterOption
  BY <1>5, DecidedStays DEF SkipOption, InfoOption, DebugOption, RewriterOption
<1>6. CASE PathOption
  <2>1. <<>> \in Seq(T)
    BY EmptySeq
  <2>2. QED
    BY <1>3, <1>6, <2>1 DEF PathOption, Reading
<1>7. CASE CutPath
  BY <1>2, <1>3, <1>7 DEF CutPath, registryVars, Reading
<1>8. CASE LastPath
  <2>1. /\ stage \in Reading /\ stage' \in Reading
        /\ operators' = operators /\ scans' = scans /\ library' = library
        /\ searchpaths' = IF rest = <<>> THEN searchpaths ELSE Append(searchpaths, rest)
    BY <1>8 DEF LastPath, Reading
  <2>2. \E U : searchpaths' \in Seq(U)
    BY <1>1, <1>2, <2>1
  <2>3. QED
    BY <1>3, <2>1, <2>2
<1>9. CASE CutBeyondEnd \/ SecondRewriter
  <2>1. searchpaths' = searchpaths /\ stage' \in {"out of range", "multiple rewriters"}
    BY <1>9 DEF CutBeyondEnd, SecondRewriter, optionVars
  <2>2. QED
    BY <1>1, <2>1 DEF DecidedInv, Reading, Outcomes
<1>10. CASE OptionsRead
  <2>1. /\ stage = "options" /\ stage' = "adding" /\ searchpaths' = searchpaths
        /\ operators' = operators /\ scans' = scans /\ library' = library
        /\ pending' = Given
    BY <1>10 DEF OptionsRead, Given
  <2>2. \E U : Given \in Seq(U)
    <3>1. Paths \subseteq Paths \cup T /\ T \subseteq Paths \cup T
      OBVIOUS
    <3>2. SystemDirs \in Seq(Paths \cup T) /\ searchpaths \in Seq(Paths \cup T)
      BY <1>1, <3>1, SystemDirsAssumption, SeqMonotonic
    <3>3. Given \in Seq(Paths \cup T)
      BY <3>2, ConcatProperties DEF Given
    <3>4. QED
      BY <3>3
  <2>3. DOMAIN operators = BuiltIns /\ scans = <<>> /\ library = NoLibrary
    BY <2>1 DEF DecidedInv, Reading
  <2>4. SearchState(Given, BuiltIns, Given, <<>>, NoLibrary)
    BY <2>2, SearchBegins
  <2>5. QED
    BY <2>1, <2>3, <2>4, SearchedInv
<1>11. CASE Started
  <2>1. /\ stage = "searched" /\ stage' \in Outcomes \ {"searched"}
        /\ searchpaths' = searchpaths /\ operators' = operators
    BY <1>11 DEF Started, Outcomes, optionVars
  <2>2. Given' = Given
    BY <2>1 DEF Given
  <2>3. AllEntered'
    BY <2>1, <2>2 DEF DecidedInv, AllEntered, Outcomes
  <2>4. QED
    BY <1>1, <2>1, <2>3 DEF DecidedInv, Reading, Outcomes
<1>12. QED
  BY <1>4, <1>5, <1>6, <1>7, <1>8, <1>9, <1>10, <1>11 DEF OptionsNext

LEMMA DecidedInvariant == SessionSpec => []DecidedInv
<1>1. ASSUME SessionInit
      PROVE  DecidedInv
  <2>1. PICK line : OptionsInit(line)
    BY <1>1 DEF SessionInit
  <2>2. /\ searchpaths = <<>> /\ stage = "options" /\ scans = <<>> /\ library = NoLibrary
        /\ operators = [n \in BuiltIns |-> BuiltIn]
    BY <2>1 DEF OptionsInit, RegistryInit
  <2>3. searchpaths \in Seq({})
    BY <2>2, EmptySeq
  <2>4. QED
    BY <2>2, <2>3 DEF DecidedInv, Reading, Outcomes
<1>2. ASSUME SessionInv, DecidedInv, [SessionNext]_allVars
      PROVE  DecidedInv'
  <2>1. CASE ProcessOptions
    BY <1>2, <2>1, OptionsNextDecides DEF ProcessOptions, SessionInv
  <2>2. CASE ~ProcessOptions
    <3>1. UNCHANGED pluginVars
      BY <1>2, <2>2 DEF allVars, SessionNext, ReadProgram, ConvertByProcess, Rewrite, HandOn,
             DlvFails, PrintAnswerSets, HandOnConstraint, ConvertPlan, ParsePlan, GeneratePlan,
             ShowHelp, CreateParser, Parse, ParsingFailed, PrintParseTree, CompilePlan, Crash
    <3>2. UNCHANGED registryVars /\ searchpaths' = searchpaths
      BY <3>1 DEF pluginVars, optionVars
    <3>3. QED
      BY <1>2, <3>2, DecidedStays
  <2>3. QED
    BY <2>1, <2>2
<1>3. QED
  BY <1>1, <1>2, SessionInvariant, PTL DEF SessionSpec

\* Operators.cpp:163 and 198: whatever the directories below the search paths hold, how
\* deep they lie and in whatever order readdir lists them, a search registers exactly
\* the operators found at any depth, if all of their names are different, and
\* otherwise breaks off. This is what the code does; the documentation promises a
\* warning for equal names, and no search below the directories given.
THEOREM RegistrySearched == SessionSpec => []SearchOutcome
<1>1. ASSUME DecidedInv
      PROVE  SearchOutcome
  BY <1>1 DEF DecidedInv, AllEntered, SearchOutcome, NamesOf
<1>2. QED
  BY <1>1, DecidedInvariant, PTL

\* Operators.cpp:160 and 198: under the same conditions, a search that comes to its end
\* has missed no operator in the paths and directories given, has entered none that is
\* not offered, and breaks off only over a name that is taken.
THEOREM RegistryAlwaysDecided == SessionSpec => []RegistryDecided
<1>1. ASSUME SearchOutcome
      PROVE  RegistryDecided
  <2>1. DirectOffers(Given) \subseteq Offers(Given)
    BY DEF DirectOffers
  <2>2. NamesOf(DirectOffers(Given)) \subseteq NamesOf(Offers(Given))
    BY <2>1 DEF NamesOf
  <2>3. QED
    BY <1>1, <2>2 DEF SearchOutcome, RegistryDecided
<1>2. QED
  BY <1>1, RegistrySearched, PTL
=============================================================================
