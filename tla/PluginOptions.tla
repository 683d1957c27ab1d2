------------------------------ MODULE PluginOptions ------------------------------
(***************************************************************************)
(* The plugin's own command line options (MergingPlugin::processOptions)   *)
(* and the search for operators that they start.                           *)
(*                                                                         *)
(* An option is a record of its kind, the text up to and including "=",    *)
(* and its value. The search paths of --operatorpath and --op are cut out  *)
(* of that text by position, so that the text and the paths are sequences  *)
(* of characters here; nothing else depends on their content.              *)
(***************************************************************************)
EXTENDS OperatorRegistry, SequencesExt

CONSTANTS
  SystemDirs,    \* SYS_PLUGIN_DIR and USER_PLUGIN_DIR below the home directory
  DefaultDlv,    \* dlv's arguments for --dlv without a value
  Described      \* the operators that override getInfo, which throws otherwise

Comma == ","

\* The option matches one of the tests in the loop.
PluginKinds == {"operatorpath", "operatorinfo", "inputrewriter", "merging", "mergingdump",
                "operatordebug", "dlv"}

NoConverter == [kind |-> "none", command |-> "none"]

\* The converter that an option asks for.
ConverterOf(o) ==
  [kind |-> o.kind,
   command |-> IF o.kind = "dlv" /\ o.value = <<>> THEN DefaultDlv ELSE o.command]

Rewriters == {"inputrewriter", "merging", "mergingdump", "dlv"}

VARIABLES
  commandLine,  \* the options that the program is called with
  options,      \* those that the plugin has left over: pluginOptions
  at,           \* the option that is looked at
  found,        \* those that the plugin has taken
  rest,         \* what is left of a list of paths
  searchpaths,
  converter,    \* inputrewriter
  debugMode,
  opinfo        \* the operator that information is requested on, if any

optionVars ==
  <<commandLine, options, at, found, rest, searchpaths, converter, debugMode, opinfo>>

None == "none"

OptionsInit(line) ==
  /\ commandLine = line
  /\ options = line
  /\ at = 1
  /\ found = {}
  /\ rest = <<>>
  /\ searchpaths = <<>>
  /\ converter = NoConverter
  /\ debugMode = FALSE
  /\ opinfo = None
  /\ pending = <<>>
  /\ stage = "options"
  /\ RegistryInit
-----------------------------------------------------------------------------
Option == options[at]

Taken ==
  /\ found' = found \cup {at}
  /\ at' = at + 1

\* An option of somebody else.
SkipOption ==
  /\ stage = "options" /\ at <= Len(options) /\ Option.kind \notin PluginKinds
  /\ at' = at + 1
  /\ UNCHANGED <<commandLine, options, found, rest, searchpaths, converter, debugMode, opinfo,
                 registryVars>>

\* Mutant: the paths of earlier options are kept.
PathOptionAdding ==
  /\ stage = "options" /\ at <= Len(options) /\ Option.kind = "operatorpath"
  /\ rest' = Option.value
  /\ stage' = "paths"
  /\ UNCHANGED <<commandLine, options, at, found, searchpaths, converter, debugMode, opinfo,
                 operators, pending, scans, library>>

\* --operatorpath= or --op=: the paths of earlier options are dropped.
PathOption ==
  /\ stage = "options" /\ at <= Len(options) /\ Option.kind = "operatorpath"
  /\ searchpaths' = <<>>
  /\ rest' = Option.value
  /\ stage' = "paths"
  /\ UNCHANGED <<commandLine, options, at, found, converter, debugMode, opinfo,
                 operators, pending, scans, library>>

\* option.find_first_of(','), counted from 0.
FirstComma(text) == (CHOOSE i \in DOMAIN text :
                       text[i] = Comma /\ \A j \in 1 .. i - 1 : text[j] # Comma) - 1

\* The loop over the list looks for the comma in `rest', but takes its position
\* and the path before it from `option'.
OptionText == Option.prefix \o Option.value
CommaPosition == FirstComma(OptionText)

CutPath ==
  /\ stage = "paths" /\ Comma \in ToSet(rest)
  /\ CommaPosition + 1 <= Len(rest)
  /\ searchpaths' = Append(searchpaths, SubSeq(OptionText, 1, CommaPosition))
  /\ rest' = SubSeq(rest, CommaPosition + 2, Len(rest))
  /\ UNCHANGED <<commandLine, options, at, found, converter, debugMode, opinfo, registryVars>>

\* rest.substr beyond the end of `rest': std::out_of_range.
CutBeyondEnd ==
  /\ stage = "paths" /\ Comma \in ToSet(rest)
  /\ CommaPosition + 1 > Len(rest)
  /\ stage' = "out of range"
  /\ UNCHANGED <<optionVars, operators, pending, scans, library>>

LastPath ==
  /\ stage = "paths" /\ Comma \notin ToSet(rest)
  /\ searchpaths' = IF rest = <<>> THEN searchpaths ELSE Append(searchpaths, rest)
  /\ rest' = <<>>
  /\ Taken
  /\ stage' = "options"
  /\ UNCHANGED <<commandLine, options, converter, debugMode, opinfo,
                 operators, pending, scans, library>>

InfoOption ==
  /\ stage = "options" /\ at <= Len(options) /\ Option.kind = "operatorinfo"
  /\ opinfo' = Option.command
  /\ Taken
  /\ UNCHANGED <<commandLine, options, rest, searchpaths, converter, debugMode, registryVars>>

DebugOption ==
  /\ stage = "options" /\ at <= Len(options) /\ Option.kind = "operatordebug"
  /\ debugMode' = TRUE
  /\ Taken
  /\ UNCHANGED <<commandLine, options, rest, searchpaths, converter, opinfo, registryVars>>

\* --inputrewriter, --merging, --mergingdump or --dlv, the first of them.
RewriterOption ==
  /\ stage = "options" /\ at <= Len(options) /\ Option.kind \in Rewriters
  /\ converter = NoConverter
  /\ converter' = ConverterOf(Option)
  /\ Taken
  /\ UNCHANGED <<commandLine, options, rest, searchpaths, debugMode, opinfo, registryVars>>

\* Another one: a PluginError.
SecondRewriter ==
  /\ stage = "options" /\ at <= Len(options) /\ Option.kind \in Rewriters
  /\ converter # NoConverter
  /\ stage' = "multiple rewriters"
  /\ UNCHANGED <<optionVars, operators, pending, scans, library>>

\* A list without what is at some places of it.
Erased(list, places) ==
  LET left[n \in 0 .. Len(list)] ==
        IF n = 0 THEN <<>>
        ELSE IF n \in places THEN left[n - 1]
        ELSE Append(left[n - 1], list[n])
  IN left[Len(list)]

\* The options found are erased; then the operators are searched for in the
\* system directory, the user's directory and the search paths.
OptionsRead ==
  /\ stage = "options" /\ at > Len(options)
  /\ options' = Erased(options, found)
  /\ pending' = SystemDirs \o searchpaths
  /\ stage' = "adding"
  /\ UNCHANGED <<commandLine, at, found, rest, searchpaths, converter, debugMode, opinfo,
                 operators, scans, library>>

Search == RegistryNext /\ UNCHANGED optionVars

\* --operatorinfo: a PluginError when the operator was not loaded, and another one
\* when it has no information to give.
Started ==
  /\ stage = "searched"
  /\ stage' = IF opinfo = None \/ opinfo \in DOMAIN operators \cap Described THEN "started"
              ELSE IF opinfo \in DOMAIN operators THEN "no information"
              ELSE "not loaded"
  /\ UNCHANGED <<optionVars, operators, pending, scans, library>>

OptionsNext ==
  SkipOption \/ PathOption \/ CutPath \/ CutBeyondEnd \/ LastPath \/ InfoOption \/ DebugOption
  \/ RewriterOption \/ SecondRewriter \/ OptionsRead \/ Search \/ Started
=============================================================================
