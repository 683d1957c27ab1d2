---------------------------- MODULE OperatorRegistry ----------------------------
(***************************************************************************)
(* The operators that &operator can apply (Operators.cpp): two built-in    *)
(* ones and those found in shared libraries below the paths that the       *)
(* plugin passes to addOperators one after the other.                      *)
(*                                                                         *)
(* addOperators is recursive: a path that can be opened as a directory is  *)
(* scanned with readdir, in whatever order that delivers, and every entry  *)
(* that ends with ".so" is passed to addOperators again. `scans' is the    *)
(* stack of these calls. Any other path is opened as a library, and each   *)
(* operator that its import function returns is entered under its name; a  *)
(* name that is taken throws in the middle of it.                          *)
(*                                                                         *)
(* The file system and libltdl are external: they are given by constants.  *)
(***************************************************************************)
EXTENDS Naturals, Sequences

CONSTANTS
  BuiltIns,       \* the names of the built-in operators
  Paths,          \* everything that can be passed to addOperators
  Entries,        \* a directory -> the paths of its entries
  SharedObjects,  \* the paths that end with ".so"
  Libraries       \* a path that libltdl finds a library with an import
                  \* function for -> the names of the operators it returns

Directories == DOMAIN Entries

ASSUME FileSystemAssumption ==
  /\ Directories \subseteq Paths
  /\ \A d \in Directories : Entries[d] \subseteq Paths
  /\ DOMAIN Libraries \subseteq Paths
  /\ \A p \in DOMAIN Libraries : Libraries[p] \in Seq(STRING)
  /\ BuiltIns \subseteq STRING

VARIABLES
  operators,  \* name -> the operator: the library and the place in it
  pending,    \* the paths that addOperators is still to be called with
  scans,      \* the directories being scanned, with the entries not yet read
  library,    \* the library whose operators are being entered
  stage       \* what the plugin is doing

registryVars == <<operators, pending, scans, library, stage>>

BuiltIn == [path |-> <<>>, nr |-> 0]
NoLibrary == [path |-> <<>>, next |-> 0]

\* No import function's operators are being entered.
Scanning == library.next = 0

\* Mutant: the places in a library are counted from 0.
EnteredFromZero(o) == [n \in DOMAIN operators \cup {Libraries[o.path][o.next]} |->
                         IF n \in DOMAIN operators THEN operators[n]
                         ELSE [path |-> o.path, nr |-> o.next - 1]]

\* operators[(*it)->getName()] = *it;
Entered(o) == [n \in DOMAIN operators \cup {Libraries[o.path][o.next]} |->
                 IF n \in DOMAIN operators THEN operators[n]
                 ELSE [path |-> o.path, nr |-> o.next]]

\* The constructor, with the search paths that processOptions is to add.
RegistryInit ==
  /\ operators = [n \in BuiltIns |-> BuiltIn]
  /\ scans = <<>>
  /\ library = NoLibrary
-----------------------------------------------------------------------------
\* addOperators(path), called while the directories S are being scanned. A
\* path that is neither a directory nor a library with operators is ignored.
AddOperators(path, S) ==
  /\ scans' = IF path \in Directories THEN Append(S, [path |-> path, left |-> Entries[path]])
                                      ELSE S
  /\ library' = IF path \in (DOMAIN Libraries \ Directories) THEN [path |-> path, next |-> 1]
                                                           ELSE NoLibrary

Top(S) == S[Len(S)]

\* Without the entry that readdir delivered.
Read(S, e) == [S EXCEPT ![Len(S)].left = @ \ {e}]

\* processOptions: the next search path.
SearchPath ==
  /\ stage = "adding" /\ scans = <<>> /\ Scanning /\ pending # <<>>
  /\ pending' = Tail(pending)
  /\ AddOperators(Head(pending), scans)
  /\ UNCHANGED <<operators, stage>>

\* readdir.
ReadEntry ==
  /\ stage = "adding" /\ scans # <<>> /\ Scanning
  /\ \E e \in Top(scans).left :
       IF e \in SharedObjects
         THEN AddOperators(e, Read(scans, e))
         ELSE scans' = Read(scans, e) /\ UNCHANGED library
  /\ UNCHANGED <<operators, pending, stage>>

\* closedir.
CloseDirectory ==
  /\ stage = "adding" /\ scans # <<>> /\ Scanning
  /\ Top(scans).left = {}
  /\ scans' = SubSeq(scans, 1, Len(scans) - 1)
  /\ UNCHANGED <<operators, pending, library, stage>>

\* The next operator that the import function returned.
EnterOperator ==
  /\ stage = "adding" /\ ~Scanning
  /\ library.next <= Len(Libraries[library.path])
  /\ Libraries[library.path][library.next] \notin DOMAIN operators
  /\ operators' = Entered(library)
  /\ library' = [library EXCEPT !.next = @ + 1]
  /\ UNCHANGED <<pending, scans, stage>>

\* Its name is taken: a PluginError, that leaves the directories open and the
\* operators of the library that came first entered.
DuplicateName ==
  /\ stage = "adding" /\ ~Scanning
  /\ library.next <= Len(Libraries[library.path])
  /\ Libraries[library.path][library.next] \in DOMAIN operators
  /\ stage' = "duplicate name"
  /\ UNCHANGED <<operators, pending, scans, library>>

\* Mutant: the last operator of a library may be left out.
LibraryEndedEarly ==
  /\ stage = "adding" /\ ~Scanning
  /\ library.next >= Len(Libraries[library.path])
  /\ library' = NoLibrary
  /\ UNCHANGED <<operators, pending, scans, stage>>

LibraryEntered ==
  /\ stage = "adding" /\ ~Scanning
  /\ library.next > Len(Libraries[library.path])
  /\ library' = NoLibrary
  /\ UNCHANGED <<operators, pending, scans, stage>>

PathsSearched ==
  /\ stage = "adding" /\ pending = <<>> /\ scans = <<>> /\ Scanning
  /\ stage' = "searched"
  /\ UNCHANGED <<operators, pending, scans, library>>

RegistryNext ==
  SearchPath \/ ReadEntry \/ CloseDirectory \/ EnterOperator \/ DuplicateName
  \/ LibraryEntered \/ PathsSearched
-----------------------------------------------------------------------------
\* A name denotes the same operator for as long as the program runs, and it is
\* the operator's own name: Operators.cpp:198 and 205.
Denotes ==
  \A n \in DOMAIN operators :
    \/ n \in BuiltIns /\ operators[n].nr = 0
    \/ LET o == operators[n] IN
       /\ o.path \in DOMAIN Libraries
       /\ o.nr \in 1 .. Len(Libraries[o.path])
       /\ Libraries[o.path][o.nr] = n
=============================================================================
