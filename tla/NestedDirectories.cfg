SPECIFICATION SessionSpec
CHECK_DEADLOCK FALSE
CONSTANTS
  BuiltIns <- MCBuiltIns
  Paths <- MCPaths
  Entries <- MCEntries
  SharedObjects <- MCSharedObjects
  Libraries <- MCLibraries
  SystemDirs <- MCSystemDirs
  DefaultDlv = "dlv --"
  Described <- MCDescribed
  Commands <- MCCommands
  Tokens <- MCTokens
  PipeSize = 2
  Files <- MCFiles
  StandardInput <- Whole
  Damaged = "damaged"
  Calls <- MCCalls
  Arguments <- MCArguments
  Segments <- MCSegments
INVARIANTS
  SearchedDirectly
