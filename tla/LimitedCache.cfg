SPECIFICATION FairSpec
CONSTANTS
  Atoms <- MCAtoms
  KeyValues <- MCKeyValues
  UserOperators <- MCUserOperators
  Contribution <- MCContribution
  Programs <- MCPrograms
  Main = "main"
  Broken <- MCBroken
  Solutions <- MCSolutions
  Exprs <- MCExprs
  Body <- MCBody
  Wants <- MCWants
  Reads <- MCReads
  Rank <- MCRank
  MaxCacheEntries = 2
  MaxRepeats = 1
  Nothing = Nothing
INVARIANTS
  TypeOK
  IInv
  OperandsResident
  LocksCountHolders
  CountMatchesResident
  LoadsAreDisjoint
  LimitExceededOnlyForOperands
  ReadsDeliverMeaning
PROPERTIES
  Termination
  CallReferenceValid
