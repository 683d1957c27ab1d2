SPECIFICATION Spec
CONSTANTS
  Atoms <- MCAtoms
  KeyValues <- MCKeyValues
  UserOperators <- MCUserOperators
  Contribution <- MCContribution
  Programs <- MCPrograms
  Main = "main"
  Broken <- MCBroken
  Solutions <- MCSolutions
  Exprs <- MCExprs
  Body <- MCBody
  Wants <- SoundWants
  Reads <- MCReads
  Rank <- MCRank
  MaxCacheEntries <- Unlimited
  MaxRepeats = 1
  Nothing = Nothing
INVARIANTS
  NoNullDereference
  LoadedOnce
  HandleDenotesCall
