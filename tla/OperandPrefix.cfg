SPECIFICATION Spec
CONSTANTS
  Atoms <- MCAtoms
  KeyValues <- MCKeyValues
  UserOperators <- MCUserOperators
  Contribution <- MCContribution
  Programs <- MCPrograms
  Main = "main"
  Broken <- MCBroken
  Solutions <- MCSolutions
  Exprs <- MCExprs
  Body <- MCBody
  Wants <- PrefixWants
  Reads <- PrefixReads
  Rank <- MCRank
  MaxCacheEntries <- Unlimited
  MaxRepeats = 0
  Nothing = Nothing
INVARIANTS
  HandleDenotesCall
