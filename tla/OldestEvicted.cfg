SPECIFICATION Spec
CONSTANTS
  Atoms <- MCAtoms
  KeyValues <- MCKeyValues
  UserOperators <- MCUserOperators
  Contribution <- MCContribution
  Programs <- MCPrograms
  Main = "main"
  Broken <- MCBroken
  Solutions <- MCSolutions
  Exprs <- MCExprs
  Body <- MCBody
  Wants <- MCWants
  Reads <- MCReads
  Rank <- MCRank
  MaxCacheEntries = 2
  MaxRepeats = 0
  Nothing = Nothing
INVARIANTS
  EvictsOldest
