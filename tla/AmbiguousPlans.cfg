SPECIFICATION Spec
CONSTANTS
  Atoms <- MCAtoms
  KeyValues <- MCKeyValues
  UserOperators <- MCUserOperators
  Contribution <- MCContribution
  Content <- MCContent
  Broken <- MCBroken
  Plans <- AmbiguousPlans
  Segments <- MCSegments
INVARIANTS
  MergedAsPlanned
