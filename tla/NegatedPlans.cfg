SPECIFICATION Spec
CONSTANTS
  Atoms <- MCAtoms
  KeyValues <- MCKeyValues
  UserOperators <- MCUserOperators
  Contribution <- MCContribution
  Content <- MCContent
  Broken <- MCBroken
  Plans <- NegatedPlans
  Segments <- MCSegments
INVARIANTS
  LiteralsDelivered
