SPECIFICATION FairSpec
CONSTANTS
  Atoms <- MCAtoms
  KeyValues <- MCKeyValues
  UserOperators <- MCUserOperators
  Contribution <- MCContribution
  Content <- MCContent
  Broken <- MCBroken
  Plans <- MCPlans
  Segments <- MCSegments
INVARIANTS
  TypeOK
  OneResultPerSection
  OperandsAssembled
  AskedOnce
PROPERTIES
  ImplementsTask
  Delivery
