SPECIFICATION SpecAll
CONSTANTS
  Propositions <- MCPropositions
  PropositionOrder <- MCOrder
  Calls <- MCCalls
  DalalCalls <- MCDalalCalls
  MajorityCalls <- MCMajorityCalls
  RelationCalls <- MCRelationCalls
  DistanceKey = "bsdistance"
  Aberrations = {"aberration", "dalal", "dal"}
  MaxApplications = 2
CHECK_DEADLOCK FALSE
INVARIANTS
  ShortcutsMeanTheirTriples
