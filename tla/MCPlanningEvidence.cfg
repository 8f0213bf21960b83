CONSTANTS
  r1 = r1
  r2 = r2
  r3 = r3
  r4 = r4
  both = both
  one = one
  disputed = disputed
  choice = choice
  c1 = c1
  c2 = c2
  k1 = k1
  k2 = k2
  Records <- MCRecords
  Literature <- MCLiterature
  Relations <- MCRelations
  Questions <- MCQuestions
  Original = both
  Finds <- MCFinds
  Demands <- MCDemands
  States <- MCStates
  Experts <- MCExperts
  KindOf <- MCKindOf
  Needs <- MCNeeds
  Claims <- MCClaims
  Conflicts <- MCConflicts
  CycleLimit = 2
  MaxRequests = 2
  MaxDirections = 2
SPECIFICATION Spec
INVARIANTS
  EvidenceAdmitted
  ClosedIsProved
  ObligationsKept
CHECK_DEADLOCK FALSE
