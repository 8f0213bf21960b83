CONSTANTS
  e1 = e1
  c1 = c1
  k1 = k1
  k2 = k2
  g1 = g1
  x1 = x1
  b1 = b1
  o1 = o1
  call1 = call1
  call2 = call2
  Evidence = {e1}
  Claims = {c1}
  SourcesOf <- MCSourcesOf
  Capabilities = {k1, k2}
  Gaps = {g1}
  RemedyOf <- MCRemedyOf
  Conflicts = {x1}
  SidesOf <- MCSidesOf
  CriticalCodes <- MCCriticalCodes
  NonRevisableCodes <- MCNonRevisableCodes
  Drafts <- MCDrafts
  MaxCandidates = 2
  RevisionBudgets = {0, 2}
  FlagSets <- MCFlagSets
  FixSets <- MCFixSets
  ExportIds = {"x"}
  Exporters = {call1, call2}
  MaxChanges = 1
  NoReview = NoReview
  NoPlan = NoPlan
SPECIFICATION Spec
INVARIANTS
  EveryBlockerAnswered
  CycleCheckIsExact
PROPERTIES
  ExportsAreSound
SYMMETRY MCCalls
CHECK_DEADLOCK FALSE
