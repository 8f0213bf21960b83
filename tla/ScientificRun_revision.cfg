CONSTANTS
  MaxRevisions = 2
  RevisionOptions = {2}
  CycleLimit = 1
  CycleOptions = {1}
  Requests = {"ask"}
  Outputs = {"o1"}
  Verdicts = {"APPROVE", "REVISE", "INSUFFICIENT"}
  GappedSnapshots = {2}
  GappedChildren = {}
  ReportsChange = TRUE
  MaxSnapshot = 2
SPECIFICATION FairSpec
INVARIANTS
  RoundsPaid
  GlobalBudget
  ApprovedIsExportable
PROPERTIES
  ChainsAdvance
  AtMostOnce
  CallReturns
  EvidenceContract
