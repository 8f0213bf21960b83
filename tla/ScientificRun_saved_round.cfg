CONSTANTS
  MaxRevisions = 2
  RevisionOptions = {2}
  CycleLimit = 1
  CycleOptions = {0}
  Requests = {"ask"}
  Outputs = {"o1"}
  Verdicts = {"APPROVE", "REVISE", "INSUFFICIENT"}
  GappedSnapshots = {}
  GappedChildren = {}
  ReportsChange = FALSE
  MaxSnapshot = 1
SPECIFICATION Spec
INVARIANT SavedRoundIsReused
