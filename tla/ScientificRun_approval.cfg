CONSTANTS
  MaxRevisions = 1
  RevisionOptions = {0, 1}
  CycleLimit = 1
  CycleOptions = {0}
  Requests = {"ask"}
  Outputs = {"o1"}
  Verdicts = {"APPROVE", "REVISE", "REPLAN"}
  GappedSnapshots = {}
  GappedChildren = {}
  ReportsChange = TRUE
  MaxSnapshot = 2
SPECIFICATION Spec
INVARIANT ApprovalBindsPlan
