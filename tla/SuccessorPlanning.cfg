CONSTANTS
  Submissions = {s1, s2}
  CurationLimit = 4
  CycleLimit = 2
  FollowUps = {"f1"}
  MaxCandidates = 2
SYMMETRY Interchangeable
SPECIFICATION Spec
INVARIANTS
  ReceiptIsEarned
  OneCyclePerInvocation
  ApprovedLineage
  ApprovalBindsSelection
PROPERTIES
  ClaimsFollowAcceptance
  AtMostOnce
