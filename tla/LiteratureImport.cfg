CONSTANTS
  LastPage = 2
  Resources = {r1, r2}
  DOIs = {r1}
  Literature = {l1}
  PageLimits = {1, 2}
  DepthLimits = {0, 1}
  ResourceLimits = {1, 2}
SPECIFICATION ImportSpec
INVARIANTS
  ProvenIsExhaustive
  StrongestDecision
  EveryResourceAnswered
  IngestedIsBacked
