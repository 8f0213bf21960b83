CONSTANTS
  CycleLimit = 2
  Requests = {q1, q2}
  Nothing = nothing
  Reviews = {r1, r2}
  NoReview = noReview
  MaxSnapshot = 2
SPECIFICATION FairSpec
INVARIANTS
  UncertainIsTerminal
  TerminalStops
  CompletedDistinct
  TriggerArchived
PROPERTIES
  AtMostOnce
  ResolutionEnds
