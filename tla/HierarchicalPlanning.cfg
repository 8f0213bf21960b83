CONSTANTS
  CycleLimit = 2
  CycleOptions = {0, 2}
  Requests = {"ask"}
  Gapped = {1}
  Triages = {"retain", "need", "human", "nothing_retained"}
  MaxSnapshot = 2
SPECIFICATION FairSpec
INVARIANTS
  HumanBoundary
  OneInputPerRoot
PROPERTIES
  StagesCalledOnce
  CallReturns
