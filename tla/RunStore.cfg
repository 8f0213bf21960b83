CONSTANTS
  Procs = {p, q}
  Contents = {a, b}
  MaxVersions = 3
  MaxClaims = 1
SYMMETRY Symmetry
SPECIFICATION Spec
INVARIANTS
  HistoryComplete
  BindingsHold
PROPERTY ResumeKeepsWork
