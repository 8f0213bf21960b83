CONSTANTS
  Callers = {c1, c2}
  Curators = {alice}
  PdfStructures = {p1, f1}
  HtmlStructures = {}
  FirstRep = "pdf"
  Partial = {p1}
  Complete = {f1}
  Decisions = {"accepted", "rejected"}
  None = None
  MaxSelections = 2
  MaxPromotions = 3
  MaxDecisions = 4
SYMMETRY Symmetry
SPECIFICATION Spec
INVARIANT TrustedOnlyWhileCurrent
CHECK_DEADLOCK FALSE
