SPECIFICATION Spec
CONSTANTS
  Ids = {t1, t2, t3}
  MaxConcurrent = 2
  ConcurrentSubmit = FALSE
  CancelAllowed = TRUE
SYMMETRY Symmetry
INVARIANTS TypeOK LiveWithinCap Tracked
PROPERTIES ReportTruthful QuietAfterDrain KeepsContract
