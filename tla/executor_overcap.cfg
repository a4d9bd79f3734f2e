SPECIFICATION FairSpec
CONSTANTS
  Ids = {t1, t2}
  MaxConcurrent = 1
  ConcurrentSubmit = FALSE
  CancelAllowed = FALSE
PROPERTY DrainEnds
