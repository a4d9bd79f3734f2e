SPECIFICATION FairSpec
CONSTANTS
  Ids = {t1, t2}
  MaxConcurrent = 1
  ConcurrentSubmit = TRUE
  CancelAllowed = TRUE
INVARIANTS NoOrphan CancelReaches
PROPERTIES DrainedWins DroppedIsReported CancelUnwinds DrainEndsOrStarves
