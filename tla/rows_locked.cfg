SPECIFICATION FairSpec
CONSTANTS
  Workers = {w1, w2}
  Nobody = nobody
  RowLock = TRUE
  Burst = 2
  Cost = 2
  Refills = TRUE
  MaxClock = 3
INVARIANTS TypeOK GrantBound
PROPERTIES ImplementsAtomic CallsEnd
