SPECIFICATION Spec
CONSTANTS
  Workers = {w1, w2}
  Keys = {c1}
  Burst = 2
  Cost = 3
  Second = 2
  Refills = TRUE
  MaxElapsed = 8
  MaxLag = 2
  MaxRecovered = 3
SYMMETRY Symmetry
INVARIANTS TypeOK GrantBound RetryHonest
