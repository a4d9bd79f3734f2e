SPECIFICATION Spec
CONSTANTS
  Tasks = {1, 2}
  Limits = {1}
  DayLength = 2
  MaxClock = 2
INVARIANT WalkComplete
