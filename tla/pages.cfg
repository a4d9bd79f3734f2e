SPECIFICATION Spec
CONSTANTS
  Tasks = {1, 2, 3}
  Limits = {1, 2}
  DayLength = 2
  MaxClock = 3
INVARIANTS TypeOK SkipsRestOfDayOnly
PROPERTY WalkAscends
