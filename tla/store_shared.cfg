SPECIFICATION Spec
CONSTANTS
  Tasks = {k1}
  Runs = {r1}
  Names = {n1}
  Engines = {TRUE}
INVARIANT AcceptedRunStored
