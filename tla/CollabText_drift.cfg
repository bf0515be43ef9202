\* The wall clock advances while a run is inserted.
SPECIFICATION Spec
CONSTANTS
  Site <- TwoSites
  Host = 1
  Initial = 1
  MaxEdit = 3
  MaxRun = 2
  MaxEarly = 0
  Ahead <- Still
  Drift <- Moves
INVARIANTS
  Converges
CHECK_DEADLOCK FALSE
