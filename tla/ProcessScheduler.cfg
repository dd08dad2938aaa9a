SPECIFICATION Spec
CONSTANTS
  Ids = {1, 2, 3}
  Processes = {1, 2, 3, 4, 5}
  ReuseIds = TRUE
  Waitpid = FALSE
  MaxLaunches = 5
  MaxFailures = 2
  Counts = {3}
INVARIANTS ChildrenCounted WithinMaximum FinishedOnce
PROPERTY CallsReturn
CHECK_DEADLOCK FALSE
