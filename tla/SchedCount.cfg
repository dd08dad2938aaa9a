SPECIFICATION Spec
CONSTANTS
  Ids = {1, 2, 3}
  Processes = {1, 2, 3, 4}
  ReuseIds = TRUE
  Waitpid = FALSE
  MaxLaunches = 3
  MaxFailures = 0
  Counts = {1, 2}
INVARIANT ProcessCountInRange
CHECK_DEADLOCK FALSE
