SPECIFICATION Spec
CONSTANTS
  Ids = {1, 2, 3}
  Processes = {1, 2, 3, 4}
  ReuseIds = TRUE
  Waitpid = FALSE
  MaxLaunches = 3
  MaxFailures = 1
  Counts = {2}
INVARIANTS WaitProcessEnsure CountIsRunning
CHECK_DEADLOCK FALSE
