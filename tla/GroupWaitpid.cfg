SPECIFICATION GroupSpec
CONSTANTS
  Ids = {1, 2, 3}
  Processes = {1, 2}
  ReuseIds = FALSE
  Waitpid = TRUE
INVARIANT WaitEnsure
CHECK_DEADLOCK FALSE
