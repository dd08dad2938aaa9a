SPECIFICATION GroupSpec
CONSTANTS
  Ids = {1, 2, 3}
  Processes = {1, 2}
  ReuseIds = TRUE
  Waitpid = FALSE
INVARIANT IdMapHas
CHECK_DEADLOCK FALSE
