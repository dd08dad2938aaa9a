SPECIFICATION GroupSpec
CONSTANTS
  Ids = {1, 2, 3, 4}
  Processes = {1, 2, 3}
  ReuseIds = FALSE
  Waitpid = FALSE
INVARIANTS GroupTypeOK GroupKnowsChildren RunningHasChild
CHECK_DEADLOCK FALSE
