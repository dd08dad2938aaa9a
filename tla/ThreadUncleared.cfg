SPECIFICATION Spec
CONSTANTS
  Capacity = 3
  Cells = {1, 2}
  Leftovers <- OneLeft
  Programs <- Starts
PROPERTY StartsThread
CHECK_DEADLOCK FALSE
