SPECIFICATION Spec
CONSTANTS
  Capacity = 4
  Cells = {1, 2, 3}
  Leftovers <- Clear
  Programs <- Waits
INVARIANT WaitedRunOnce
CHECK_DEADLOCK FALSE
