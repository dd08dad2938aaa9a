SPECIFICATION Spec
CONSTANTS
  Capacity = 2
  Cells = {1}
  Leftovers <- Clear
  Programs <- Collects
INVARIANT RootsNotified
CHECK_DEADLOCK FALSE
