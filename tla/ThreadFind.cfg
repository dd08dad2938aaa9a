SPECIFICATION Spec
CONSTANTS
  Capacity = 3
  Cells = {1, 2}
  Leftovers <- Clear
  Programs <- StartsAndCollects
INVARIANT FindProceeds
CHECK_DEADLOCK FALSE
