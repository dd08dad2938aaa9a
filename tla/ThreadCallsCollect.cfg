SPECIFICATION Spec
CONSTANTS
  Capacity = 2
  Cells = {1}
  Leftovers <- Clear
  Programs <- Collects
PROPERTY CallsReturn
CHECK_DEADLOCK FALSE
