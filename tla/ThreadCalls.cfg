SPECIFICATION Spec
CONSTANTS
  Capacity = 2
  Cells = {1}
  Leftovers <- Clear
  Programs <- WaitsAndCollects
PROPERTY CallsReturn
CHECK_DEADLOCK FALSE
