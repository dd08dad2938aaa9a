SPECIFICATION Spec
CONSTANTS
  Capacity = 4
  Cells = {1, 2, 3}
  Leftovers <- SomeLeft
  Programs <- StartsAndAll
INVARIANTS QueuesSound RunOnce BarrierCountsAll
PROPERTIES CrossTogether StartReturns
CHECK_DEADLOCK FALSE
