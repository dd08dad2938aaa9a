SPECIFICATION Spec
CONSTANTS
  a = a  b = b  c = c
  Jobs = {a, b, c}
  Priority <- Prio
  MaxLoops = 2
  Programs = {{"finish", "add", "new"}, {"finish", "finish_other", "add", "new", "push", "break", "exit"}}
INVARIANTS EveryJobOnce BatchOfOnePriority
PROPERTY RunReturns
CHECK_DEADLOCK FALSE
