SPECIFICATION Spec
CONSTANTS
  a = a  b = b  c = c
  Jobs = {a, b}
  Priority <- Prio
  MaxLoops = 2
  Programs = {{"finish", "finish_other"}, {"finish", "add", "new"}}
INVARIANT ContinueRequire
PROPERTY OthersSuspended
CHECK_DEADLOCK FALSE
