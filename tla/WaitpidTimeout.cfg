SPECIFICATION JobSpec
CONSTANTS
  Children = {c1}
  Delays = {1}
  MaxCalls = 1
INVARIANT TimeoutPassed
