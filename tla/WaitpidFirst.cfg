SPECIFICATION JobSpec
CONSTANTS
  Children = {c1}
  Delays = {}
  MaxCalls = 1
PROPERTY EveryEndReported
