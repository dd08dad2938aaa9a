SPECIFICATION JobSpec
CONSTANTS
  Children = {c1, c2}
  Delays = {1}
  MaxCalls = 3
INVARIANTS EndsAccounted ArmedOrTriggered
PROPERTY EndsReported
