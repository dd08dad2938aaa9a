SPECIFICATION Spec
CONSTANTS
  Jobs <- DateJobs
  Kind <- Kinds
  Period <- Periods
  Boosts = {TRUE}
  MaxTime = 6
INVARIANT EventOccurred
CHECK_DEADLOCK FALSE
