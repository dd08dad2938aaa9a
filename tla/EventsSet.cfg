SPECIFICATION Spec
CONSTANTS
  Jobs <- AllJobs
  Kind <- Kinds
  Period <- Periods
  Boosts = {TRUE, FALSE}
  MaxTime = 6
INVARIANTS WaitsLongEnough OccurredIfHappened
PROPERTY DatesRun
CHECK_DEADLOCK FALSE
