SPECIFICATION Spec
CONSTANTS
  MaxClients = 2
  StandAlone = TRUE
  Ops = {"disconnect"}
INVARIANT OwnSocket
CHECK_DEADLOCK FALSE
