SPECIFICATION Spec
CONSTANTS
  MaxClients = 2
  StandAlone = FALSE
  Ops = {"disconnect", "shutdown"}
PROPERTY ShutdownHandled
CHECK_DEADLOCK FALSE
