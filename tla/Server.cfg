SPECIFICATION Spec
CONSTANTS
  MaxClients = 3
  StandAlone = TRUE
  Ops = {"disconnect", "shutdown", "halt"}
INVARIANT SocketsSound
PROPERTY StandAloneStops
CHECK_DEADLOCK FALSE
