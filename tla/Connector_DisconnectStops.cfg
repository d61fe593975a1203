CONSTANTS
  Contexts = {c1}
  NIL = NIL
  None = None
SPECIFICATION SpecConnector
INVARIANT DisconnectStops
CHECK_DEADLOCK FALSE
