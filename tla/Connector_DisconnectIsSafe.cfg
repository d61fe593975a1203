CONSTANTS
  Contexts = {c1}
  NIL = NIL
  None = None
SPECIFICATION SpecConnector
INVARIANT DisconnectIsSafe
CHECK_DEADLOCK FALSE
