CONSTANTS
  Contexts = {c1}
  NIL = NIL
  None = None
SPECIFICATION FairSpecConnector
INVARIANTS
  CleanStop
  LastNoticeIsTerm
PROPERTY
  CleanDisconnectEnds
\* After the null dereference the process is gone.
CHECK_DEADLOCK FALSE
