CONSTANTS
  Topics = {BH}
  LastSecond = 2
  MaxCuts = 1
SPECIFICATION Spec
PROPERTY
  NewerTimestamp
CHECK_DEADLOCK FALSE
