CONSTANTS
  Topics = {BH}
  LastSecond = 3
  MaxCuts = 1
SPECIFICATION FairSpec
INVARIANTS
  OneSecondPerRecord
  CompleteAndInOrder
PROPERTIES
  FrozenOnceQueued
  QueueDrains
\* All the seconds of data have been delivered.
CHECK_DEADLOCK FALSE
