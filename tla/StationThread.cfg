CONSTANT
  Contexts = {c1}
SPECIFICATION FairSpec
INVARIANTS
  TypeOK
  ParkedIsUnregistered
  InFlightIsQueued
  ClosedIsLeaving
PROPERTIES
  SessionOrder
  IdleHonoured
