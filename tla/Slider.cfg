CONSTANTS
  SeqMod = 8
  BufCount = 4
  WINBUFS = 3
  Window = 3
  AckCount = 2
  Lifetime = 3
  FirstPacket = 6
  MaxPackets = 11
  MaxInFlight = 2
  NoPacket = NoPacket
  DT_OPEN = DT_OPEN
SPECIFICATION Spec
INVARIANTS
  SliderTypeOK
  SlotsHoldWindow
  TakenInOrder
  AckedIsKept
PROPERTY
  ImplementsStream
