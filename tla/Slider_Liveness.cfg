CONSTANTS
  SeqMod = 6
  BufCount = 2
  WINBUFS = 2
  Window = 2
  AckCount = 2
  Lifetime = 2
  FirstPacket = 6
  MaxPackets = 9
  MaxInFlight = 2
  NoPacket = NoPacket
  DT_OPEN = DT_OPEN
SPECIFICATION FairSpec
PROPERTY
  EverythingIsTaken
