SPECIFICATION ControlSpec
CONSTANTS
  Own = {"RQSTAT"}
  Tunnelled = {"TUNNEL", "RQSTAT"}
  Refused = {"RQSTAT"}
  CMDQSZ = 4
  Overlaps = TRUE
  Purges = TRUE
  MaxChanges = 1
  MaxSends = 3
  Parts = {"commands", "contents", "status", "sockets", "tcp", "serial",
           "base96", "cksum", "gps", "ring", "memory", "clients", "reports"}
  Modes = {"ETH", "SER", "TCP"}
  Addresses = {"q330", "baler", "bad"}
  MaxFd = 3
  Wishes = {{}, {"PLL", "SER1"}, {"SER1", "FES"}}
  q335 = FALSE
  MaxWishes = 2
  MaxOthers = 1
  MaxAborts = 1
  MaxRestarts = 1
  Reasons = {"OFFLOCK", "COLD"}
  MaxReports = 3
  PreEvent = 2
  Continuous = TRUE
  MaxRecords = 9
  HDR = 4
  MinLth = 1
  MAXMTU = 8
  Lengths = {1, 3, 8, 9}
  MaxPackets = 4
  MaxConnections = 2
INVARIANTS
  AnswerIsForHead
  RequestsAreKnown
  SocketsAreExact
  BytesArrive
  EventOutputIsExact
  DssIsExact
PROPERTIES
  CommandsAreKept
CHECK_DEADLOCK FALSE
