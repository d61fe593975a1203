SPECIFICATION Spec
CONSTANTS
  Segments = 3
  Whole = 2
  MAXSPREAD = 2
  Resend = 4
  FirstSecond = 5
  LastSecond = 9
  MaxLinks = 2
  Parts = {"requests", "aborted", "status", "poc", "found", "opaque", "netserv",
           "netsent", "messages", "timing", "tokens", "client", "delays", "shim", "seconds"}
INVARIANTS
  MessagesAreExact
  TokensAreExact
  ServedInOrder
PROPERTIES
  SecondsAreExact
  RequestsAreServed
  RecordsAreSent
CHECK_DEADLOCK FALSE
