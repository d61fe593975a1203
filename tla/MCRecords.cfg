SPECIFICATION RecordsSpec
CONSTANTS
  Samples = {0, 20, 600000000}
  PEEKELEMS = 7
  MaxSamples = 6
  Parts = {"compress", "peek", "record", "onehz", "slow",
           "fast", "archive", "config", "serial", "continuity", "crash",
           "thread", "media", "control", "threshold", "limits", "murdock",
           "hits", "peaks", "buffer", "statistics"}
INVARIANTS
  RecordsAreExact
  DerivedAreExact
  ArchiveIsExact
  ContinuityIsExact
  DetectorsAreExact
  StatisticsAreExact
PROPERTIES
  NothingIsDropped
  DetectionsAreExact
CHECK_DEADLOCK FALSE
