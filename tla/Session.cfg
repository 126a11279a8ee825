SPECIFICATION Spec
CONSTANTS
  MaxLoginFrames = 2
  Ratings = {}
  Amperes = {16}
  Limits = {0, 4, 250}
  SyncClock = TRUE
  AckRecords = TRUE
  RecordCount = 3
  Unreadable = {2}
  MaxInFlight = 2
  MaxCount = 3
INVARIANT LoginAnswersBounded
INVARIANT SweepOnce
INVARIANT PublishedOnce
INVARIANT StartHonoursLimit
PROPERTY AcknowledgedPublished
