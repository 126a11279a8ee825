SPECIFICATION Spec
CONSTANTS
  MaxLoginFrames = 2
  Ratings = {0, 16}
  Amperes = {16, 32}
  Limits = {0, 4, 250}
  SyncClock = TRUE
  AckRecords = TRUE
  RecordCount = 3
  Unreadable = {2}
  MaxInFlight = 2
  MaxCount = 3
INVARIANT LockedIsSilent
