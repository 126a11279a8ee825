SPECIFICATION Safety
CONSTANTS
  OfflineTimeout = 6
  FallbackDelay = 8
  InitialDelay = 2
  RetryInterval = 4
  MaxProvisions = 0
  Attempts = {a1, a2}
  Peers = {own, stranger}
  NoPeer = NoPeer
  Nobody = Nobody
  a1 = a1
  a2 = a2
  own = own
  stranger = stranger
  Own = own
  CloseCanFail = TRUE
  AutoRepair = TRUE
SYMMETRY Symmetry
INVARIANT TypeOK
INVARIANT ReferenceIsLive
INVARIANT WatchdogRunning
INVARIANT SilentBeforeBluetooth
PROPERTY AvailabilityKept
PROPERTY OrphanedOnlyBy
