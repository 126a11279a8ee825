SPECIFICATION Safety
CONSTANTS
  OfflineTimeout = 3
  FallbackDelay = 4
  InitialDelay = 1
  RetryInterval = 2
  MaxProvisions = 0
  Attempts = {a1}
  Peers = {own}
  NoPeer = NoPeer
  Nobody = Nobody
  a1 = a1
  own = own
  Own = own
  CloseCanFail = FALSE
  AutoRepair = TRUE
INVARIANT FallbackNeverAbandoned
