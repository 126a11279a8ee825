SPECIFICATION Spec
CONSTANTS
  OfflineTimeout = 3
  FallbackDelay = 4
  InitialDelay = 1
  RetryInterval = 2
  MaxProvisions = 0
  Attempts = {a1, a2}
  Peers = {own}
  NoPeer = NoPeer
  Nobody = Nobody
  a1 = a1
  a2 = a2
  own = own
  Own = own
  CloseCanFail = FALSE
  AutoRepair = TRUE
INVARIANT NoOrphanLink
PROPERTY AttemptReturns
PROPERTY DisconnectWins
PROPERTY BluetoothReleased
PROPERTY ShutdownReturns
