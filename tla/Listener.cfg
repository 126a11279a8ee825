SPECIFICATION EntriesSpec
CONSTANTS
  Entries = {e1, e2}
  e1 = e1
  e2 = e2
  Listeners = {l1, l2}
  l1 = l1
  l2 = l2
  NoListener = NoListener
  Suffix <- SameSuffix
  NoSuffix = ""
  Adverts <- InRange
  Passwords = {"old", "new"}
  Encodable = {"new"}
  Addresses = {"a1"}
  NoAddress = "none"
  MaxChanges = 1
INVARIANT LoadedIsServed
INVARIANT OpenIsHooked
INVARIANT StoredIsOpen
INVARIANT CoordinatorCurrent
PROPERTY OutdatedGoes
CHECK_DEADLOCK FALSE
