\* One renamed key, one retired key and one that the table does not have.
CONSTANTS
  power = power
  missing = missing
  other = other
  noId = noId
  None = noId
  Renamed <- RenamedKeys
  Retired <- RetiredKeys
  Unknown <- UnknownKeys
  Starts <- PossibleStarts
SPECIFICATION Spec
INVARIANT NoCollision
INVARIANT IdsKept
INVARIANT NamesKept
INVARIANT Settled
