SPECIFICATION Spec
CONSTANTS
  Magic <- FrameMagic
  SerialLen = 1
  PasswordLen = 1
  MinLen = 13
  MaxLen = 17
  Messages <- Said
  Password <- Filler
  Frames <- GoodFrames
  Rubbish <- Noise
  Serials <- Typed
  MaxPieces = 4
INVARIANT ChunkingIrrelevant
INVARIANT IntactDelivered
INVARIANT BufferBounded
INVARIANT DamageContained
INVARIANT DamageUnheard
INVARIANT Resynchronises
INVARIANT SaidIsHeard
INVARIANT SerialsRecognised
PROPERTY FeedReturns
