CONSTANT Bodies <- MCBodies
SPECIFICATION FairSpec
INVARIANTS
  TypeOK
  BytesInOrder
  NothingMissing
  LimitExact
  PeekBounded
PROPERTIES
  SilentAfterStop
  CancelEndsRead
