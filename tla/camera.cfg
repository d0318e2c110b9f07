CONSTANTS
  Streams = {s1}
  Snappers = {p1}
  MaxFrames = 3
SPECIFICATION FairSpec
INVARIANTS
  TypeOK
  AtMostThrice
  DeliveryInv
  SnapshotFresh
PROPERTIES
  ImplementsLossyFeed
  CallbackNeverBlocked
  HandlerEnds
  CatchesUp
