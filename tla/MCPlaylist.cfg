SPECIFICATION Spec
CONSTANTS
  TrackIds = {1, 2, 3}
  Metadata <- MCMetadata
  MetadataOf <- MCMetadataOf
  None = None
  Queues <- MCQueues
  MaxQueueTracks = 3
  TrackCacheLen = 2
  PredictionTtl = 2
  MaxMoves = 6
  MaxTime = 3
INVARIANTS
  TypeOK
  PositionIsTheGuess
  NoReadIsWasted
  ThereAndBack
PROPERTIES
  PositionIsHeld
  NeighboursSettle
CHECK_DEADLOCK FALSE
