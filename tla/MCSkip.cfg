SPECIFICATION Spec
CONSTANTS
  TrackIds = {1, 2, 3}
  Metadata <- MCMetadata
  MetadataOf <- MCMetadataOf
  None = None
  DeviceQueue <- MCDeviceQueue
  DeviceRepeat = TRUE
  MaxQueueTracks = 3
  TrackCacheLen = 2
  PredictionTtl = 1
  Worlds <- MCSkips
CHECK_DEADLOCK FALSE
INVARIANTS
  TypeOK
  NeverDeaf
  CacheIsTrue
  HeldGuessIsWhole
  AgreesWhenQuiet
