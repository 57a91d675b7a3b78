SPECIFICATION Spec
CONSTANTS
  TrackIds = {1, 2, 3}
  Metadata <- MCMetadata
  MetadataOf <- MCMetadataOf
  None = None
  DeviceQueue <- MCDeviceQueue
  DeviceRepeat = TRUE
  MaxQueueTracks = 3
  TrackCacheLen = 2
  PredictionTtl = 1
  Worlds <- MCFollowed
CHECK_DEADLOCK FALSE
PROPERTIES
  ComesToAgree
