SPECIFICATION Spec
CONSTANTS
  Titles = {"", "waiting", "t1", "t2", "t3", "p1"}
  NoTitle = ""
  Waiting = "waiting"
  Uris = {"u1", "u2"}
  NoUri = "none"
  None = None
  Slots = {1}
  VolumeMax = 0
  VolumeStep = 2
  RestartThreshold = 3
  ProgressTolerance = 3
  TicksPerSecond = 1
  OptimisticTtl = 1
  StaleGrace = 1
  LoadingTimeout = 9
  VolumeOverlay = 1
  Queue <- MCQueue
  PinList <- MCPinList
  PinStarts <- MCPinStarts
  PoolSize = 3
  RequestCapacity = 4
  MaxTouches = 1
  MaxKeys = 0
  MaxMoves = 3
  MaxFailures = 2
  MaxTime = 1
CHECK_DEADLOCK FALSE
PROPERTIES
  NoViewOfTheSlot
