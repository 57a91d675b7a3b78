SPECIFICATION Spec
CONSTANTS
  Titles = {"", "waiting", "t1", "t2", "t3", "p1"}
  NoTitle = ""
  Waiting = "waiting"
  Uris = {"u1", "u2", "u3"}
  NoUri = "none"
  None = None
  Slots = {1}
  VolumeMax = 0
  VolumeStep = 2
  RestartThreshold = 3
  ProgressTolerance = 3
  TicksPerSecond = 1
  OptimisticTtl = 1
  StaleGrace = 1
  LoadingTimeout = 9
  VolumeOverlay = 1
  Worlds <- MCWorlds
CHECK_DEADLOCK FALSE
INVARIANTS
  TypeOK
PROPERTIES
  WordsCome
  PictureComes
  ScreenFollows
