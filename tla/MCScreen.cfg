SPECIFICATION Spec
CONSTANTS
  Titles = {"", "waiting", "t1", "t2", "t3", "p1", "p2"}
  NoTitle = ""
  Waiting = "waiting"
  Uris = {"u1", "u2"}
  NoUri = "none"
  None = None
  Slots = {1, 2}
  VolumeMax = 3
  VolumeStep = 2
  RestartThreshold = 3
  ProgressTolerance = 3
  TicksPerSecond = 2
  OptimisticTtl = 4
  StaleGrace = 4
  LoadingTimeout = 5
  VolumeOverlay = 1
  Worlds <- MCWorlds
CHECK_DEADLOCK FALSE
INVARIANTS
  TypeOK
  NoOrphanCover
  PinStandsIn
  GuardedPositionIsOurs
PROPERTIES
  VolumeIsHeld
