SPECIFICATION Spec
CONSTANTS
  Titles = {"", "waiting", "t1", "t2", "p1"}
  NoTitle = ""
  Waiting = "waiting"
  Unsung = {"p1", "t2"}
  Uris = {"u1", "u2"}
  NoUri = "none"
  None = None
  Slots = {1, 2, 3, 4}
  VolumeMax = 2
  VolumeStep = 2
  RestartThreshold = 3
  ProgressTolerance = 3
  TicksPerSecond = 2
  OptimisticTtl = 2
  StaleGrace = 1
  LoadingTimeout = 3
  VolumeOverlay = 1
  Phases = 2
  Targets = {"panel"}
  Worlds <- MCWorlds
CHECK_DEADLOCK FALSE
INVARIANTS
  TypeOK
  PanelIsTrue
  CoverIsWhole
  NoCarriedRing
  LeftRightReachAll
  StopwatchCounts
