SPECIFICATION Spec
CONSTANTS
  None = None
  Sides = {"firmware", "simulator"}
  Channels = {1, 6}
  Attempts = 3
  MaxMoves = 2
  MaxDrops = 1
  MaxCloses = 2
  MaxReboots = 1
  MaxRefusals = 1
  MaxPresses = 3
  MaxOthers = 1
CHECK_DEADLOCK FALSE
INVARIANTS
  TypeOK
  SubscribedIsHeard
PROPERTIES
  HeardDropsAreMended
  ComesToHear
  SelectToggles
