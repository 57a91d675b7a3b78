SPECIFICATION DrawingSpec
CONSTANTS
  Overflows = {0, 1, 7, 100}
CHECK_DEADLOCK FALSE
INVARIANTS
  DrawnExactly
PROPERTIES
  WordsGlide
