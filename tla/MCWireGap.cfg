SPECIFICATION WireSpec
CONSTANTS
  Words <- MCWords
  Messages <- MCMessages
  Texts <- MCTexts
  MaxArgs = 2
  MaxLine = 99
  MaxSaid = 2
  MaxGaps = 1
CHECK_DEADLOCK FALSE
INVARIANTS
  TimeoutsLoseNothing
