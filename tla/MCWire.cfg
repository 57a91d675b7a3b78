SPECIFICATION WireSpec
CONSTANTS
  Words <- MCWords
  Messages <- MCMessages
  Texts <- MCTexts
  MaxArgs = 2
  MaxLine = 24
  MaxSaid = 3
  MaxGaps = 1
CHECK_DEADLOCK FALSE
INVARIANTS
  HeardIsSaid
  InStep
  AskedIsMeant
