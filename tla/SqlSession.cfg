SPECIFICATION SessionSpec
CONSTANTS
  Texts <- MCTexts
  MaxErrors = 3
INVARIANT TreeOfTheRest
PROPERTY EveryTextAnswered
CHECK_DEADLOCK FALSE
