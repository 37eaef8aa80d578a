\* Lines of one fragment behind a start are enough to lose a character.
CONSTANTS
  LittleEndian = TRUE
  MaxFragments = 1
  MaxLineFragments = 1
  CodeStep = 100000
  MaxItems = 2
  Values <- MCValues
  Keys <- MCKeys
  Texts <- MCTexts
SPECIFICATION Spec
INVARIANTS ContinuationJoins
CHECK_DEADLOCK FALSE
