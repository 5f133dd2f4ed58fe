SPECIFICATION MCSpec
CONSTANT
  Texts <- MCTexts
CHECK_DEADLOCK FALSE
INVARIANT
  MessageIsTakenWhole
