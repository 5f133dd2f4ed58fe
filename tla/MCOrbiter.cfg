SPECIFICATION MCSpec
CONSTANTS
  NoData = NoData
  NoKey = NoKey
  UnknownKey = UnknownKey
  FileLength <- MCFileLength
  FractionLimit = 10000
  RestFallsShort = {}
  LimitIsExceeded = {}
  MaxTexts = 3
  MaxKeys = 2
  MCKeys = {"PLAY", "STOP", UnknownKey}
INVARIANTS
  OrbiterTypeOK
  InstantMovementIsInstant
PROPERTIES
  RepeatedKeyDoesNotAct
  SessionRefined
  MovementsRefined
  ComesToRest
