SPECIFICATION MCSpec
CONSTANTS
  NoData = NoData
  NoKey = NoKey
  UnknownKey = UnknownKey
  FileLength <- MCFileLength
  FractionLimit = 10000
  RestFallsShort = {}
  LimitIsExceeded = {}
  MaxTexts = 3
  MaxKeys = 0
  MCKeys = {"PLAY"}
PROPERTY InvalidTextIsNothing
