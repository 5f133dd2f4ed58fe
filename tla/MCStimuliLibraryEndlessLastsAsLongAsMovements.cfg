SPECIFICATION MCSpec
CONSTANTS
  NoData = NoData
  FileLength <- MCFileLength
  FractionLimit = 3
  RestFallsShort <- MCRestFallsShort
  LimitIsExceeded <- MCLimitIsExceeded
  MaxQueue = 2
PROPERTY EndlessLastsAsLongAsMovements
