SPECIFICATION MCSpec
CONSTANTS
  Data <- MCHostData
  MaxMessages = 3
  MaxKeys = 2
INVARIANTS
  OneInterruptionByQueued
  PositionFollowsAngle
