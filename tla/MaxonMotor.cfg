SPECIFICATION MotorSpec
CONSTANTS
  Speeds = {10}
  MaxTroubles = 3
INVARIANTS
  MotorTypeOK
  EndsDisabled
  RampNeedsAFailedCall
PROPERTIES
  InitializeMakesReady
  SeenErrorIsRepaired
