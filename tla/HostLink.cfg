SPECIFICATION LinkSpec
CONSTANTS
  MessageLength = 2
  BufferSize = 3
  MaxFd = 2
  MaxDrops = 2
  MaxMessages = 2
INVARIANTS
  WaitsOnASocket
  LostByRaces
PROPERTIES
  BytesInOrder
  ListensInTheEnd
  SigtermClosesMotor
  SigtermIsKept
CHECK_DEADLOCK FALSE
