SPECIFICATION IrSpec
CONSTANTS
  PACKET_SIZE = 5
  LineLengths = {2, 5}
  Keys = {"PLAY", "STOP"}
  NoKey = NoKey
  UnknownKey = UnknownKey
  MaxLines = 4
INVARIANTS
  IrTypeOK
  BufferHoldsTheBytes
  NoCodeOnlyWithoutLircd
  StreamIsIntact
  CodeIsALine
PROPERTIES
  LinesArriveInOrder
  EveryLineArrives
CHECK_DEADLOCK FALSE
