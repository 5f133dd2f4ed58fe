SPECIFICATION IrSpec
CONSTANTS
  PACKET_SIZE = 4
  LineLengths = {2, 3, 4}
  Keys = {"PLAY", "STOP"}
  NoKey = NoKey
  UnknownKey = UnknownKey
  MaxLines = 4
PROPERTY PressActsOnce
CHECK_DEADLOCK FALSE
