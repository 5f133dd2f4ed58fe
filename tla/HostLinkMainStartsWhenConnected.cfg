SPECIFICATION LinkSpec
CONSTANTS
  MessageLength = 2
  BufferSize = 5
  MaxFd = 3
  MaxDrops = 0
  MaxMessages = 1
PROPERTY MainStartsWhenConnected
CHECK_DEADLOCK FALSE
