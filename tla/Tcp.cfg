CONSTANTS
  TCP_MAX_CONNECTIONS = 2
  TCP_RX_BUFFER_SIZE = 3
  MSS = 1
  MAX_PORT = 2
  STREAM = 2
  MAX_SEND = 1
SPECIFICATION Spec
INVARIANTS TypeOK AckNotAhead NoSlotLeaked AckedIsKept
PROPERTY ReadsStream
CHECK_DEADLOCK FALSE
