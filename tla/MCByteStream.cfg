SPECIFICATION StreamSpec
CONSTANTS
  Byte <- MCByte
  Zero <- MCZero
  BufferSizes <- MCBufferSizes
  MaxTransfer = 4
  Widths = {1, 2}
  MaxElements = 3
INVARIANTS
  TypeOK
  IndexCoherence
PROPERTIES
  StreamImplementsByteQueue
  RoundTrip
