SPECIFICATION SpecLinear
CONSTANTS
  p1 = p1
  c1 = c1
  Byte <- MCByte
  Zero <- MCZero
  BufferSizes <- MCBufferSizes
  MaxTransfer = 3
  Producers <- OneProducer
  Consumers <- OneConsumer
INVARIANT
  SpansApart
PROPERTIES
  ImplementsByteQueue
  PublishesWhatWasStored
  ConsumesWhatWasLoaded
