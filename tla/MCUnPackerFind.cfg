SPECIFICATION SpecUnPacker
CONSTANTS
  Byte <- MCByte
  Zero = 0
  BufferSizes = {5}
  MaxTransfer = 3
  Formats <- MCFormats
INVARIANT
  FindKeyFinds
