SPECIFICATION FairSpec
CONSTANTS
  Requests  <- Reads
  LongSkips <- Skips
  ByteSkips = {0, 1, 2}
  MaxOverrun = 4
  Sizes     <- BufferSizes
INVARIANT TypeOK
INVARIANT StoreIsTail
INVARIANT InBuffer
INVARIANT ByteInxIsCursorByte
INVARIANT AlignedSkipIsExact
PROPERTY ImplementsBitReader
PROPERTY CallsReturn
