SPECIFICATION Spec
CONSTANTS
  NumBlocks = 2
  PagesPerBlock = 2
  PE_LIMIT = 100
  Data = {d1}
  Blank = Blank
  LBA <- LBAsWithSentinel
  Unmapped = Unmapped
  NoWrite = NoWrite
  LowWatermark = 40
  Intervals = {1}
  MaxErase = 3

INVARIANT MappingIntegrity

