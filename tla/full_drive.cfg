SPECIFICATION CtrlSpec
CONSTANTS
  NumBlocks = 2
  PagesPerBlock = 3
  PE_LIMIT = 100
  Data = {d1, d2}
  Blank = Blank
  LBA = {l1, l2, l3, l4}
  Unmapped = Unmapped
  NoWrite = NoWrite
  LowWatermark = 20
  Intervals = {1}
  MaxErase = 3
  CacheSize = 1
SYMMETRY Symmetry

PROPERTIES DirtyEntriesReachNand
