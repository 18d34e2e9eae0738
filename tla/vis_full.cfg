SPECIFICATION VisSpec
CONSTANTS
  NumBlocks = 2
  PagesPerBlock = 2
  PE_LIMIT = 100
  Data = {d1}
  Blank = Blank
  LBA = {l1, l2, l3}
  Unmapped = Unmapped
  NoWrite = NoWrite
  LowWatermark = 25
  Intervals = {0}
  MaxErase = 2
  CacheSize = 0
  latency <- MLC
  MaxRequests = 1000000
SYMMETRY Symmetry
VIEW WithoutCounters
PROPERTIES MirrorsCpp
CHECK_DEADLOCK FALSE
