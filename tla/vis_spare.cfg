SPECIFICATION VisSpec
CONSTANTS
  NumBlocks = 3
  PagesPerBlock = 2
  PE_LIMIT = 100
  Data = {d1}
  Blank = Blank
  LBA = {l1, l2, l3}
  Unmapped = Unmapped
  NoWrite = NoWrite
  LowWatermark = 40
  Intervals = {1}
  MaxErase = 6
  CacheSize = 2
  latency <- MLC
  MaxRequests = 1000000
SYMMETRY Symmetry
VIEW WithoutCounters
INVARIANTS TablesInverse
PROPERTIES MirrorsCpp
CHECK_DEADLOCK FALSE
