SPECIFICATION StatSpec
CONSTANTS
  NumBlocks = 3
  PagesPerBlock = 2
  PE_LIMIT = 100
  Data = {d1}
  Blank = Blank
  LBA = {l1, l2, l3}
  Unmapped = Unmapped
  NoWrite = NoWrite
  LowWatermark = 40
  Intervals = {}
  MaxErase = 3
  CacheSize = 1
  latency <- MLC
  MaxRequests = 6
SYMMETRY Symmetry
INVARIANTS CoalescedAvoidsNand
