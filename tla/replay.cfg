SPECIFICATION ReplayFairSpec
CONSTANTS
  NumBlocks = 2
  PagesPerBlock = 2
  PE_LIMIT = 100
  DefaultData = DefaultData
  Data = {d1, DefaultData}
  Blank = Blank
  Missing = Missing
  LBA = {l1, l2, l3}
  Unmapped = Unmapped
  NoWrite = NoWrite
  LowWatermark = 0
  Intervals = {}
  MaxErase = 20
  CacheSize = 1
  MaxLines = 5
  Candidates = 3
  STATIC_WL_INTERVAL = 1
INVARIANTS ReplayTypeOK ReplayedTraceInNand
CHECK_DEADLOCK FALSE
PROPERTIES ReplayEnds CallsReturn WritesComplete
