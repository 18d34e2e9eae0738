SPECIFICATION DemoFairSpec
CONSTANTS
  NumBlocks = 8
  PagesPerBlock = 8
  PE_LIMIT = 50
  LBA <- Lbas
  Data <- AllData
  Blank = Blank
  Unmapped = Unmapped
  NoWrite = NoWrite
  LowWatermark = 25
  Intervals = {}
  MaxErase = 1000
  CacheSize = 16
  latency <- SLC
  MaxRequests = 1000
  Builds <- AllBuilds
INVARIANTS DemoTypeOK TakeawaysHold SameContents ReadmeFigures
PROPERTIES DemoEnds
CHECK_DEADLOCK FALSE
