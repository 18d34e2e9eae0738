SPECIFICATION PlayFairSpec
CONSTANTS
  NumBlocks = 4
  PagesPerBlock = 4
  PE_LIMIT = 10
  LBA = {0, 10, 20, 30, 200}
  Data = {0, 1, 2, 3, 4, 5, 6, 7, 8, 9, 10}
  Blank = Blank
  Unmapped = Unmapped
  NoWrite = NoWrite
  LowWatermark = 25
  Intervals = {1}
  MaxErase = 100
  CacheSize = 8
  latency <- MLC
  MaxRequests = 1000000
  coldLbas = 4
  hotLbas = 1
  hotRounds = 10
  Speeds = {0, 1, 5, 20}
  HistoryLength = 8
  MaxRuns = 2
INVARIANTS PlayTypeOK FramesAreCurrent FiguresAreCurrent StatusTellsPlayback WorkloadPlayed
PROPERTIES RunsComplete
