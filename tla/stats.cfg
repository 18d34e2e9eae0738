SPECIFICATION StatSpec
CONSTANTS
  NumBlocks = 3
  PagesPerBlock = 2
  PE_LIMIT = 3
  Data = {d1}
  Blank = Blank
  LBA = {l1, l2, l3}
  Unmapped = Unmapped
  NoWrite = NoWrite
  LowWatermark = 15
  Intervals = {5}
  MaxErase = 3
  CacheSize = 1
  latency <- MLC
  MaxRequests = 8
SYMMETRY Symmetry
INVARIANTS StatTypeOK NandTimeAccounted ProgramsMatchArray WornOutReport
PROPERTIES WritesAccountedFor
