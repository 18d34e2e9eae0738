SPECIFICATION CtrlSpec
CONSTANTS
  NumBlocks = 3
  PagesPerBlock = 2
  PE_LIMIT = 100
  Data = {d1, d2}
  Blank = Blank
  LBA = {l1, l2, l3}
  Unmapped = Unmapped
  NoWrite = NoWrite
  LowWatermark = 40
  Intervals = {1}
  MaxErase = 2
  CacheSize = 2
SYMMETRY Symmetry
INVARIANTS CtrlTypeOK OneVersionInDRAM CleanEntriesInNand
PROPERTIES ActsAsDisk UsesNandAsHost
