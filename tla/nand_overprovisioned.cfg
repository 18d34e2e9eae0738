SPECIFICATION Spec
CONSTANTS
  NumBlocks = 3
  PagesPerBlock = 2
  PE_LIMIT = 100
  Data = {d1, d2}
  Blank = Blank
  LBA = {l1, l2, l3, l4}
  Unmapped = Unmapped
  NoWrite = NoWrite
  LowWatermark = 40
  Intervals = {1}
  MaxErase = 5
SYMMETRY Symmetry
INVARIANTS TypeOK MappingIntegrity NoOrphan FreeReserve WearLevelFits
PROPERTIES LosslessStore WearPeakNotRaised
