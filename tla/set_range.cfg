\* Replacement in a set index that is not below NUM_SETS.
CONSTANTS
  NUM_CORES = 2
  WAYS = 2
  WAY_SPAN = 2
  NUM_SETS = 3
  NUM_SETS_BITS = 2
  LINE_BITS_CLOG2 = 9
  NUM_MSHRS = 2
  ZeroLine = ZeroLine
  Line = {ZeroLine, d1}
  EntryPins <- OutOfRangeEntries
  DramPins  <- FillDram
  SnoopPins <- NoSnoop
  TagPins   <- EmptyTags
  DataPins  <- ZeroData
SPECIFICATION Spec
PROPERTY FilledWayIsNotNext
