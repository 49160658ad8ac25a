\* Replacement: three ways, two sets, read data on any clock.
CONSTANTS
  NUM_CORES = 2
  WAYS = 3
  WAY_SPAN = 4
  NUM_SETS = 2
  NUM_SETS_BITS = 1
  LINE_BITS_CLOG2 = 9
  NUM_MSHRS = 3
  ZeroLine = ZeroLine
  Line = {ZeroLine, d1}
  EntryPins <- FillEntries
  DramPins  <- FillDram
  SnoopPins <- NoSnoop
  TagPins   <- EmptyTags
  DataPins  <- ZeroData
SPECIFICATION Spec
INVARIANT AgesAreTurns
PROPERTY ReplacesInTurn
PROPERTY FillsPassTheTurn
