\* Whether an answer is for the oldest miss when the DRAM takes every handshake.
CONSTANTS
  NUM_CORES = 2
  WAYS = 2
  WAY_SPAN = 2
  NUM_SETS = 1
  NUM_SETS_BITS = 0
  LINE_BITS_CLOG2 = 9
  NUM_MSHRS = 2
  ZeroLine = ZeroLine
  Line = {ZeroLine, d1}
  EntryPins <- OneRead
  DramPins  <- AnyDram
  SnoopPins <- NoSnoop
  TagPins   <- EmptyTags
  DataPins  <- ZeroData
SPECIFICATION AxiSpec
INVARIANT AnsweredAsAsked
