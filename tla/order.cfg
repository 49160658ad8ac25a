\* The ring of MSHRs with a DRAM that is fair and answers in order.
CONSTANTS
  NUM_CORES = 2
  WAYS = 2
  WAY_SPAN = 2
  NUM_SETS = 1
  NUM_SETS_BITS = 0
  LINE_BITS_CLOG2 = 9
  NUM_MSHRS = 2
  ZeroLine = ZeroLine
  Line = {ZeroLine, d1}
  EntryPins <- ThreeLines
  DramPins  <- OneAnswer
  SnoopPins <- StraySnoop
  TagPins   <- EmptyTags
  DataPins  <- ZeroData
SPECIFICATION FairSpec
INVARIANT RingExact
PROPERTY ServesInOrder
PROPERTY MissesServed
PROPERTY OldestAdvances
