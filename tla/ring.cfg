\* Miss handling as wired: two cores, three lines, a ring of two MSHRs.
CONSTANTS
  NUM_CORES = 2
  WAYS = 2
  WAY_SPAN = 2
  NUM_SETS = 1
  NUM_SETS_BITS = 0
  LINE_BITS_CLOG2 = 9
  NUM_MSHRS = 2
  ZeroLine = ZeroLine
  Line = {ZeroLine, d1}
  EntryPins <- RingEntries
  DramPins  <- RingDram
  SnoopPins <- NoSnoop
  TagPins   <- EmptyTags
  DataPins  <- ZeroData
SPECIFICATION Spec
INVARIANT TypeOK
INVARIANT NoDuplicateMiss
PROPERTY NoMissOverwritten
PROPERTY HeldUntilAccepted
 
INVARIANT ChannelsAsAsked
