\* The UVM driver: directed and random sequences, held for two edges.
CONSTANTS
  NUM_CORES = 2
  WAYS = 2
  WAY_SPAN = 2
  NUM_SETS = 1
  NUM_SETS_BITS = 0
  LINE_BITS_CLOG2 = 9
  NUM_MSHRS = 2
  ZeroLine = ZeroLine
  Line = {ZeroLine, d1}
  EntryPins <- PacketsSent
  DramPins  <- AnyAnswer
  SnoopPins <- NoSnoop
  TagPins   <- EmptyTags
  DataPins  <- AnyLine
  ItemSequences <- BaseAndDirected
SPECIFICATION DriverSpec
INVARIANT OneMissEver
INVARIANT HoldStalls
INVARIANT OnlyZerosWritten
