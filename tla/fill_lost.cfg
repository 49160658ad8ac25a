\* Whether a fill leaves a line behind in the arrays.
CONSTANTS
  NUM_CORES = 2
  WAYS = 2
  WAY_SPAN = 2
  NUM_SETS = 2
  NUM_SETS_BITS = 1
  LINE_BITS_CLOG2 = 9
  NUM_MSHRS = 2
  ZeroLine = ZeroLine
  XLine = XLine
  XRow = XRow
  Line = {ZeroLine, XLine, d1}
  AnyRow    <- UnknownRows
  EntryPins <- OneMiss
  DramPins  <- ReadyReads
  SnoopPins <- NoSnoop
  TagPins   <- PortRows
  DataPins  <- PortLines
SPECIFICATION FillingSpec
PROPERTY FilledLineKept
