\* The cache with its data and tag arrays: fills, stale row addresses, late write samples.
CONSTANTS
  NUM_CORES = 2
  WAYS = 2
  WAY_SPAN = 2
  NUM_SETS = 3
  NUM_SETS_BITS = 2
  LINE_BITS_CLOG2 = 9
  NUM_MSHRS = 2
  ZeroLine = ZeroLine
  XLine = XLine
  XRow = XRow
  Line = {ZeroLine, XLine, d1}
  AnyRow    <- UnknownRows
  EntryPins <- TwoMisses
  DramPins  <- ReadsOnly
  SnoopPins <- NoSnoop
  TagPins   <- PortRows
  DataPins  <- PortLines
SPECIFICATION ArraysSpec
INVARIANT NeverHits
INVARIANT ExitLinesZero
INVARIANT UnaskedSetsClean
INVARIANT RowsInWayZero
