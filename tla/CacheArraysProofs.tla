------------------------- MODULE CacheArraysProofs -------------------------
(***************************************************************************)
(* Theorems about CacheArrays, for every value of its constants.  The      *)
(* arrays only ever hold zeros and unknown values, so that their ports     *)
(* present what TagPins and DataPins allow: the composition implements     *)
(* L2Cache, and the premise TagsAsWired of its theorems is discharged.     *)
(***************************************************************************)
EXTENDS CacheArrays, OrderlyDramProofs

(* Every value the ports may present has come through the tag port. *)
LEMMA PortsWired == TagsAsWired
  <1>1. ZeroMeta \in META_PACKET
    BY ZeroTypes
  <1> QED
    BY <1>1, ArrayAssumption DEF TagsAsWired

-----------------------------------------------------------------------------
(* ---- One memory --------------------------------------------------------- *)

(* The arrays have a cell for every set. *)
LEMMA CellsAreSets ==
  /\ Data!Addresses = Set /\ Tags!Addresses = Set
  /\ Data!NoAddr \notin Set
  BY ParameterAssumption
  DEF Data!Addresses, Tags!Addresses, Data!NoAddr, Set

(* A write changes one cell at most, that of its address. *)
LEMMA DataWrite ==
  ASSUME NEW S, NEW mem \in [Set -> S], NEW we, NEW a, NEW v \in S
  PROVE  /\ Data!Write(mem, we, a, v) \in [Set -> S]
         /\ \A s \in Set : s # a => Data!Write(mem, we, a, v)[s] = mem[s]
  BY CellsAreSets DEF Data!Write

LEMMA TagsWrite ==
  ASSUME NEW S, NEW mem \in [Set -> S], NEW we, NEW a, NEW v \in S
  PROVE  /\ Tags!Write(mem, we, a, v) \in [Set -> S]
         /\ \A s \in Set : s # a => Tags!Write(mem, we, a, v)[s] = mem[s]
  BY CellsAreSets DEF Tags!Write

-----------------------------------------------------------------------------
(* ---- The composition implements L2Cache --------------------------------- *)

(* What is stored: zeros, and the X of the write ports nobody drives. *)
CellsInv ==
  /\ data_mem \in [Way -> [Set -> {ZeroLine, XLine}]]
  /\ tag_mem  \in [Way -> [Set -> {ZeroMeta, XRow}]]

(* The ports present a zero, or an unknown row seen through the tag port. *)
LEMMA PortsPresent ==
  ASSUME CellsInv
  PROVE  /\ \A w \in Way :
              TagReads(w) \subseteq {TagPort(row) : row \in AnyRow \cup {ZeroMeta}}
         /\ DataReads \in DataPins
  <1>1. ASSUME NEW w \in Way
        PROVE  TagReads(w) \subseteq {TagPort(row) : row \in AnyRow \cup {ZeroMeta}}
    <2>1. Tags!Read(tag_mem[w], read_meta_en(w), read_addr[w]) \in {ZeroMeta, XRow}
      BY CellsAreSets DEF CellsInv, Tags!Read
    <2> QED
      BY <2>1 DEF TagReads, Presented
  <1>2. ASSUME NEW w \in Way
        PROVE  Data!Read(data_mem[w], read_en(w), read_addr[w]) \in {ZeroLine, XLine}
    BY CellsAreSets DEF CellsInv, Data!Read
  <1>3. DataReads \in [Way -> {ZeroLine, XLine}]
    BY <1>2 DEF DataReads
  <1> QED
    BY <1>1, <1>3, ArrayAssumption

LEMMA InitCells == ArraysInit => CellsInv
  BY CellsAreSets DEF ArraysInit, CellsInv, Data!Cleared, Tags!Cleared

LEMMA StepCells == CellsInv /\ [ArraysNext]_all_vars => CellsInv'
  <1> SUFFICES ASSUME CellsInv, [ArraysNext]_all_vars PROVE CellsInv'
    OBVIOUS
  <1>1. CASE ArraysClocked
    <2>1. ASSUME NEW late \in SUBSET Way
          PROVE  /\ StoredLines(late) \in [Way -> [Set -> {ZeroLine, XLine}]]
                 /\ StoredRows(late) \in [Way -> [Set -> {ZeroMeta, XRow}]]
      <3>1. ASSUME NEW w \in Way, NEW we, NEW a
            PROVE  /\ Data!Write(data_mem[w], we, a, XLine)
                        \in [Set -> {ZeroLine, XLine}]
                   /\ Tags!Write(tag_mem[w], we, a, XRow)
                        \in [Set -> {ZeroMeta, XRow}]
        BY DataWrite, TagsWrite DEF CellsInv
      <3> QED
        BY <3>1 DEF StoredLines, StoredRows
    <2> QED
      BY <1>1, <2>1 DEF ArraysClocked, CellsInv
  <1>2. CASE ArraysReset
    BY <1>2, CellsAreSets
    DEF ArraysReset, CellsInv, Data!Cleared, Tags!Cleared
  <1>3. CASE PresentArrays \/ NeighbourDrives \/ UNCHANGED all_vars
    BY <1>3 DEF PresentArrays, NeighbourDrives, all_vars, arrays, CellsInv
  <1> QED
    BY <1>1, <1>2, <1>3 DEF ArraysNext

(* Every step of the composition is a step of the cache, the presented       *)
(* values being among those its pins may take.                               *)
LEMMA StepAnyArrays == CellsInv /\ [ArraysNext]_all_vars => [Next]_vars
  <1> SUFFICES ASSUME CellsInv, [ArraysNext]_all_vars PROVE [Next]_vars
    OBVIOUS
  <1>1. CASE PresentArrays
    <2>1. PICK rows \in [Way -> UNION {TagReads(w) : w \in Way}] :
            /\ \A w \in Way : rows[w] \in TagReads(w)
            /\ DriveArrays(rows, DataReads)
      BY <1>1 DEF PresentArrays
    <2>2. rows \in TagPins
      BY <2>1, PortsPresent, ArrayAssumption
    <2> QED
      BY <2>1, <2>2, PortsPresent DEF Next
  <1>2. CASE NeighbourDrives \/ ArraysClocked \/ ArraysReset
    BY <1>2 DEF NeighbourDrives, ArraysClocked, ArraysReset, Next
  <1>3. CASE UNCHANGED all_vars
    BY <1>3 DEF all_vars
  <1> QED
    BY <1>1, <1>2, <1>3 DEF ArraysNext

(* With its own arrays, whose ports latch addresses and sample their writes  *)
(* early or late, the cache does nothing it would not do with array pins     *)
(* driven freely.                                                            *)
LEMMA ImplementsAnyArrays == ArraysSpec => Spec
  BY InitCells, StepCells, StepAnyArrays, PTL DEF ArraysSpec, ArraysInit, Spec

(* The same in one place: the invariants of L2Cache hold of the composition. *)
CacheInv == CellsInv /\ TypeOK /\ MissInv

LEMMA InitCache == ArraysInit => CacheInv
  BY InitCells, InitTypes, InitMiss DEF ArraysInit, CacheInv

LEMMA StepCache == CacheInv /\ [ArraysNext]_all_vars => CacheInv'
  BY StepCells, StepAnyArrays, StepTypes, StepMiss, PortsWired DEF CacheInv

(* With its own arrays nothing ever hits, no core is snooped and the         *)
(* registers never freeze: no premise on the tag pins is left.               *)
THEOREM NothingHitsInArrays == ArraysSpec => []NeverHits
  <1>1. CacheInv => NeverHits
    BY InvalidRows DEF CacheInv, MissInv, NeverHits
  <1> QED
    BY <1>1, InitCache, StepCache, PTL DEF ArraysSpec

(* What the cache promises of its misses and channels it promises with its   *)
(* own arrays too, for every DRAM.                                           *)
THEOREM PromisesKeptInArrays ==
  ArraysSpec => /\ []NoDuplicateMiss /\ NoMissOverwritten
                /\ []ChannelsAsAsked /\ []OnlyZerosWritten
                /\ IssuesOldest
  <1>1. TagsAsWired
    BY PortsWired
  <1>2. Spec => /\ []NoDuplicateMiss /\ NoMissOverwritten
                /\ []ChannelsAsAsked /\ []OnlyZerosWritten
                /\ IssuesOldest
    BY <1>1, MissesDistinct, MissesKept, ChannelsCarryMisses, WritesSendZeros,
       OldestIsIssued, PTL
  <1> QED
    BY <1>2, ImplementsAnyArrays, PTL

LEMMA StepOrderlyArrays ==
  CellsInv /\ [ArraysNext /\ Orderly']_all_vars
    => CellsInv' /\ [OrderlyNext]_vars
  <1> SUFFICES ASSUME CellsInv, [ArraysNext /\ Orderly']_all_vars
               PROVE  CellsInv' /\ [OrderlyNext]_vars
    OBVIOUS
  <1>1. [ArraysNext]_all_vars
    OBVIOUS
  <1>2. CellsInv' /\ [Next]_vars
    BY <1>1, StepCells, StepAnyArrays
  <1> QED
    BY <1>2 DEF OrderlyNext, all_vars

(* The cache, its arrays and a DRAM that answers in order: the ring is exact *)
(* and implements the queue of distinct misses, which is served one place    *)
(* at a time.  The only premise left is that the two moduli agree.           *)
THEOREM ServesInOrderInArrays ==
  ASSUME WrapsAgree
  PROVE  OrderlyArraysSpec => []RingExact /\ ServesInOrder /\ OldestAdvances
  <1>1. TagsAsWired
    BY PortsWired
  <1>2. OrderlySpec => []RingExact /\ ServesInOrder /\ OldestAdvances
    BY <1>1, RingStaysExact, ImplementsQueue, ServiceAdvances, PTL
  <1>3. ArraysInit => Init /\ CellsInv
    BY InitCells DEF ArraysInit
  <1>4. OrderlyArraysSpec => OrderlySpec
    BY <1>3, StepOrderlyArrays, PTL DEF OrderlyArraysSpec, OrderlySpec
  <1> QED
    BY <1>2, <1>4, PTL

-----------------------------------------------------------------------------
(* ---- No line goes out --------------------------------------------------- *)

NoLineRead == read_data = [w \in Way |-> ZeroLine]

LEMMA StepNoLine ==
  CacheInv /\ NoLineRead /\ ExitLinesZero /\ [ArraysNext]_all_vars
    => NoLineRead' /\ ExitLinesZero'
  <1> SUFFICES ASSUME CacheInv, NoLineRead, ExitLinesZero, [ArraysNext]_all_vars
               PROVE  NoLineRead' /\ ExitLinesZero'
    OBVIOUS
  <1>1. TypeOK /\ ~hit_any /\ ~ModifiedElsewhere /\ HitWay \in Way
    BY InvalidRows, ScanTypes DEF CacheInv, MissInv
  <1>2. NoLineRead'
    <2>1. DataReads = [w \in Way |-> ZeroLine]
      BY <1>1 DEF DataReads, Data!Read, read_en, HitRead
    <2> QED
      BY <2>1 DEF NoLineRead, ArraysNext, PresentArrays, NeighbourDrives,
         ArraysClocked, ArraysReset, all_vars, vars, pins, DriveArrays,
         DriveEntry, DriveDram, DriveSnoop, Clocked, ClockEdge, Resets, ResetEdge
  <1>3. ExitLinesZero'
    <2>1. CASE UpdateRegs
      <3>1. l2_exit_packet' = next_l2_exit_packet
        BY <2>1 DEF UpdateRegs, CacheInv, MissInv
      <3>2. read_data[HitWay] = ZeroLine
        BY <1>1 DEF NoLineRead
      <3>3. ASSUME NEW c \in Core
            PROVE  next_l2_exit_packet[c].cache_line = ZeroLine
        BY <1>1, <3>2 DEF next_l2_exit_packet, SnoopBack, ExitLinesZero, TypeOK,
           L2_EXIT_PACKET
      <3> QED
        BY <3>1, <3>3 DEF ExitLinesZero
    <2>2. CASE Resets
      BY <2>2 DEF Resets, ResetEdge, ExitLinesZero, ZeroExit
    <2>3. CASE UNCHANGED l2_exit_packet
      BY <2>3 DEF ExitLinesZero
    <2> QED
      BY <2>1, <2>2, <2>3 DEF ArraysNext, PresentArrays, NeighbourDrives,
         ArraysClocked, ArraysReset, all_vars, vars, regs, DriveArrays,
         DriveEntry, DriveDram, DriveSnoop, Clocked, ClockEdge
  <1> QED
    BY <1>2, <1>3

(* No core is ever given anything but the zero line, whatever the fills have *)
(* written: the data arrays are read for a hit only.                         *)
THEOREM NoLineGoesOut == ArraysSpec => []ExitLinesZero
  <1>1. ArraysInit => NoLineRead /\ ExitLinesZero
    BY DEF ArraysInit, Init, NoLineRead, ExitLinesZero, ZeroExit
  <1> QED
    BY <1>1, InitCache, StepCache, StepNoLine, PTL DEF ArraysSpec

-----------------------------------------------------------------------------
(* ---- Where writes land -------------------------------------------------- *)

(* Every address that can reach a write port is one a request has named, or  *)
(* the zero of an idle slot.                                                 *)
NamedInv ==
  /\ Named(Target.set_idx)
  /\ \A i \in MshrIdx : Named(mshrs[i].addr.set_idx)
  /\ \A w \in Way : write_addr[w] = Data!NoAddr \/ Named(write_addr[w])

LEMMA InitNamed == ArraysInit => NamedInv /\ UnaskedSetsClean
  <1> SUFFICES ASSUME ArraysInit PROVE NamedInv /\ UnaskedSetsClean
    OBVIOUS
  <1>1. Named(Target.set_idx) /\ \A i \in MshrIdx : Named(mshrs[i].addr.set_idx)
    BY DEF ArraysInit, Init, Target, Named, ZeroEntry, ZeroAddr, ZeroMshr
  <1>2. \A w \in Way : write_addr[w] = Data!NoAddr
    BY DEF ArraysInit
  <1>3. UnaskedSetsClean
    BY CellsAreSets
    DEF ArraysInit, UnaskedSetsClean, Data!Cleared, Tags!Cleared
  <1> QED
    BY <1>1, <1>2, <1>3 DEF NamedInv

LEMMA StepNamed ==
  CacheInv /\ NamedInv /\ [ArraysNext]_all_vars => NamedInv'
  <1> SUFFICES ASSUME CacheInv, NamedInv, [ArraysNext]_all_vars PROVE NamedInv'
    OBVIOUS
  <1>1. [Next]_vars /\ TypeOK' /\ TypeOK
    BY StepAnyArrays, StepTypes DEF CacheInv
  <1>2. Named(Target.set_idx)'
    <2>1. l2_entry_packet' \in EntryPins \cup {l2_entry_packet}
      BY <1>1 DEF Next, vars, pins, DriveEntry, DriveDram, DriveSnoop,
         DriveArrays, Clocked, ClockEdge, Resets, ResetEdge
    <2> QED
      BY <2>1 DEF NamedInv, Target, Named
  <1>3. ASSUME NEW i \in MshrIdx PROVE Named(mshrs'[i].addr.set_idx)
    <2>1. CASE UpdateRegs
      <3>1. mshrs[i] \in MSHR
        BY <1>1 DEF TypeOK
      <3>2. [mshrs[i] EXCEPT !.valid = FALSE].addr = mshrs[i].addr
        BY <3>1 DEF MSHR
      <3> QED
        BY <2>1, <3>2, MissEdge DEF CacheInv, NamedInv
    <2>2. CASE Resets
      BY <2>2 DEF Resets, ResetEdge, ZeroMshr, ZeroAddr, Named
    <2>3. CASE UNCHANGED mshrs
      BY <2>3 DEF NamedInv
    <2> QED
      BY <1>1, <2>1, <2>2, <2>3 DEF Next, vars, regs, DriveEntry, DriveDram,
         DriveSnoop, DriveArrays, Clocked, ClockEdge
  <1>4. Named(FillAddr')
    <2>1. wait_idx' \in MshrIdx
      BY <1>1 DEF TypeOK
    <2>2. FillAddr' = mshrs'[wait_idx'].addr.set_idx
      BY DEF FillAddr, FillSet
    <2>3. Named(mshrs'[wait_idx'].addr.set_idx)
      BY <1>3, <2>1
    <2> QED
      BY <2>2, <2>3
  <1>5. CASE LatchAddresses
    <2>1. ASSUME NEW w \in Way
          PROVE  write_addr'[w] = FillAddr' \/ write_addr'[w] = write_addr[w]
      BY <1>5 DEF LatchAddresses
    <2> QED
      BY <1>2, <1>3, <1>4, <2>1 DEF NamedInv, Named
  <1>6. CASE UNCHANGED all_vars
    BY <1>2, <1>3, <1>6 DEF all_vars, NamedInv, Named
  <1> QED
    BY <1>5, <1>6 DEF ArraysNext, PresentArrays, NeighbourDrives, ArraysClocked,
       ArraysReset

LEMMA StepClean ==
  CacheInv /\ NamedInv /\ NamedInv' /\ UnaskedSetsClean /\ [ArraysNext]_all_vars
    => UnaskedSetsClean'
  <1> SUFFICES ASSUME CacheInv, NamedInv, NamedInv', UnaskedSetsClean,
                      [ArraysNext]_all_vars,
                      NEW w \in Way, NEW s \in Set, ~Named(s)
               PROVE  data_mem'[w][s] = ZeroLine /\ tag_mem'[w][s] = ZeroMeta
    BY DEF UnaskedSetsClean, Named
  <1>1. s # write_addr[w] /\ s # write_addr'[w]
    BY CellsAreSets DEF NamedInv, Named
  <1>2. data_mem[w][s] = ZeroLine /\ tag_mem[w][s] = ZeroMeta
    BY DEF UnaskedSetsClean
  <1>3. CASE ArraysClocked
    <2>1. ASSUME NEW we, NEW a, s # a
          PROVE  /\ Data!Write(data_mem[w], we, a, XLine)[s] = ZeroLine
                 /\ Tags!Write(tag_mem[w], we, a, XRow)[s] = ZeroMeta
      <3>1. /\ data_mem[w] \in [Set -> {ZeroLine, XLine}]
            /\ tag_mem[w] \in [Set -> {ZeroMeta, XRow}]
        BY DEF CacheInv, CellsInv
      <3>2. Data!Write(data_mem[w], we, a, XLine)[s] = data_mem[w][s]
        BY <2>1, <3>1, CellsAreSets DEF Data!Write
      <3>3. Tags!Write(tag_mem[w], we, a, XRow)[s] = tag_mem[w][s]
        BY <2>1, <3>1, CellsAreSets DEF Tags!Write
      <3> QED
        BY <1>2, <3>2, <3>3
    <2>2. ASSUME NEW late \in SUBSET Way
          PROVE  /\ StoredLines(late)[w][s] = ZeroLine
                 /\ StoredRows(late)[w][s] = ZeroMeta
      BY <1>1, <2>1 DEF StoredLines, StoredRows
    <2> QED
      BY <1>3, <2>2 DEF ArraysClocked
  <1>4. CASE ArraysReset
    BY <1>4, CellsAreSets DEF ArraysReset, Data!Cleared, Tags!Cleared
  <1>5. CASE PresentArrays \/ NeighbourDrives \/ UNCHANGED all_vars
    BY <1>2, <1>5 DEF PresentArrays, NeighbourDrives, all_vars, arrays
  <1> QED
    BY <1>3, <1>4, <1>5 DEF ArraysNext

(* However stale the latched write addresses are and whenever the arrays     *)
(* sample them, no write reaches a set that no request has named.            *)
THEOREM WritesStayInAskedSets == ArraysSpec => []UnaskedSetsClean
  BY InitCache, StepCache, InitNamed, StepNamed, StepClean, PTL DEF ArraysSpec

-----------------------------------------------------------------------------
(* ---- Which rows are written --------------------------------------------- *)

RowsWrittenAtZero == \A w \in Way : write_meta_en(w) => w = 0

LEMMA NoHitWay ==
  CacheInv => RowsWrittenAtZero
  <1> SUFFICES ASSUME CacheInv
               PROVE  RowsWrittenAtZero
    OBVIOUS
  <1>1. hit = {}
    BY InvalidRows DEF CacheInv, MissInv
  <1>2. HitWay = 0
    BY <1>1 DEF HitWay, LastOf
  <1> QED
    BY <1>2 DEF write_meta_en, RowsWrittenAtZero

LEMMA StepRows ==
  CacheInv /\ CacheInv' /\ RowsInWayZero /\ [ArraysNext]_all_vars => RowsInWayZero'
  <1> SUFFICES ASSUME CacheInv, CacheInv', RowsInWayZero, [ArraysNext]_all_vars,
                      NEW w \in Way \ {0}, NEW s \in Set
               PROVE  tag_mem'[w][s] = ZeroMeta
    BY DEF RowsInWayZero
  <1>1. tag_mem[w][s] = ZeroMeta
    BY DEF RowsInWayZero
  <1>2. ~write_meta_en(w) /\ ~write_meta_en(w)'
    <2>1. RowsWrittenAtZero'
      BY NoHitWay, PTL
    <2> QED
      BY <2>1, NoHitWay DEF RowsWrittenAtZero
  <1>3. CASE ArraysClocked
    <2>1. ASSUME NEW late \in SUBSET Way PROVE StoredRows(late)[w] = tag_mem[w]
      BY <1>2 DEF StoredRows, Tags!Write
    <2> QED
      BY <1>1, <1>3, <2>1 DEF ArraysClocked
  <1>4. CASE ArraysReset
    BY <1>4, CellsAreSets DEF ArraysReset, Tags!Cleared
  <1>5. CASE PresentArrays \/ NeighbourDrives \/ UNCHANGED all_vars
    BY <1>1, <1>5 DEF PresentArrays, NeighbourDrives, all_vars, arrays
  <1> QED
    BY <1>3, <1>4, <1>5 DEF ArraysNext

(* For any number of ways a row is written in way 0 or not at all, though    *)
(* fills take the ways in turn: the row of a line and the line itself are in *)
(* different ways, whatever the write ports carry.                           *)
THEOREM RowsOnlyInWayZero == ArraysSpec => []RowsInWayZero
  <1>1. ArraysInit => RowsInWayZero
    BY CellsAreSets DEF ArraysInit, RowsInWayZero, Tags!Cleared
  <1> QED
    BY <1>1, InitCache, StepCache, StepRows, PTL DEF ArraysSpec
=============================================================================
