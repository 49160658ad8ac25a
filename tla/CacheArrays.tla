---------------------------- MODULE CacheArrays ----------------------------
(***************************************************************************)
(* The cache with its own data and tag arrays (L2Cache.sv:43-125 and       *)
(* memDP.sv) in place of freely driven read_meta and read_data pins.       *)
(*                                                                         *)
(* always_comb gives the arrays their enables, which default to 0, and     *)
(* their addresses, which it assigns on some paths only: the addresses are *)
(* latches.  write_data and write_meta are assigned nowhere in the source, *)
(* so that whatever is written is X.  read_addr stands for read_meta_addr  *)
(* too and write_addr for write_meta_addr: each pair is assigned together. *)
(*                                                                         *)
(* A read is a step of its own (PresentArrays), between a change of what   *)
(* the enables depend on and the next change from outside: the read        *)
(* enables depend on the hit, and the hit on what is read.                 *)
(***************************************************************************)
EXTENDS OrderlyDram

CONSTANTS
  AnyRow,   (* the rows an unknown row may be read as                        *)
  XRow,     (* an unknown row of the tag arrays                              *)
  XLine     (* an unknown line                                               *)

Data == INSTANCE MemDP WITH Depth <- NUM_SETS, Zero <- ZeroLine, X <- XLine
Tags == INSTANCE MemDP WITH Depth <- NUM_SETS, Zero <- ZeroMeta, X <- XRow

(* The pins of the array ports carry zeros or what was X. *)
ASSUME ArrayAssumption ==
  /\ XLine \in Line
  /\ AnyRow \subseteq META_PACKET
  /\ XRow \notin META_PACKET
  /\ TagPins = [Way -> {TagPort(row) : row \in AnyRow \cup {ZeroMeta}}]
  /\ DataPins = [Way -> {ZeroLine, XLine}]

VARIABLES data_mem, tag_mem, read_addr, write_addr

arrays == <<data_mem, tag_mem>>
all_vars == <<vars, data_mem, tag_mem, read_addr, write_addr>>

-----------------------------------------------------------------------------
(* ---- What always_comb gives the arrays ---------------------------------- *)

HitRead == Serving({"READ", "WRITE"}) /\ hit_any

read_en(w) == HitRead /\ w = HitWay
(* A fill reads the row it is about to replace, at whatever address the last *)
(* hit left behind.                                                          *)
read_meta_en(w) == read_en(w) \/ (dram.r_valid /\ w = FillWay)

write_en(w) == dram.r_valid /\ w = FillWay
(* mutant: winner is not set to 0 before the scan for a hit *)
write_meta_en_StaleWinner(w) ==
  /\ w = IF hit_any THEN HitWay ELSE IF dram.r_valid THEN FillWay ELSE 0
  /\ Serving({"UPGRADE", "EVICT"})
write_meta_en(w) ==
  /\ w = HitWay
  /\ \/ Serving({"UPGRADE", "EVICT"})
     \/ Serving({"WRITE"}) /\ hit_any /\ ~ModifiedElsewhere

(* mutant: the row address is taken from the tag field *)
FillAddr_Tag == mshrs[wait_idx].addr.tag
FillAddr == FillSet

LatchAddresses ==
  /\ read_addr' = [w \in Way |->
       IF read_en(w)' THEN Target'.set_idx ELSE read_addr[w]]
  /\ write_addr' = [w \in Way |->
       IF write_en(w)' THEN FillAddr' ELSE write_addr[w]]

-----------------------------------------------------------------------------
(* ---- What the arrays present -------------------------------------------- *)

Presented(row) == {TagPort(r) : r \in IF row = XRow THEN AnyRow ELSE {row}}

TagReads(w) ==
  Presented(Tags!Read(tag_mem[w], read_meta_en(w), read_addr[w]))
DataReads == [w \in Way |-> Data!Read(data_mem[w], read_en(w), read_addr[w])]

Settled == (\A w \in Way : read_meta[w] \in TagReads(w)) /\ read_data = DataReads

-----------------------------------------------------------------------------
(* ---- Steps -------------------------------------------------------------- *)

ArraysInit ==
  /\ Init
  /\ data_mem = [w \in Way |-> Data!Cleared]
  /\ tag_mem  = [w \in Way |-> Tags!Cleared]
  /\ read_addr  = [w \in Way |-> Data!NoAddr]
  /\ write_addr = [w \in Way |-> Data!NoAddr]

PresentArrays ==
  /\ \E rows \in [Way -> UNION {TagReads(w) : w \in Way}] :
       /\ \A w \in Way : rows[w] \in TagReads(w)
       /\ DriveArrays(rows, DataReads)
  /\ LatchAddresses
  /\ UNCHANGED arrays

NeighbourDrives ==
  /\ Settled
  /\ \/ \E e \in EntryPins : DriveEntry(e)
     \/ \E d \in DramPins : DriveDram(d)
     \/ \E r \in SnoopPins : DriveSnoop(r)
  /\ LatchAddresses
  /\ UNCHANGED arrays

(* The arrays sample their write ports on the edge on which always_ff        *)
(* changes the registers with =: each does so before always_comb has run     *)
(* again or, the ways in late, after it.                                     *)
StoredLines(late) ==
  [w \in Way |->
    IF w \in late
    THEN Data!Write(data_mem[w], write_en(w)', write_addr'[w], XLine)
    ELSE Data!Write(data_mem[w], write_en(w), write_addr[w], XLine)]
StoredRows(late) ==
  [w \in Way |->
    IF w \in late
    THEN Tags!Write(tag_mem[w], write_meta_en(w)', write_addr'[w], XRow)
    ELSE Tags!Write(tag_mem[w], write_meta_en(w), write_addr[w], XRow)]

ArraysClocked ==
  /\ Settled
  /\ Clocked
  /\ LatchAddresses
  /\ data_mem' \in {StoredLines(late) : late \in SUBSET Way}
  /\ tag_mem'  \in {StoredRows(late) : late \in SUBSET Way}

(* Reset clears the arrays, and leaves the latched addresses. *)
ArraysReset ==
  /\ Settled
  /\ Resets
  /\ LatchAddresses
  /\ data_mem' = [w \in Way |-> Data!Cleared]
  /\ tag_mem'  = [w \in Way |-> Tags!Cleared]

ArraysNext == PresentArrays \/ NeighbourDrives \/ ArraysClocked \/ ArraysReset

ArraysSpec == ArraysInit /\ [][ArraysNext]_all_vars

-----------------------------------------------------------------------------
(* ---- Properties --------------------------------------------------------- *)

(* No core is ever given a line: an UPGRADE takes read_data of a way that    *)
(* was not read, which is zero, although fills have written the arrays.      *)
ExitLinesZero == \A c \in Core : l2_exit_packet[c].cache_line = ZeroLine

(* A write lands in the set of some miss, or in set 0 of an idle slot: the   *)
(* sets no request names stay clean, although an UPGRADE or EVICT, the idle  *)
(* bus too, writes at an address latched by an earlier fill and an edge may  *)
(* sample the ports late.                                                    *)
Named(s) == s = 0 \/ \E e \in EntryPins : e.target_addr.set_idx = s
UnaskedSetsClean ==
  \A w \in Way, s \in Set :
    ~Named(s) => data_mem[w][s] = ZeroLine /\ tag_mem[w][s] = ZeroMeta

(* Rows are only ever written in way 0: without a hit the scan of an UPGRADE *)
(* or EVICT ends with the 0 it starts from, also on an edge whose fill takes *)
(* another way and when the ports are sampled late.  Lines go to every way   *)
(* in turn.                                                                  *)
RowsInWayZero == \A w \in Way \ {0}, s \in Set : tag_mem[w][s] = ZeroMeta

(* L2Cache.sv:224, a fill updates meta data and brings in the cache line: a  *)
(* set whose ages a fill has moved gets a row that is not zero or unknown,   *)
(* unless a reset or further fills bring its ages back.                      *)
FilledSet(s) == lrus[s] # ResetAges
RowKept(s) == \E w \in Way : tag_mem[w][s] \notin {ZeroMeta, XRow}
FilledLineKept == \A s \in Set : FilledSet(s) ~> (RowKept(s) \/ ~FilledSet(s))

(* The whole cache with a DRAM that answers in order. *)
OrderlyArraysSpec == ArraysInit /\ [][ArraysNext /\ Orderly']_all_vars

(* As well, the clock and the arrays run. *)
FillingSpec ==
  /\ OrderlyArraysSpec
  /\ WF_all_vars(PresentArrays)
  /\ WF_all_vars(ArraysClocked /\ Orderly')
=============================================================================
