------------------------------ MODULE L2Cache ------------------------------
(***************************************************************************)
(* verilog/L2Cache.sv: the shared L2 cache, as one combinational block and *)
(* one register block.                                                     *)
(*                                                                         *)
(* Three kinds of state are kept apart, as the source does:                *)
(*   pins       what the L1s, the DRAM and the tag and data arrays drive,  *)
(*   registers  what always_ff assigns on a rising clock,                  *)
(*   latches    waiting and mshr_exists, which always_comb assigns on some *)
(*              of its paths only and which keep their value on the rest.  *)
(* The next_ operators below are the values always_comb has settled on.    *)
(* A latch that was never assigned is X in simulation, and an `if' takes X *)
(* for false: both start as FALSE.                                         *)
(*                                                                         *)
(* Left out, because no value in this module depends on them: r_data, which *)
(* only reaches next_write_data, as an EVICT's cache_line does; next_write_ *)
(* meta and next_write_data themselves, which no register and no array     *)
(* reads; the ar_prot, aw_prot and w_strb constants; and the outputs       *)
(* l2_exit_valid, r_ready and b_ready, which nothing drives.               *)
(***************************************************************************)
EXTENDS Lru

CONSTANTS
  EntryPins,   (* what the L1s may put on l2_entry_packet                    *)
  DramPins,    (* what the DRAM may drive, all its pins together             *)
  SnoopPins,   (* what the L1s may answer on snoop_resp                      *)
  TagPins,     (* what the tag arrays may present on read_meta               *)
  DataPins     (* what the data arrays may present on read_data              *)

DRAM_PINS == [ar_ready : BOOLEAN, aw_ready : BOOLEAN, w_ready : BOOLEAN,
              r_valid : BOOLEAN, b_valid : BOOLEAN]
IdleDram  == [ar_ready |-> FALSE, aw_ready |-> FALSE, w_ready |-> FALSE,
              r_valid |-> FALSE, b_valid |-> FALSE]

ASSUME PinAssumption ==
  /\ EntryPins \subseteq L2_ENTRY_PACKET
  /\ DramPins  \subseteq DRAM_PINS
  /\ SnoopPins \subseteq [Core -> SNOOP_RESP_PACKET]
  /\ TagPins   \subseteq [Way -> META_PACKET]
  /\ DataPins  \subseteq [Way -> Line]

VARIABLES
  l2_entry_packet, dram, snoop_resp, read_meta, read_data,
  l2_exit_packet, snoop_req, mshrs, free_idx, wait_idx,
  aw_packet, ar_packet, w_packet, lrus,
  waiting, mshr_exists

pins  == <<l2_entry_packet, dram, snoop_resp, read_meta, read_data>>
regs  == <<l2_exit_packet, snoop_req, mshrs, free_idx, wait_idx,
           aw_packet, ar_packet, w_packet, lrus>>
vars  == <<pins, regs, waiting, mshr_exists>>

TypeOK ==
  /\ l2_entry_packet \in L2_ENTRY_PACKET
  /\ dram            \in DRAM_PINS
  /\ snoop_resp      \in [Core -> SNOOP_RESP_PACKET]
  /\ read_meta       \in [Way -> META_PACKET]
  /\ read_data       \in [Way -> Line]
  /\ l2_exit_packet  \in [Core -> L2_EXIT_PACKET]
  /\ snoop_req       \in [Core -> SNOOP_REQ_PACKET]
  /\ mshrs           \in [MshrIdx -> MSHR]
  /\ free_idx        \in MshrIdx
  /\ wait_idx        \in MshrIdx
  /\ aw_packet       \in ADDRESS_PACKET
  /\ ar_packet       \in ADDRESS_PACKET
  /\ w_packet        \in WRITE_DATA_PACKET
  /\ lrus            \in [Set -> Ages]
  /\ waiting         \in BOOLEAN
  /\ mshr_exists     \in BOOLEAN

-----------------------------------------------------------------------------
(* ---- Which core, which way ---------------------------------------------- *)

NoCore == -1

(* target_core: the last sharer of a row, -1 when it has none. *)
TargetCore(row) ==
  IF \E c \in row.sharers : \A d \in row.sharers : d <= c
  THEN CHOOSE c \in row.sharers : \A d \in row.sharers : d <= c
  ELSE NoCore

(* A response of core c for address a is there; snoop_resp[-1] reads as X. *)
Answered(c, a) == c # NoCore /\ snoop_resp[c].valid /\ snoop_resp[c].addr = a

(* The four responses are named one by one; a core that is not built is X. *)
AllBack == \A c \in 0..3 : c \in Core /\ snoop_resp[c].valid

(* ---- Signals from DRAM -------------------------------------------------- *)

FillSet == mshrs[wait_idx].addr.set_idx

(* lrus of a set index past NUM_SETS reads as X and equals 0 for no way. *)
FillWay == IF FillSet \in Set THEN Victim(lrus[FillSet]) ELSE 0
VictimRow == read_meta[FillWay]

RecallModified ==
  dram.r_valid /\ VictimRow.valid /\ VictimRow.owner_state = "MODIFIED"
RecallDirty ==
  /\ dram.r_valid /\ VictimRow.valid
  /\ VictimRow.owner_state # "MODIFIED"
  /\ VictimRow.dirty
ModifiedBack ==
  RecallModified /\ Answered(TargetCore(VictimRow), VictimRow.addr)
DirtyBack == RecallDirty /\ AllBack

(* ---- L1 cache communication --------------------------------------------- *)

CoreId == l2_entry_packet.core_id
Target == l2_entry_packet.target_addr

hit     == {w \in Way : read_meta[w].valid /\ read_meta[w].addr.tag = Target.tag}
hit_any == hit # {}
HitWay  == LastOf(hit)
HitRow  == read_meta[HitWay]

Serving(types) ==
  ~l2_exit_packet[CoreId].stall /\ l2_entry_packet.req_type \in types

ModifiedElsewhere ==
  /\ Serving({"READ", "WRITE"}) /\ hit_any
  /\ HitRow.owner_state = "MODIFIED" /\ HitRow.sharers # {CoreId}
SnoopBack == ModifiedElsewhere /\ Answered(TargetCore(HitRow), Target)
ReadsLine ==
  \/ Serving({"READ", "WRITE"}) /\ hit_any /\ ~ModifiedElsewhere
  \/ Serving({"UPGRADE"})

Miss       == Serving({"READ", "WRITE"}) /\ ~hit_any
FindsMshr  == Miss /\ \E i \in MshrIdx : mshrs[i].addr = Target
(* mutant: no look at the other MSHRs *)
Allocates_NoLookup == Miss /\ ~mshrs[free_idx].valid
(* mutant: no look at the slot it takes *)
Allocates_NoFullCheck == Miss /\ ~mshr_exists
Allocates  == Miss /\ ~mshr_exists /\ ~mshrs[free_idx].valid
(* mutant: only a full ring stalls *)
MissStalls_FullOnly == Miss /\ mshrs[free_idx].valid
MissStalls == Miss /\ (mshr_exists \/ mshrs[free_idx].valid)

-----------------------------------------------------------------------------
(* ---- The values the registers take next --------------------------------- *)

next_l2_exit_packet ==
  IF MissStalls THEN [l2_exit_packet EXCEPT ![CoreId].stall = TRUE]
  ELSE IF SnoopBack
    THEN [l2_exit_packet EXCEPT ![CoreId].cache_line =
            snoop_resp[TargetCore(HitRow)].data]
  ELSE IF ReadsLine
    THEN [l2_exit_packet EXCEPT ![CoreId].cache_line = read_data[HitWay]]
  ELSE l2_exit_packet

Invalidate(a) == [valid |-> TRUE, addr |-> a, owner_state |-> "INVALID"]

(* READ, code 3'b001, is assigned to the address of a downgrade. *)
ReadCodeAsAddr == [tag |-> 0, set_idx |-> 0, offset |-> 1]
HitSnoop ==
  IF l2_entry_packet.req_type = "READ"
  THEN [valid |-> TRUE, addr |-> ReadCodeAsAddr, owner_state |-> "SHARED"]
  ELSE Invalidate(Target)

next_snoop_req ==
  [c \in Core |->
     IF ModifiedElsewhere /\ c = TargetCore(HitRow) THEN HitSnoop
     ELSE IF RecallDirty \/ (RecallModified /\ c = TargetCore(VictimRow))
       THEN Invalidate(VictimRow.addr)
     ELSE snoop_req[c]]

(* Dirty eviction takes the slot at free_idx whatever is in it. *)
WritesBack == ModifiedBack \/ DirtyBack
WriteBack ==
  IF ModifiedBack
  THEN LET resp == snoop_resp[TargetCore(VictimRow)] IN
       [valid |-> TRUE, addr |-> resp.addr, data |-> resp.data,
        core_id |-> resp.core_id, write_req |-> TRUE]
  ELSE [valid |-> TRUE, addr |-> VictimRow.addr, data |-> read_data[FillWay],
        core_id |-> 0, write_req |-> TRUE]

(* mutant: a miss takes the line of the request *)
MissEntry_TakesLine(data) ==
  [valid |-> TRUE, addr |-> Target, data |-> l2_entry_packet.cache_line,
   core_id |-> CoreId, write_req |-> l2_entry_packet.req_type = "WRITE"]
MissEntry(data) ==
  [valid |-> TRUE, addr |-> Target, data |-> data, core_id |-> CoreId,
   write_req |-> l2_entry_packet.req_type = "WRITE"]

Answer == dram.r_valid \/ dram.b_valid

(* Three assignments to next_mshrs in this order: the answered slot is freed, *)
(* a write-back and a miss both go to free_idx, and the miss keeps the data   *)
(* field it finds.                                                            *)
Freed(i) ==
  IF Answer /\ i = wait_idx THEN [mshrs[i] EXCEPT !.valid = FALSE] ELSE mshrs[i]
Evicted(i) == IF WritesBack /\ i = free_idx THEN WriteBack ELSE Freed(i)
next_mshrs ==
  [i \in MshrIdx |->
     IF Allocates /\ i = free_idx THEN MissEntry(Evicted(i).data) ELSE Evicted(i)]

(* mutant: the index is not wrapped *)
next_free_idx_NoWrap ==
  IF WritesBack \/ Allocates THEN free_idx + 1 ELSE free_idx
next_free_idx ==
  IF WritesBack \/ Allocates THEN (free_idx + 1) % NUM_MSHRS ELSE free_idx

(* A write response advances modulo WAYS, read data modulo NUM_MSHRS. *)
(* mutant: a write response does not advance the ring *)
next_wait_idx_ReadsOnly ==
  IF dram.r_valid THEN (wait_idx + 1) % NUM_MSHRS ELSE wait_idx
next_wait_idx ==
  IF dram.r_valid THEN (wait_idx + 1) % NUM_MSHRS
  ELSE IF dram.b_valid THEN (wait_idx + 1) % WAYS
  ELSE wait_idx

(* mutant: the ages of the set of the next slot *)
next_lrus_NextSlot ==
  LET s == mshrs[next_wait_idx].addr.set_idx IN
  IF dram.r_valid /\ s \in Set
  THEN [lrus EXCEPT ![s] = Renew(@, Victim(@))]
  ELSE lrus
next_lrus ==
  IF dram.r_valid /\ FillSet \in Set
  THEN [lrus EXCEPT ![FillSet] = Renew(@, FillWay)]
  ELSE lrus

(* ---- Signals to DRAM: the slot at next_wait_idx, as it is registered ---- *)

(* mutant: the slot answered at this edge, not the one after it *)
NextSlot_Answered == mshrs[wait_idx]
NextSlot == mshrs[next_wait_idx]

(* mutant: the kind of the slot is not looked at *)
next_aw_packet_AnyKind ==
  IF NextSlot.valid /\ dram.aw_ready
  THEN [valid |-> TRUE, addr |-> NextSlot.addr] ELSE aw_packet
next_aw_packet ==
  IF NextSlot.valid /\ NextSlot.write_req /\ dram.aw_ready
  THEN [valid |-> TRUE, addr |-> NextSlot.addr] ELSE aw_packet
next_w_packet ==
  IF NextSlot.valid /\ NextSlot.write_req /\ dram.w_ready
  THEN [valid |-> TRUE, data |-> NextSlot.data] ELSE w_packet
(* mutant: the channel is reloaded whether or not the DRAM is ready *)
next_ar_packet_NoReady ==
  IF NextSlot.valid /\ ~NextSlot.write_req
  THEN [valid |-> TRUE, addr |-> NextSlot.addr] ELSE ar_packet
(* mutant: the channel is loaded only while it is not valid *)
next_ar_packet_Once ==
  IF NextSlot.valid /\ ~NextSlot.write_req /\ dram.ar_ready /\ ~ar_packet.valid
  THEN [valid |-> TRUE, addr |-> NextSlot.addr] ELSE ar_packet
next_ar_packet ==
  IF NextSlot.valid /\ ~NextSlot.write_req /\ dram.ar_ready
  THEN [valid |-> TRUE, addr |-> NextSlot.addr] ELSE ar_packet

(* ---- The latches: the last assignment always_comb makes wins ------------ *)

WaitingAssigned == ModifiedElsewhere \/ RecallModified \/ RecallDirty
WaitingValue ==
  IF ModifiedElsewhere THEN ~SnoopBack
  ELSE IF RecallModified THEN ~ModifiedBack
  ELSE ~DirtyBack

-----------------------------------------------------------------------------
(* ---- Steps -------------------------------------------------------------- *)

(* mutant: mshr_exists has a default of 0 *)
Settle_Default ==
  /\ waiting' = IF WaitingAssigned' THEN WaitingValue' ELSE waiting
  /\ mshr_exists' = FindsMshr'

(* always_comb runs again after any change of what it reads. *)
Settle ==
  /\ waiting' = IF WaitingAssigned' THEN WaitingValue' ELSE waiting
  /\ mshr_exists' = (mshr_exists \/ FindsMshr')

(* The end of the first reset, all input pins 0. *)
Init ==
  /\ l2_entry_packet = ZeroEntry
  /\ dram            = IdleDram
  /\ snoop_resp      = [c \in Core |-> ZeroSnoopResp]
  /\ read_meta       = [w \in Way |-> ZeroMeta]
  /\ read_data       = [w \in Way |-> ZeroLine]
  /\ l2_exit_packet = [c \in Core |-> ZeroExit]
  /\ snoop_req      = [c \in Core |-> ZeroSnoopReq]
  /\ mshrs          = [i \in MshrIdx |-> ZeroMshr]
  /\ free_idx       = 0
  /\ wait_idx       = 0
  /\ aw_packet      = ZeroAddress
  /\ ar_packet      = ZeroAddress
  /\ w_packet       = ZeroWriteData
  /\ lrus           = [s \in Set |-> ResetAges]
  /\ waiting = FALSE
  /\ mshr_exists = FALSE

DriveEntry(e) ==
  /\ l2_entry_packet' = e
  /\ UNCHANGED <<dram, snoop_resp, read_meta, read_data, regs>>
  /\ Settle

DriveDram(d) ==
  /\ dram' = d
  /\ UNCHANGED <<l2_entry_packet, snoop_resp, read_meta, read_data, regs>>
  /\ Settle

DriveSnoop(r) ==
  /\ snoop_resp' = r
  /\ UNCHANGED <<l2_entry_packet, dram, read_meta, read_data, regs>>
  /\ Settle

DriveArrays(rows, lines) ==
  /\ read_meta' = rows
  /\ read_data' = lines
  /\ UNCHANGED <<l2_entry_packet, dram, snoop_resp, regs>>
  /\ Settle

(* always_ff on a rising clock with reset low. *)
UpdateRegs ==
  IF waiting THEN UNCHANGED regs
  ELSE /\ l2_exit_packet' = next_l2_exit_packet
       /\ snoop_req'      = next_snoop_req
       /\ mshrs'          = next_mshrs
       /\ free_idx'       = next_free_idx
       /\ wait_idx'       = next_wait_idx
       /\ aw_packet'      = next_aw_packet
       /\ ar_packet'      = next_ar_packet
       /\ w_packet'       = next_w_packet
       /\ lrus'           = next_lrus

(* What the L1s and the DRAM drive from registers of their own changes on    *)
(* the edge itself.  always_ff assigns with =, so always_comb runs again     *)
(* either before their new values (e or d is the old one) or after them.     *)
ClockEdge(e, d) ==
  /\ UpdateRegs
  /\ l2_entry_packet' = e
  /\ dram' = d
  /\ UNCHANGED <<snoop_resp, read_meta, read_data>>
  /\ Settle

(* A rising clock with reset high: no latch is assigned. *)
ResetEdge(e, d) ==
  /\ l2_exit_packet' = [c \in Core |-> ZeroExit]
  /\ snoop_req'      = [c \in Core |-> ZeroSnoopReq]
  /\ mshrs'          = [i \in MshrIdx |-> ZeroMshr]
  /\ free_idx'       = 0
  /\ wait_idx'       = 0
  /\ aw_packet'      = ZeroAddress
  /\ ar_packet'      = ZeroAddress
  /\ w_packet'       = ZeroWriteData
  /\ lrus'           = [s \in Set |-> ResetAges]
  /\ l2_entry_packet' = e
  /\ dram' = d
  /\ UNCHANGED <<snoop_resp, read_meta, read_data>>
  /\ Settle

Clocked == \E e \in EntryPins \cup {l2_entry_packet}, d \in DramPins \cup {dram} :
             ClockEdge(e, d)
Resets  == \E e \in EntryPins \cup {l2_entry_packet}, d \in DramPins \cup {dram} :
             ResetEdge(e, d)

Next ==
  \/ \E e \in EntryPins : DriveEntry(e)
  \/ \E d \in DramPins : DriveDram(d)
  \/ \E r \in SnoopPins : DriveSnoop(r)
  \/ \E rows \in TagPins, lines \in DataPins : DriveArrays(rows, lines)
  \/ Clocked
  \/ Resets

Spec == Init /\ [][Next]_vars

-----------------------------------------------------------------------------
(* ---- Properties --------------------------------------------------------- *)

(* The ages of every set are the turns of some next victim: each age from 0  *)
(* to WAYS - 1 once, so that exactly one way is the victim (the scan and the *)
(* ageing of the r_valid branch).                                            *)
AgesAreTurns == \A s \in Set : \E p \in Way : lrus[s] = TurnsFrom(p)

(* The abstract pointer of a set is the way its ages make the victim. *)
Pointer == INSTANCE VictimPointer WITH
             Sets <- Set, Ways <- WAYS,
             victim <- [s \in Set |-> Victim(lrus[s])]

(* The replacement state implements one rotating pointer per set: the ages   *)
(* and the scan never disagree on whose turn it is, in any mix of fills of   *)
(* several sets and resets.                                                  *)
ReplacesInTurn == Pointer!Spec

(* Each fill gives the turn of its own set to the next way, and no other     *)
(* step but a reset moves any set's: the scan, the ageing and the answered   *)
(* slot's address agree on the set, with answers and misses of other sets in *)
(* between, and a set index past NUM_SETS moves none.                        *)
FillsPassTheTurn ==
  [][ \/ \A s \in Set :
           Victim(lrus'[s]) =
             IF dram.r_valid /\ FillSet = s /\ ~waiting /\ UpdateRegs
             THEN NextWay(Victim(lrus[s])) ELSE Victim(lrus[s])
      \/ Resets ]_vars

(* AXI: a request that is valid and not accepted at an edge keeps its payload *)
(* and stays valid; only a reset takes it back.  The head of the ring, which  *)
(* feeds the three channels, moves whatever they hold.                        *)
HeldUntilAccepted ==
  [][ \/ Resets
      \/ /\ ar_packet.valid /\ ~dram.ar_ready => ar_packet' = ar_packet
         /\ aw_packet.valid /\ ~dram.aw_ready => aw_packet' = aw_packet
         /\ w_packet.valid  /\ ~dram.w_ready  => w_packet'  = w_packet ]_vars

(* No line is in two MSHRs, whether or not they are still in flight: a miss  *)
(* is compared with every slot before it takes one.  (An unused slot holds   *)
(* address zero, which is therefore never allocated.)                        *)
NoDuplicateMiss ==
  \A i, j \in MshrIdx :
    i # j /\ mshrs[i].addr = mshrs[j].addr => mshrs[i].addr = ZeroAddr

(* A miss in flight keeps its slot: from one edge to the next a valid MSHR   *)
(* is either freed or unchanged, never taken over by another miss, also when *)
(* its answer and a new miss come at the same edge.                          *)
NoMissOverwritten ==
  [][\A i \in MshrIdx :
       mshrs[i].valid /\ mshrs'[i].valid => mshrs'[i] = mshrs[i]]_vars

(* What a channel newly presents is the miss that is the oldest one once the *)
(* edge is over, and still in flight: the issue reads the registers one slot *)
(* ahead while the same edge frees the answered slot, takes a new miss and   *)
(* wraps either index.                                                       *)
IssuesOldest ==
  [][ \/ Resets
      \/ LET oldest == mshrs'[wait_idx'] IN
         /\ ar_packet' # ar_packet =>
              /\ oldest.valid /\ ~oldest.write_req
              /\ ar_packet'.addr = oldest.addr
         /\ aw_packet' # aw_packet =>
              /\ oldest.valid /\ oldest.write_req
              /\ aw_packet'.addr = oldest.addr
         /\ w_packet' # w_packet =>
              /\ oldest.valid /\ oldest.write_req
              /\ w_packet'.data = oldest.data ]_vars

Requested(type, a) ==
  \E e \in EntryPins : e.req_type = type /\ e.target_addr = a

(* What is on an address channel is a line some L1 has asked for, by a READ  *)
(* on the read channel and by a WRITE on the write channel, however long     *)
(* ago: slots are served, reused and reset while a channel keeps its         *)
(* payload, and slots are issued without a look at who filled them.          *)
ChannelsAsAsked ==
  /\ ar_packet.valid => Requested("READ", ar_packet.addr)
  /\ aw_packet.valid => Requested("WRITE", aw_packet.addr)

(* The DRAM is never sent a line other than zero: a WRITE miss keeps the     *)
(* data its slot has had since reset, so that the cache_line of the request  *)
(* is lost, and no line of the arrays gets into a slot either.               *)
OnlyZerosWritten == w_packet.valid => w_packet.data = ZeroLine

(* Through the tag arrays as they are connected no row reads back valid: no  *)
(* request hits, no core is snooped, and the registers never freeze.         *)
NeverHits ==
  /\ hit = {}
  /\ \A c \in Core : ~snoop_req[c].valid
  /\ ~waiting

(* L2Cache.sv:290 and 299: a core is stalled because an outstanding MSHR has *)
(* its address, or because all MSHRs are in flight.                          *)
StallHasCause ==
  [][\A c \in Core :
       ~l2_exit_packet[c].stall /\ l2_exit_packet'[c].stall
         => \/ \E i \in MshrIdx : mshrs[i].valid /\ mshrs[i].addr = Target
            \/ \A i \in MshrIdx : mshrs[i].valid]_vars

(* README.md:21, dirty lines are only written back to DRAM on eviction: with *)
(* no eviction, by an L1 or of a valid row, nothing is written.              *)
WritesOnlyEvictions ==
  /\ \A e \in EntryPins : e.req_type # "EVICT"
  /\ \A rows \in TagPins : \A w \in Way : ~rows[w].valid
  => ~aw_packet.valid

(* README.md:24, true LRU: the way a fill has just replaced is not the next  *)
(* victim of its set.                                                        *)
FilledWayIsNotNext ==
  [][Clocked /\ dram.r_valid /\ ~waiting /\ FillSet' = FillSet
       => FillWay' # FillWay]_vars

=============================================================================
