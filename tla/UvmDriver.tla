----------------------------- MODULE UvmDriver -----------------------------
(***************************************************************************)
(* The cache with the UVM driver on its entry pins: the run_phase task of  *)
(* verification/driver.sv and the sequences of verification/sequence.sv.   *)
(*                                                                         *)
(* The driver drives through a clocking block: what it drives at an edge   *)
(* reaches the pins after the registers and always_comb have settled on    *)
(* that edge.  Before its first item the packet is X, which starts no      *)
(* branch of the cache; the zero packet stands for it.  The driver looks   *)
(* at no output of the cache.  snoop_resp is never driven.                 *)
(***************************************************************************)
EXTENDS L2Cache, Sequences

CONSTANT ItemSequences   (* what the sequences may send, in order           *)

(* sequence_item.sv: what a sequence hands to the driver. *)
CACHE_PACKET ==
  [req_type : REQ_TYPE_ENUM, addr : ADDR, core_id : Core, wdata : Line]

(* cache_packet to L2_ENTRY_PACKET: the line of a WRITE goes along. *)
Packet(req) ==
  [req_type    |-> req.req_type,
   cache_line  |-> IF req.req_type = "WRITE" THEN req.wdata ELSE ZeroLine,
   target_addr |-> req.addr,
   core_id     |-> req.core_id]

Items == {req \in CACHE_PACKET : Packet(req) \in EntryPins}

ASSUME DriverAssumption == ItemSequences \subseteq Seq(Items)

VARIABLES
  items,    (* what the sequence has still to send                           *)
  phase,    (* where run_phase is                                            *)
  sampled   (* history: edges without reset that have sampled this packet,   *)
            (* counted to MaxSampled                                         *)

driver_vars == <<vars, items, phase, sampled>>

MaxSampled == 2

(* get:   waiting for get_next_item to return,                               *)
(* wait:  at the first clocking event,                                       *)
(* drive: the event has come and the packet is about to reach the pins,      *)
(* hold:  at the second clocking event.                                      *)
Phases == {"get", "wait", "drive", "hold"}

-----------------------------------------------------------------------------
(* ---- Sequences ---------------------------------------------------------- *)

MakeAddr(tag, set) == [tag |-> tag, set_idx |-> set, offset |-> 0]
Item(kind, a, w, core) ==
  [req_type |-> kind, addr |-> a, core_id |-> core, wdata |-> w]

(* The words of a line differ, so that it is not zero. *)
MakeWdata == CHOOSE l \in Line : l # ZeroLine

(* cache_base_seq: every item is any of those its knobs allow. *)
BaseSeq(allowed, num_txns) == [1..num_txns -> allowed]

(* dirty_evict_set_seq: two writes more than a set has ways, from tag 1000h. *)
DirtyEvictSetSeq ==
  [i \in 1..(WAYS + 2) |-> Item("WRITE", MakeAddr(4095 + i, 0), MakeWdata, 1)]

(* shared_then_upgrade_seq: one line, tag 4A3Bh. *)
SharedThenUpgradeSeq ==
  LET a == MakeAddr(19003, 0) IN
  <<Item("READ", a, ZeroLine, 0), Item("READ", a, ZeroLine, 1),
    Item("UPGRADE", a, ZeroLine, 0), Item("WRITE", a, MakeWdata, 0),
    Item("READ", a, ZeroLine, 1)>>

-----------------------------------------------------------------------------
(* ---- Steps -------------------------------------------------------------- *)

DriverInit ==
  /\ Init
  /\ items \in ItemSequences
  /\ phase = "get"
  /\ sampled = 0

(* get_next_item blocks until the sequence has an item. *)
GetNextItem ==
  /\ phase = "get" /\ items # <<>>
  /\ phase' = "wait"
  /\ UNCHANGED <<vars, items, sampled>>

DrivePacket ==
  /\ phase = "drive"
  /\ DriveEntry(Packet(Head(items)))
  /\ phase' = "hold"
  /\ sampled' = 0
  /\ UNCHANGED items

(* The clocking event of an edge: item_done after the second one. *)
ClockingEvent ==
  /\ phase' = CASE phase = "wait" -> "drive"
                [] phase = "hold" -> "get"
                [] OTHER -> phase
  /\ items' = IF phase = "hold" THEN Tail(items) ELSE items

DriverClocked ==
  /\ phase # "drive"
  /\ \E d \in DramPins \cup {dram} : ClockEdge(l2_entry_packet, d)
  /\ ClockingEvent
  /\ sampled' = IF sampled < MaxSampled THEN sampled + 1 ELSE sampled

DriverReset ==
  /\ phase # "drive"
  /\ \E d \in DramPins \cup {dram} : ResetEdge(l2_entry_packet, d)
  /\ ClockingEvent
  /\ sampled' = 0

OthersDrive ==
  /\ \/ \E d \in DramPins : DriveDram(d)
     \/ \E rows \in TagPins, lines \in DataPins : DriveArrays(rows, lines)
  /\ UNCHANGED <<items, phase, sampled>>

DriverNext ==
  GetNextItem \/ DrivePacket \/ DriverClocked \/ DriverReset \/ OthersDrive

DriverSpec == DriverInit /\ [][DriverNext]_driver_vars

-----------------------------------------------------------------------------
(* ---- Properties --------------------------------------------------------- *)

(* The first miss a sequence causes is the last the cache ever takes: the    *)
(* packet is still on the pins when always_comb sees the slot it has         *)
(* allocated, which sets mshr_exists, and neither an answer nor a reset      *)
(* clears the latch.  Slot 0 is the only one ever used.                      *)
OneMissEver ==
  \A i \in MshrIdx :
    mshrs[i].valid \/ mshrs[i].addr # ZeroAddr => i = 0 /\ mshr_exists

(* driver.sv:44 holds a packet one more cycle to ensure capture: by the      *)
(* second edge the core that sent a READ or a WRITE is stalled, whatever     *)
(* the DRAM did between the two edges.                                       *)
HoldStalls ==
  sampled = MaxSampled /\ l2_entry_packet.req_type \in {"READ", "WRITE"}
    => l2_exit_packet[CoreId].stall
=============================================================================
