-------------------------- MODULE UvmDriverProofs --------------------------
(***************************************************************************)
(* Theorems about UvmDriver, for every value of its constants: any         *)
(* sequences, any number of MSHRs and any DRAM, with the tag arrays as     *)
(* they are connected.                                                     *)
(***************************************************************************)
EXTENDS UvmDriver, L2CacheProofs, SequenceTheorems

(* The driver always has the item it is busy with. *)
ItemsInv ==
  /\ items \in Seq(Items)
  /\ phase # "get" => items # <<>>
  /\ phase \in Phases

DriverInv == ItemsInv /\ TypeOK /\ MissInv

(* Every step of the composition is a step of the cache. *)
LEMMA DriverIsCache == ItemsInv /\ [DriverNext]_driver_vars => [Next]_vars
  <1> SUFFICES ASSUME ItemsInv, [DriverNext]_driver_vars PROVE [Next]_vars
    OBVIOUS
  <1>1. CASE DrivePacket
    <2>1. Packet(Head(items)) \in EntryPins
      BY <1>1, HeadTailProperties DEF DrivePacket, ItemsInv, Items
    <2> QED
      BY <1>1, <2>1 DEF DrivePacket, Next
  <1>2. CASE DriverClocked
    BY <1>2 DEF DriverClocked, Next, Clocked
  <1>3. CASE DriverReset
    BY <1>3 DEF DriverReset, Next, Resets
  <1>4. CASE GetNextItem \/ UNCHANGED driver_vars
    BY <1>4 DEF GetNextItem, driver_vars
  <1>5. CASE OthersDrive
    BY <1>5 DEF OthersDrive, Next
  <1> QED
    BY <1>1, <1>2, <1>3, <1>4, <1>5 DEF DriverNext

LEMMA StepItems == ItemsInv /\ [DriverNext]_driver_vars => ItemsInv'
  <1> SUFFICES ASSUME ItemsInv, [DriverNext]_driver_vars PROVE ItemsInv'
    OBVIOUS
  <1>1. CASE ClockingEvent
    <2>1. CASE phase = "hold"
      <3>1. Tail(items) \in Seq(Items)
        BY <2>1, HeadTailProperties DEF ItemsInv
      <3> QED
        BY <1>1, <2>1, <3>1 DEF ClockingEvent, ItemsInv, Phases
    <2>2. CASE phase # "hold"
      BY <1>1, <2>2 DEF ClockingEvent, ItemsInv, Phases
    <2> QED
      BY <2>1, <2>2
  <1>2. CASE GetNextItem \/ DrivePacket \/ OthersDrive \/ UNCHANGED driver_vars
    BY <1>2
    DEF GetNextItem, DrivePacket, OthersDrive, driver_vars, ItemsInv, Phases
  <1> QED
    BY <1>1, <1>2 DEF DriverNext, DriverClocked, DriverReset

LEMMA InitDriver ==
  ASSUME TagsAsWired
  PROVE  DriverInit => DriverInv
  BY InitTypes, InitMiss, DriverAssumption
  DEF DriverInit, DriverInv, ItemsInv, Phases

LEMMA StepDriver ==
  ASSUME TagsAsWired
  PROVE  DriverInv /\ [DriverNext]_driver_vars => DriverInv'
  BY DriverIsCache, StepItems, StepTypes, StepMiss DEF DriverInv

(* The driver is one of the environments L2Cache allows: what the cache      *)
(* keeps of its misses, channels and ages it keeps for every sequence.       *)
THEOREM DriverImplementsCache == DriverSpec => Spec
  <1>1. DriverInit => Init /\ ItemsInv
    BY DriverAssumption DEF DriverInit, ItemsInv, Phases
  <1> QED
    BY <1>1, DriverIsCache, StepItems, PTL DEF DriverSpec, Spec

(* In particular what it writes to the DRAM is a zero line, whatever wdata   *)
(* the items carry to the entry pins and whatever the data arrays present.   *)
THEOREM DriverWritesZeros ==
  ASSUME TagsAsWired
  PROVE  DriverSpec => []OnlyZerosWritten
  BY DriverImplementsCache, WritesSendZeros, PTL

-----------------------------------------------------------------------------
(* ---- One miss ----------------------------------------------------------- *)

(* While the latch is 0 the ring has not been used. *)
FirstSlotInv == OneMissEver /\ (~mshr_exists => free_idx = 0)

(* An edge that samples a packet leaves it on the pins, so that the slot it  *)
(* allocates is seen before anything else happens.                           *)
LEMMA AllocationLatches ==
  ASSUME DriverInv, DriverInv', DriverClocked, Allocates
  PROVE  mshr_exists'
  <1>1. PICK d \in DramPins \cup {dram} : ClockEdge(l2_entry_packet, d)
    BY DEF DriverClocked
  <1>2. UpdateRegs /\ l2_entry_packet' = l2_entry_packet
    BY <1>1 DEF ClockEdge
  <1>3. free_idx \in MshrIdx /\ CoreId \in Core
    BY ScanTypes DEF DriverInv, TypeOK
  <1>4. mshrs'[free_idx].addr = Target
    BY <1>2, <1>3 DEF UpdateRegs, DriverInv, MissInv, next_mshrs, MissEntry,
       Allocates
  <1>5. l2_exit_packet'[CoreId].stall = l2_exit_packet[CoreId].stall
    <2>1. ~MissStalls /\ ~SnoopBack
      BY InvalidRows DEF MissStalls, Allocates, SnoopBack, DriverInv, MissInv
    <2>2. l2_exit_packet' = next_l2_exit_packet
      BY <1>2 DEF UpdateRegs, DriverInv, MissInv
    <2> QED
      BY <1>3, <2>1, <2>2 DEF next_l2_exit_packet, DriverInv, TypeOK,
         L2_EXIT_PACKET
  <1>6. ~hit_any'
    <2>1. (TypeOK /\ RowsInvalid)'
      BY DEF DriverInv, MissInv
    <2> QED
      BY <2>1, InvalidRows, PTL
  <1>7. FindsMshr'
    BY <1>2, <1>3, <1>4, <1>5, <1>6 DEF Allocates, Miss, Serving, FindsMshr,
       Target, CoreId
  <1> QED
    BY <1>7 DEF DriverInv, MissInv

(* The latch is never cleared. *)
LEMMA LatchStays ==
  ASSUME DriverInv, [DriverNext]_driver_vars, mshr_exists
  PROVE  mshr_exists'
  <1>1. [Next]_vars
    BY DriverIsCache DEF DriverInv
  <1> QED
    BY <1>1 DEF Next, vars, DriveEntry, DriveDram, DriveSnoop, DriveArrays,
       Clocked, ClockEdge, Resets, ResetEdge, Settle

LEMMA StepFirstSlot ==
  ASSUME TagsAsWired
  PROVE  DriverInv /\ DriverInv' /\ FirstSlotInv /\ [DriverNext]_driver_vars
           => FirstSlotInv'
  <1> SUFFICES ASSUME DriverInv, DriverInv', FirstSlotInv,
                      [DriverNext]_driver_vars
               PROVE  FirstSlotInv'
    OBVIOUS
  <1>1. CASE DriverClocked
    <2>1. UpdateRegs
      BY <1>1 DEF DriverClocked, ClockEdge
    <2>2. CASE Allocates
      <3>1. mshr_exists' /\ free_idx = 0
        BY <1>1, <2>2, AllocationLatches DEF Allocates, FirstSlotInv
      <3>2. ASSUME NEW i \in MshrIdx, i # 0
            PROVE  ~mshrs'[i].valid /\ mshrs'[i].addr = ZeroAddr
        <4>1. ~mshrs[i].valid /\ mshrs[i].addr = ZeroAddr /\ mshrs[i] \in MSHR
          BY <3>2 DEF FirstSlotInv, OneMissEver, DriverInv, TypeOK
        <4> QED
          BY <2>1, <3>1, <3>2, <4>1, MissEdge DEF DriverInv, MSHR
      <3> QED
        BY <3>1, <3>2 DEF FirstSlotInv, OneMissEver
    <2>3. CASE ~Allocates
      <3>1. free_idx' = free_idx
        BY <2>1, <2>3, InvalidRows
        DEF UpdateRegs, regs, next_free_idx, DriverInv, MissInv
      <3>2. ASSUME NEW i \in MshrIdx
            PROVE  /\ mshrs'[i].valid => mshrs[i].valid
                   /\ mshrs'[i].addr = mshrs[i].addr
        <4>1. mshrs[i] \in MSHR
          BY DEF DriverInv, TypeOK
        <4>2. mshrs'[i] = Freed(i)
          BY <2>1, <2>3, InvalidRows
          DEF UpdateRegs, next_mshrs, Evicted, DriverInv, MissInv
        <4> QED
          BY <4>1, <4>2 DEF Freed, MSHR
      <3>3. mshr_exists => mshr_exists'
        BY LatchStays
      <3> QED
        BY <3>1, <3>2, <3>3 DEF FirstSlotInv, OneMissEver
    <2> QED
      BY <2>2, <2>3
  <1>2. CASE DriverReset
    BY <1>2 DEF DriverReset, ResetEdge, FirstSlotInv, OneMissEver, ZeroMshr
  <1>3. CASE GetNextItem \/ DrivePacket \/ OthersDrive \/ UNCHANGED driver_vars
    <2>1. UNCHANGED <<mshrs, free_idx>>
      BY <1>3 DEF GetNextItem, DrivePacket, OthersDrive, driver_vars, vars, regs,
         DriveEntry, DriveDram, DriveArrays
    <2>2. mshr_exists => mshr_exists'
      BY LatchStays
    <2> QED
      BY <2>1, <2>2 DEF FirstSlotInv, OneMissEver
  <1> QED
    BY <1>1, <1>2, <1>3 DEF DriverNext

(* Whatever sequences the driver sends, the cache takes one miss in all its  *)
(* life, resets included.                                                    *)
THEOREM TakesOneMiss ==
  ASSUME TagsAsWired
  PROVE  DriverSpec => []OneMissEver
  <1>1. DriverInit => FirstSlotInv
    BY DEF DriverInit, Init, FirstSlotInv, OneMissEver, ZeroMshr
  <1>2. FirstSlotInv => OneMissEver
    BY DEF FirstSlotInv
  <1> QED
    BY <1>1, <1>2, InitDriver, StepDriver, StepFirstSlot, PTL DEF DriverSpec

-----------------------------------------------------------------------------
(* ---- The second edge ---------------------------------------------------- *)

Asks == l2_entry_packet.req_type \in {"READ", "WRITE"}

(* After one edge the request is stalled or about to be. *)
SampledInv ==
  /\ sampled \in 0..MaxSampled
  /\ sampled > 0 /\ Asks => l2_exit_packet[CoreId].stall \/ mshr_exists
  /\ HoldStalls

LEMMA StepSampled ==
  ASSUME TagsAsWired
  PROVE  DriverInv /\ DriverInv' /\ SampledInv /\ [DriverNext]_driver_vars
           => SampledInv'
  <1> SUFFICES ASSUME DriverInv, DriverInv', SampledInv,
                      [DriverNext]_driver_vars
               PROVE  SampledInv'
    OBVIOUS
  <1>1. CASE DriverClocked
    <2>1. UpdateRegs /\ l2_entry_packet' = l2_entry_packet
      BY <1>1 DEF DriverClocked, ClockEdge
    <2>2. l2_exit_packet' = next_l2_exit_packet /\ CoreId \in Core /\ CoreId' = CoreId
      BY <2>1, ScanTypes DEF UpdateRegs, DriverInv, MissInv, CoreId
    <2>3. l2_exit_packet[CoreId].stall => l2_exit_packet'[CoreId].stall
      BY <2>2 DEF next_l2_exit_packet, DriverInv, TypeOK, L2_EXIT_PACKET
    <2>4. Asks /\ ~l2_exit_packet[CoreId].stall => Miss
      BY InvalidRows DEF Asks, Miss, Serving, DriverInv, MissInv
    <2>5. MissStalls => l2_exit_packet'[CoreId].stall
      BY <2>2 DEF next_l2_exit_packet, DriverInv, TypeOK, L2_EXIT_PACKET
    <2>6. Asks => l2_exit_packet'[CoreId].stall \/ mshr_exists'
      <3>1. Miss => MissStalls \/ Allocates
        BY DEF MissStalls, Allocates
      <3> QED
        BY <1>1, <2>3, <2>4, <2>5, <3>1, AllocationLatches
    <2>7. Asks /\ sampled > 0 => l2_exit_packet'[CoreId].stall
      BY <2>3, <2>4, <2>5 DEF SampledInv, MissStalls
    <2>8. sampled' = (IF sampled < MaxSampled THEN sampled + 1 ELSE sampled)
      BY <1>1 DEF DriverClocked
    <2>9. sampled' \in 0..MaxSampled /\ (sampled' = MaxSampled => sampled > 0)
      BY <2>8 DEF SampledInv, MaxSampled
    <2> QED
      BY <2>1, <2>2, <2>6, <2>7, <2>9 DEF SampledInv, HoldStalls, Asks
  <1>2. CASE DriverReset \/ DrivePacket
    BY <1>2 DEF DriverReset, DrivePacket, SampledInv, HoldStalls, MaxSampled
  <1>3. CASE GetNextItem \/ OthersDrive \/ UNCHANGED driver_vars
    <2>1. UNCHANGED <<sampled, l2_entry_packet, l2_exit_packet>>
      BY <1>3 DEF GetNextItem, OthersDrive, driver_vars, vars, pins, regs,
         DriveDram, DriveArrays
    <2>2. mshr_exists => mshr_exists'
      BY LatchStays
    <2> QED
      BY <2>1, <2>2 DEF SampledInv, HoldStalls, Asks, CoreId
  <1> QED
    BY <1>1, <1>2, <1>3 DEF DriverNext

(* A READ or WRITE the driver holds for two edges has stalled its core by    *)
(* the second, for every sequence and DRAM.                                  *)
THEOREM SecondEdgeStalls ==
  ASSUME TagsAsWired
  PROVE  DriverSpec => []HoldStalls
  <1>1. DriverInit => SampledInv
    BY DEF DriverInit, SampledInv, HoldStalls, MaxSampled
  <1>2. SampledInv => HoldStalls
    BY DEF SampledInv
  <1> QED
    BY <1>1, <1>2, InitDriver, StepDriver, StepSampled, PTL DEF DriverSpec
=============================================================================
