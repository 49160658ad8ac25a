---------------------------- MODULE OrderlyDram ----------------------------
(***************************************************************************)
(* The cache with a DRAM that answers what it is asked: every answer is    *)
(* for the oldest MSHR, of the kind that MSHR asked for, and one at a      *)
(* time.  The cache itself checks none of this, it takes any r_valid or    *)
(* b_valid for an answer to the MSHR at wait_idx.                          *)
(***************************************************************************)
EXTENDS L2Cache

Oldest == mshrs[wait_idx]

(* The oldest miss is on its request channel (both of them for a write). *)
Asked ==
  /\ Oldest.valid
  /\ IF Oldest.write_req
     THEN aw_packet = [valid |-> TRUE, addr |-> Oldest.addr] /\ w_packet.valid
     ELSE ar_packet = [valid |-> TRUE, addr |-> Oldest.addr]

Orderly ==
  /\ dram.r_valid => Asked /\ ~Oldest.write_req
  /\ dram.b_valid => Asked /\ Oldest.write_req

OrderlyNext == Next /\ Orderly'

OrderlySpec == Init /\ [][OrderlyNext]_vars

-----------------------------------------------------------------------------
(* ---- The ring of MSHRs -------------------------------------------------- *)

(* How far a slot is behind the oldest one, going round the ring. *)
Behind(i) == IF i >= wait_idx THEN i - wait_idx ELSE i - wait_idx + NUM_MSHRS

(* The slots between the two indices; equal indices are empty or full. *)
InFlight ==
  IF free_idx = wait_idx /\ mshrs[wait_idx].valid
  THEN NUM_MSHRS ELSE Behind(free_idx)

(* The valid MSHRs are exactly the slots from wait_idx up to free_idx, so    *)
(* that a miss never finds its slot taken while another is free and the slot *)
(* at wait_idx is the oldest miss: allocation, answers that share an edge    *)
(* with it, both kinds of wrap-around and reset keep it so.                  *)
RingExact == \A i \in MshrIdx : mshrs[i].valid <=> Behind(i) < InFlight

(* The MSHRs as a queue, oldest first. *)
MissAt(i) == [addr |-> mshrs[i].addr, core_id |-> mshrs[i].core_id,
              write_req |-> mshrs[i].write_req]
Queue == [k \in 1..InFlight |-> MissAt((wait_idx + k - 1) % NUM_MSHRS)]

Misses == [addr : {e.target_addr : e \in EntryPins}, core_id : Core,
           write_req : BOOLEAN]

(* The abstract queue, read off the slots. *)
Fifo == INSTANCE MissQueue WITH
          Depth  <- NUM_MSHRS,
          Misses <- Misses,
          queue  <- Queue

(* The valid bits, free_idx and wait_idx implement a first-in first-out      *)
(* queue of distinct misses: none is lost, overtaken or served twice, also   *)
(* when an answer and a new miss share an edge.                              *)
ServesInOrder == Fifo!Spec

-----------------------------------------------------------------------------
(* ---- Fairness ----------------------------------------------------------- *)

Ready(d)  == d.ar_ready /\ d.aw_ready /\ d.w_ready
Answers(d) == d.r_valid \/ d.b_valid

(* The clock runs.  The DRAM gets ready again and again, whether or not a    *)
(* request is there, and answers what it has been asked.                     *)
ClockFairness == WF_vars(Clocked /\ Orderly')
DramFairness ==
  /\ WF_vars(\E d \in DramPins : Ready(d) /\ DriveDram(d) /\ Orderly')
  /\ SF_vars(Ready(dram) /\ Clocked /\ Orderly')
  /\ SF_vars(\E d \in DramPins : Answers(d) /\ DriveDram(d) /\ Orderly')
  /\ SF_vars(Answers(dram) /\ Clocked /\ Orderly')

FairSpec == OrderlySpec /\ ClockFairness /\ DramFairness

(* Every miss is served: its slot is issued when its turn comes, although    *)
(* the issue looks at the slot of the next wait_idx and a channel can still  *)
(* hold an older request.                                                    *)
MissesServed == \A i \in MshrIdx : mshrs[i].valid ~> ~mshrs[i].valid

(* README.md:15, misses do not keep a core from its later hits, and          *)
(* L2Cache.sv:299, it stalls because all MSHRs are in flight: as every miss  *)
(* is served, a stalled core is let go on.                                   *)
StallEnds ==
  \A c \in Core : l2_exit_packet[c].stall ~> ~l2_exit_packet[c].stall

(* The steps behind MissesServed: an edge on which the DRAM is ready and     *)
(* does not answer puts the oldest miss on its channels, there it stays      *)
(* until it is answered, whatever else comes, and an answer brings every     *)
(* other miss one place nearer to the front; only a reset undoes any of it.  *)
OldestAdvances ==
  [][ /\ Oldest.valid /\ Ready(dram) /\ ~Answer /\ UpdateRegs => Asked'
      /\ Asked => Asked' \/ (Answer /\ UpdateRegs) \/ Resets
      /\ Answer /\ UpdateRegs =>
           \A i \in MshrIdx :
             mshrs[i].valid /\ i # wait_idx =>
               mshrs'[i].valid /\ Behind(i)' = Behind(i) - 1 ]_vars

-----------------------------------------------------------------------------
(* ---- A DRAM that waits for valid ---------------------------------------- *)

(* AXI lets a slave wait for valid before it gets ready. *)
WaitsForValid ==
  /\ dram.ar_ready => ar_packet.valid
  /\ dram.aw_ready => aw_packet.valid
  /\ dram.w_ready  => w_packet.valid

WaitingNext == OrderlyNext /\ WaitsForValid'

WaitingDrives(d) == DriveDram(d) /\ Orderly' /\ WaitsForValid'

WaitingSafety == Init /\ [][WaitingNext]_vars

(* The clock runs, and the DRAM gets ready for what it sees valid, on each   *)
(* channel for itself.                                                       *)
WaitingSpec ==
  /\ WaitingSafety
  /\ WF_vars(Clocked /\ Orderly' /\ WaitsForValid')
  /\ WF_vars(\E d \in DramPins : d.ar_ready /\ WaitingDrives(d))
  /\ WF_vars(\E d \in DramPins : d.aw_ready /\ WaitingDrives(d))
  /\ WF_vars(\E d \in DramPins : d.w_ready /\ WaitingDrives(d))

(* docs/cache_microarch.txt:40, ARVALID is asserted when a request is ready: *)
(* the oldest miss, when it is a read, gets onto the channel unless a reset  *)
(* takes it back.                                                            *)
ReadWaits == Oldest.valid /\ ~Oldest.write_req
ReadPresented == ReadWaits ~> (ar_packet.valid \/ ~ReadWaits)
=============================================================================
