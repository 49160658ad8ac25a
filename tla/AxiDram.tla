------------------------------ MODULE AxiDram ------------------------------
(***************************************************************************)
(* The cache with a DRAM that takes a request whenever valid and ready are *)
(* both high at an edge, as monitor.sv counts handshakes, and answers what *)
(* it has taken.  It has room for one read and one write and is ready only *)
(* while that room is free.  No DRAM is in the repository: this one does   *)
(* what AXI lets any slave do.  It shares the reset of the cache.          *)
(***************************************************************************)
EXTENDS OrderlyDram

VARIABLES
  reading,   (* the read taken and not answered, or an invalid address packet *)
  writing,   (* the write address taken and not answered, likewise            *)
  line       (* whether the data of a write has been taken                    *)

axi_vars == <<vars, reading, writing, line>>

(* monitor.sv:82, 98 and 106. *)
ArHandshake == ar_packet.valid /\ dram.ar_ready
AwHandshake == aw_packet.valid /\ dram.aw_ready
WHandshake  == w_packet.valid /\ dram.w_ready

(* What it may drive with what it holds. *)
MayDrive(d) ==
  /\ d.ar_ready => ~reading'.valid
  /\ d.aw_ready => ~writing'.valid
  /\ d.w_ready  => ~line'
  /\ d.r_valid  => reading'.valid
  /\ d.b_valid  => writing'.valid /\ line'

AxiInit ==
  Init /\ reading = ZeroAddress /\ writing = ZeroAddress /\ line = FALSE

L1Drives ==
  /\ \E e \in EntryPins : DriveEntry(e)
  /\ UNCHANGED <<reading, writing, line>>

AxiClocked ==
  /\ reading' = IF ArHandshake THEN ar_packet
                ELSE IF dram.r_valid THEN ZeroAddress ELSE reading
  /\ writing' = IF AwHandshake THEN aw_packet
                ELSE IF dram.b_valid THEN ZeroAddress ELSE writing
  /\ line' = (WHandshake \/ (line /\ ~dram.b_valid))
  /\ \E e \in EntryPins \cup {l2_entry_packet}, d \in DramPins :
       MayDrive(d) /\ ClockEdge(e, d)

AxiReset ==
  /\ reading' = ZeroAddress /\ writing' = ZeroAddress /\ line' = FALSE
  /\ \E e \in EntryPins \cup {l2_entry_packet}, d \in DramPins :
       MayDrive(d) /\ ResetEdge(e, d)

AxiNext == L1Drives \/ AxiClocked \/ AxiReset

AxiSpec == AxiInit /\ [][AxiNext]_axi_vars

(* L2Cache.sv:166 and 160, an answer brings what the master requested or     *)
(* confirms what it wrote: it is for the oldest miss, of its kind and its    *)
(* address.                                                                  *)
AnsweredAsAsked ==
  /\ dram.r_valid =>
       Oldest.valid /\ ~Oldest.write_req /\ Oldest.addr = reading.addr
  /\ dram.b_valid =>
       Oldest.valid /\ Oldest.write_req /\ Oldest.addr = writing.addr
=============================================================================
