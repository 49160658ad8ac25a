------------------------------- MODULE MemDP -------------------------------
(***************************************************************************)
(* verilog/memDP.sv as the cache instantiates it: one read port, no bypass *)
(* (BYPASS_EN = 0).  A memory is a function from its addresses to values.  *)
(* An address bus that was never assigned is X and names no cell.          *)
(***************************************************************************)
EXTENDS Integers

CONSTANTS
  Depth,   (* DEPTH                                                          *)
  Zero,    (* the all-zero value                                             *)
  X        (* the unknown value                                              *)

Addresses == 0..(Depth - 1)
NoAddr == -1

(* Reset clears every cell. *)
Cleared == [a \in Addresses |-> Zero]

(* mutant: the read enable is not looked at *)
Read_Always(mem, re, raddr) == IF raddr \in Addresses THEN mem[raddr] ELSE X
Read(mem, re, raddr) ==
  IF ~re THEN Zero ELSE IF raddr \in Addresses THEN mem[raddr] ELSE X

(* A write at an address past the depth, or at X, is lost. *)
Write(mem, we, waddr, wdata) ==
  IF we /\ waddr \in Addresses THEN [mem EXCEPT ![waddr] = wdata] ELSE mem
=============================================================================
