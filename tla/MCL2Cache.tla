----------------------------- MODULE MCL2Cache -----------------------------
(***************************************************************************)
(* Pin sets for model checking L2Cache.                                    *)
(***************************************************************************)
EXTENDS L2Cache

Addr(tag, set) == [tag |-> tag, set_idx |-> set, offset |-> 0]

(* A WRITE or EVICT brings a line that is not zero. *)
Brought == CHOOSE l \in Line \ {ZeroLine} : TRUE
Request(type, core, a) ==
  [req_type |-> type,
   cache_line |-> IF type \in {"WRITE", "EVICT"} THEN Brought ELSE ZeroLine,
   target_addr |-> a, core_id |-> core]

(* The idle bus of the testbench, which reads as an UPGRADE of address zero. *)
Idle == ZeroEntry

(* Three lines, one more than the ring has slots, so that slots are reused;  *)
(* both cores want line 1.                                                   *)
RingEntries ==
  {Request("READ", 0, Addr(1, 0)), Request("WRITE", 1, Addr(1, 0)),
   Request("READ", 1, Addr(2, 0)), Request("WRITE", 0, Addr(3, 0))}

(* Reads of two lines in each of two sets, address zero among them. *)
FillEntries ==
  {Idle} \cup {Request("READ", 0, Addr(tag, s)) : tag \in {0, 1}, s \in {0, 1}}

(* Two lines in the last set the arrays have and two in a set index past it. *)
OutOfRangeEntries ==
  {Request("READ", 0, Addr(tag, s)) : tag \in {1, 2}, s \in {2, 3}}

Dram(ar, aw, w, r, b) ==
  [ar_ready |-> ar, aw_ready |-> aw, w_ready |-> w, r_valid |-> r, b_valid |-> b]

(* The DRAM accepts addresses, alone or as it answers a write, or write data *)
(* as it answers a read, or only answers, a read and a write at once.        *)
RingDram ==
  {Dram(TRUE, TRUE, FALSE, FALSE, FALSE), Dram(FALSE, FALSE, TRUE, TRUE, FALSE),
   Dram(TRUE, TRUE, FALSE, FALSE, TRUE), Dram(FALSE, FALSE, FALSE, TRUE, TRUE)}

FillDram == {Dram(FALSE, FALSE, FALSE, r, FALSE) : r \in BOOLEAN}

NoSnoop == {[c \in Core |-> ZeroSnoopResp]}

EmptyTags == {[w \in Way |-> ZeroMeta]}
ZeroData == {[w \in Way |-> ZeroLine]}
=============================================================================
