--------------------------- MODULE MCCacheArrays ---------------------------
(***************************************************************************)
(* Pin sets for model checking CacheArrays.                                *)
(***************************************************************************)
EXTENDS CacheArrays

Addr(tag, set) == [tag |-> tag, set_idx |-> set, offset |-> 0]

(* A WRITE or EVICT brings a line that is not zero. *)
Brought == CHOOSE l \in Line \ {ZeroLine, XLine} : TRUE
Request(type, core, a) ==
  [req_type |-> type,
   cache_line |-> IF type \in {"WRITE", "EVICT"} THEN Brought ELSE ZeroLine,
   target_addr |-> a, core_id |-> core]

(* Two lines of a set and an eviction, which writes a row on every edge. *)
TwoMisses ==
  {Request("READ", 0, Addr(2, 1)), Request("READ", 0, Addr(1, 1)),
   Request("EVICT", 1, Addr(1, 1))}

(* The idle bus and one miss. *)
OneMiss == {ZeroEntry, Request("READ", 0, Addr(2, 1))}

Dram(ready, r) ==
  [ar_ready |-> ready, aw_ready |-> FALSE, w_ready |-> FALSE,
   r_valid |-> r, b_valid |-> FALSE]
ReadsOnly == {Dram(FALSE, FALSE), Dram(FALSE, TRUE)}
ReadyReads == {Dram(ready, r) : ready, r \in BOOLEAN}

NoSnoop == {[c \in Core |-> ZeroSnoopResp]}

(* An unknown row reads as one that core 1 has modified. *)
ModifiedRow ==
  [valid |-> TRUE, dirty |-> TRUE, sharers |-> {1}, owner_state |-> "MODIFIED",
   addr |-> Addr(2, 1)]
UnknownRows == {ModifiedRow}

PortRows  == [Way -> {TagPort(row) : row \in UnknownRows \cup {ZeroMeta}}]
PortLines == [Way -> {ZeroLine, XLine}]
=============================================================================
