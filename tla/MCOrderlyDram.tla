--------------------------- MODULE MCOrderlyDram ---------------------------
(***************************************************************************)
(* Pin sets for model checking OrderlyDram.                                *)
(***************************************************************************)
EXTENDS OrderlyDram

Addr(tag) == [tag |-> tag, set_idx |-> 0, offset |-> 0]

(* A WRITE or EVICT brings a line that is not zero. *)
Brought == CHOOSE l \in Line \ {ZeroLine} : TRUE
Request(type, core, a) ==
  [req_type |-> type,
   cache_line |-> IF type \in {"WRITE", "EVICT"} THEN Brought ELSE ZeroLine,
   target_addr |-> a, core_id |-> core]

(* One line more than there are slots, so that slots are reused. *)
ThreeLines ==
  {Request("READ", 0, Addr(1)), Request("READ", 1, Addr(2)),
   Request("WRITE", 0, Addr(3))}

Dram(ar, aw, w, r, b) ==
  [ar_ready |-> ar, aw_ready |-> aw, w_ready |-> w, r_valid |-> r, b_valid |-> b]

(* Ready on every channel or on none, with no answer or one. *)
OneAnswer ==
  {Dram(ready, ready, ready, r, b) : ready, r, b \in BOOLEAN}
  \ {Dram(ready, ready, ready, TRUE, TRUE) : ready \in BOOLEAN}

(* Ready on each channel for itself, or one answer. *)
EachReady ==
  {Dram(ar, aw, w, FALSE, FALSE) : ar, aw, w \in BOOLEAN}
  \cup {Dram(FALSE, FALSE, FALSE, r, ~r) : r \in BOOLEAN}

NoSnoop == {[c \in Core |-> ZeroSnoopResp]}

(* A response nobody asked for, with a line, of every core, or none. *)
StraySnoop ==
  NoSnoop \cup {[c \in Core |-> [valid |-> TRUE, addr |-> Addr(1),
                                 data |-> Brought, core_id |-> c]]}

EmptyTags == {[w \in Way |-> ZeroMeta]}
ZeroData == {[w \in Way |-> ZeroLine]}
=============================================================================
