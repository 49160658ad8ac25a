----------------------------- MODULE MCAxiDram -----------------------------
(***************************************************************************)
(* Pin sets for model checking AxiDram.                                    *)
(***************************************************************************)
EXTENDS AxiDram

Addr(tag) == [tag |-> tag, set_idx |-> 0, offset |-> 0]
Request(type, core, a) ==
  [req_type |-> type, cache_line |-> ZeroLine, target_addr |-> a, core_id |-> core]

(* The idle bus and a read of one line. *)
OneRead == {ZeroEntry, Request("READ", 0, Addr(1))}

(* Everything the DRAM has pins for. *)
AnyDram == DRAM_PINS

NoSnoop == {[c \in Core |-> ZeroSnoopResp]}
EmptyTags == {[w \in Way |-> ZeroMeta]}
ZeroData == {[w \in Way |-> ZeroLine]}
=============================================================================
