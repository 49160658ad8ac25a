---------------------------- MODULE MCUvmDriver ----------------------------
(***************************************************************************)
(* Sequences and pin sets for model checking UvmDriver.                    *)
(***************************************************************************)
EXTENDS UvmDriver

(* Either core reads or writes one of two lines, address zero among them. *)
Allowed ==
  {Item(kind, MakeAddr(tag, 0), MakeWdata, core) :
     kind \in {"READ", "WRITE"}, tag \in {0, 1}, core \in {0, 1}}

BaseAndDirected ==
  BaseSeq(Allowed, 2) \cup {DirtyEvictSetSeq, SharedThenUpgradeSeq}

PacketsSent == UNION {{Packet(s[k]) : k \in 1..Len(s)} : s \in BaseAndDirected}

(* Ready on every channel or on none, with any answers. *)
AnyAnswer ==
  {[ar_ready |-> ready, aw_ready |-> ready, w_ready |-> ready,
    r_valid |-> r, b_valid |-> b] : ready, r, b \in BOOLEAN}

NoSnoop == {[c \in Core |-> ZeroSnoopResp]}
EmptyTags == {[w \in Way |-> ZeroMeta]}

(* Every way presents the same line, any line. *)
AnyLine == {[w \in Way |-> l] : l \in Line}
=============================================================================
