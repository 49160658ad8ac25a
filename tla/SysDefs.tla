------------------------------ MODULE SysDefs ------------------------------
(***************************************************************************)
(* The parameters and packet types of include/sys_defs.svh.                *)
(*                                                                         *)
(* Packed structs are records of the fields the cache acts on; an entry   *)
(* packet keeps its line too, to show what becomes of it.  An address      *)
(* keeps the three fields of its l2_addr view, because the tag decides a   *)
(* hit, the set index picks the replacement state, and one assignment of   *)
(* the cache puts a request code where an address belongs.  A 512-bit      *)
(* CACHE_LINE is an opaque value of Line.                                  *)
(***************************************************************************)
EXTENDS Integers

CONSTANTS
  NUM_CORES,        (* cores, each with a private L1                         *)
  WAYS,             (* associativity                                         *)
  WAY_SPAN,         (* 2^WAY_IDX_BITS: the values an LRU age can hold        *)
  NUM_SETS,         (* depth of the data and tag arrays and of lrus          *)
  NUM_SETS_BITS,    (* $clog2(NUM_SETS)                                      *)
  LINE_BITS_CLOG2,  (* $clog2(LINE_SIZE_BITS)                                *)
  NUM_MSHRS,        (* miss status holding registers                         *)
  Line,             (* the values a cache line can take                      *)
  ZeroLine          (* the all-zero line that reset leaves behind            *)

(* $clog2(n): the least b with n <= 2^b. *)
IsClog2(b, n) == b \in Nat /\ n <= 2^b /\ (b > 0 => 2^(b - 1) < n)

(* free_idx and wait_idx are three bits wide, and wait_idx counts modulo     *)
(* WAYS as well as modulo NUM_MSHRS.                                         *)
ASSUME ParameterAssumption ==
  /\ NUM_CORES \in Nat \ {0}
  /\ WAYS \in Nat \ {0, 1}
  /\ WAY_SPAN \in Nat /\ WAYS <= WAY_SPAN
  /\ NUM_SETS \in Nat \ {0}
  /\ NUM_MSHRS \in Nat \ {0} /\ NUM_MSHRS <= 8
  /\ WAYS <= NUM_MSHRS
  /\ ZeroLine \in Line

(* The three constants that stand for a $clog2 are one. *)
ASSUME WidthAssumption ==
  /\ \E b \in 0..WAYS : IsClog2(b, WAYS) /\ WAY_SPAN = 2^b
  /\ IsClog2(NUM_SETS_BITS, NUM_SETS)
  /\ LINE_BITS_CLOG2 \in Nat \ {0}
  /\ NUM_SETS_BITS + LINE_BITS_CLOG2 <= 32

-----------------------------------------------------------------------------
Core    == 0..(NUM_CORES - 1)
Way     == 0..(WAYS - 1)
Set     == 0..(NUM_SETS - 1)      \* the sets the arrays really have
MshrIdx == 0..(NUM_MSHRS - 1)

(* l2_addr: tag [31:16], set_idx [15:6], offset [5:0]. *)
ADDR == [tag : 0..65535, set_idx : 0..1023, offset : 0..63]
ZeroAddr == [tag |-> 0, set_idx |-> 0, offset |-> 0]

REQ_TYPE_ENUM    == {"UPGRADE", "READ", "WRITE", "EVICT"}
OWNER_STATE_ENUM == {"INVALID", "SHARED", "EXCLUSIVE", "MODIFIED"}

L2_ENTRY_PACKET ==
  [req_type : REQ_TYPE_ENUM, cache_line : Line, target_addr : ADDR,
   core_id : Core]
L2_EXIT_PACKET == [cache_line : Line, stall : BOOLEAN]
META_PACKET ==
  [valid : BOOLEAN, dirty : BOOLEAN, sharers : SUBSET Core,
   owner_state : OWNER_STATE_ENUM, addr : ADDR]
SNOOP_REQ_PACKET ==
  [valid : BOOLEAN, addr : ADDR, owner_state : OWNER_STATE_ENUM]
SNOOP_RESP_PACKET ==
  [valid : BOOLEAN, addr : ADDR, data : Line, core_id : Core]
MSHR ==
  [valid : BOOLEAN, addr : ADDR, data : Line, core_id : Core,
   write_req : BOOLEAN]
ADDRESS_PACKET    == [valid : BOOLEAN, addr : ADDR]   \* the AR and AW channels
WRITE_DATA_PACKET == [valid : BOOLEAN, data : Line]

(* What reset assigns: every field zero. *)
ZeroEntry == [req_type |-> "UPGRADE", cache_line |-> ZeroLine,
              target_addr |-> ZeroAddr, core_id |-> 0]
ZeroExit  == [cache_line |-> ZeroLine, stall |-> FALSE]
ZeroMeta  == [valid |-> FALSE, dirty |-> FALSE, sharers |-> {},
              owner_state |-> "INVALID", addr |-> ZeroAddr]
ZeroSnoopReq  == [valid |-> FALSE, addr |-> ZeroAddr, owner_state |-> "INVALID"]
ZeroSnoopResp == [valid |-> FALSE, addr |-> ZeroAddr, data |-> ZeroLine,
                  core_id |-> 0]
ZeroMshr == [valid |-> FALSE, addr |-> ZeroAddr, data |-> ZeroLine,
             core_id |-> 0, write_req |-> FALSE]
ZeroAddress   == [valid |-> FALSE, addr |-> ZeroAddr]
ZeroWriteData == [valid |-> FALSE, data |-> ZeroLine]

-----------------------------------------------------------------------------
(***************************************************************************)
(* The tag arrays are META_WIDTH bits wide, a META_PACKET is wider: the    *)
(* connection keeps the low META_WIDTH bits and reads the others as 0.     *)
(* From the top a META_PACKET is valid, dirty, sharers, owner_state and    *)
(* the 32-bit addr.                                                        *)
(***************************************************************************)
L2_TAG_WIDTH == 32 - NUM_SETS_BITS - LINE_BITS_CLOG2

(* mutant: the row is as wide as a META_PACKET *)
META_WIDTH_Full == 1 + 1 + NUM_CORES + 2 + 32
META_WIDTH   == 1 + 1 + NUM_CORES + 2 + L2_TAG_WIDTH

ValidBit == NUM_CORES + 35
DirtyBit == NUM_CORES + 34
SharerBit(c) == 34 + c
Stored(bit) == bit < META_WIDTH

(* A stored row as read_meta presents it.  Of the owner state only the whole *)
(* field is kept or lost, of the address nothing is dropped: no reader looks *)
(* at either in a row whose valid bit is 0.                                  *)
TagPort(row) ==
  [valid       |-> row.valid /\ Stored(ValidBit),
   dirty       |-> row.dirty /\ Stored(DirtyBit),
   sharers     |-> {c \in row.sharers : Stored(SharerBit(c))},
   owner_state |-> IF Stored(33) THEN row.owner_state ELSE "INVALID",
   addr        |-> row.addr]

=============================================================================
