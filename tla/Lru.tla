-------------------------------- MODULE Lru --------------------------------
(***************************************************************************)
(* The replacement ages of one set: lrus[set] in verilog/L2Cache.sv.       *)
(* Age 0 is the way to replace next, WAYS - 1 the way replaced last.       *)
(***************************************************************************)
EXTENDS SysDefs

Ages == [Way -> 0..(WAY_SPAN - 1)]

(* The value a scan over the ways leaves in `winner': the last way of S, or *)
(* the 0 the scan starts from.                                              *)
LastOf(S) ==
  IF \E w \in S : \A v \in S : v <= w
  THEN CHOOSE w \in S : \A v \in S : v <= w
  ELSE 0

Victim(age) == LastOf({w \in Way : age[w] = 0})

(* An LRU is WAY_IDX_BITS wide, so 0 - 1 wraps to WAY_SPAN - 1. *)
Decrement(n) == IF n = 0 THEN WAY_SPAN - 1 ELSE n - 1

(* mutant: only the winner's age is assigned *)
Renew_Unaged(age, winner) == [age EXCEPT ![winner] = WAYS - 1]
(* mutant: the other ages go up *)
Renew_Upwards(age, winner) ==
  [w \in Way |-> IF w = winner THEN WAYS - 1 ELSE (age[w] + 1) % WAY_SPAN]
Renew(age, winner) ==
  [w \in Way |-> IF w = winner THEN WAYS - 1 ELSE Decrement(age[w])]

ResetAges == [w \in Way |-> w]

-----------------------------------------------------------------------------
(* The ages of a set whose next victim is p when the ways are replaced in   *)
(* turn.                                                                    *)
TurnsFrom(p) == [w \in Way |-> IF w >= p THEN w - p ELSE w - p + WAYS]

NextWay(p) == IF p = WAYS - 1 THEN 0 ELSE p + 1
=============================================================================
