---------------------------- MODULE VictimPointer ----------------------------
(***************************************************************************)
(* What the replacement logic promises, told without ages: every set has   *)
(* a pointer to the way its next fill replaces, a fill moves it to the     *)
(* next way, and reset brings every pointer back to way 0.                 *)
(***************************************************************************)
EXTENDS Integers

CONSTANTS Sets, Ways

VARIABLE victim

Init == victim = [s \in Sets |-> 0]

Advance(p) == IF p = Ways - 1 THEN 0 ELSE p + 1

Fill(s) == victim' = [victim EXCEPT ![s] = Advance(@)]

Reset == victim' = [s \in Sets |-> 0]

Next == (\E s \in Sets : Fill(s)) \/ Reset

Spec == Init /\ [][Next]_victim
=============================================================================
