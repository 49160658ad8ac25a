----------------------------- MODULE MissQueue -----------------------------
(***************************************************************************)
(* What the miss status holding registers promise, told without slots and  *)
(* indices: a bounded queue of misses in the order they came, no line in   *)
(* it twice, whose oldest member leaves when the DRAM has served it.       *)
(***************************************************************************)
EXTENDS Sequences, Naturals

CONSTANTS Depth, Misses

VARIABLE queue

Queued(q, m) == \E k \in 1..Len(q) : q[k].addr = m.addr

Init == queue = <<>>

Accept(m) ==
  /\ Len(queue) < Depth
  /\ ~Queued(queue, m)
  /\ queue' = Append(queue, m)

Serve ==
  /\ queue # <<>>
  /\ queue' = Tail(queue)

(* The oldest miss leaves as a new one comes. *)
ServeAndAccept(m) ==
  /\ queue # <<>> /\ Len(queue) < Depth
  /\ ~Queued(queue, m)
  /\ queue' = Append(Tail(queue), m)

Reset == queue' = <<>>

Next ==
  \/ \E m \in Misses : Accept(m) \/ ServeAndAccept(m)
  \/ Serve
  \/ Reset

Spec == Init /\ [][Next]_queue
=============================================================================
