-------------------------- MODULE OrderlyDramProofs --------------------------
(***************************************************************************)
(* Theorems about the ring of MSHRs under an orderly DRAM, for every       *)
(* number of slots, cores and lines, with the tag arrays as connected.     *)
(* wait_idx counts modulo WAYS on a write response and modulo NUM_MSHRS    *)
(* otherwise: the two are equal in include/sys_defs.svh, and where they    *)
(* are not the theorems hold as long as no L1 sends a WRITE.               *)
(***************************************************************************)
EXTENDS OrderlyDram, L2CacheProofs, SequenceTheorems

SlotPerWay == NUM_MSHRS = WAYS
NoWrites   == \A e \in EntryPins : e.req_type # "WRITE"
WrapsAgree == SlotPerWay \/ NoWrites

Following(i) == IF i = NUM_MSHRS - 1 THEN 0 ELSE i + 1

(* What one clock edge does to the ring. *)
RingStep(accepts, serves) ==
  /\ \A i \in MshrIdx :
       mshrs'[i].valid <=> \/ accepts /\ i = free_idx
                           \/ mshrs[i].valid /\ ~(serves /\ i = wait_idx)
  /\ free_idx' = IF accepts THEN Following(free_idx) ELSE free_idx
  /\ wait_idx' = IF serves THEN Following(wait_idx) ELSE wait_idx

RingInv == TypeOK /\ MissInv /\ OriginInv /\ Orderly /\ RingExact

(* Only a slot some WRITE has filled is answered by a write response. *)
LEMMA WritesAnswered ==
  ASSUME WrapsAgree, RingInv
  PROVE  SlotPerWay \/ ~dram.b_valid
  <1> SUFFICES ASSUME NoWrites, dram.b_valid PROVE FALSE
    BY DEF WrapsAgree
  <1>1. Oldest.valid /\ Oldest.write_req
    BY DEF RingInv, Orderly, Asked
  <1>2. wait_idx \in MshrIdx
    BY DEF RingInv, TypeOK
  <1>3. Requested("WRITE", Oldest.addr)
    BY <1>1, <1>2 DEF RingInv, OriginInv, Oldest, Kind
  <1> QED
    BY <1>3 DEF Requested, NoWrites

LEMMA RingEdge ==
  ASSUME SlotPerWay \/ ~dram.b_valid, TypeOK, MissInv, UpdateRegs
  PROVE  RingStep(Allocates, Answer)
  <1>1. /\ mshrs' = next_mshrs /\ free_idx' = next_free_idx
        /\ wait_idx' = next_wait_idx
    BY DEF UpdateRegs, MissInv
  <1>2. ~WritesBack
    BY InvalidRows DEF MissInv
  <1>3. ASSUME NEW i \in MshrIdx
        PROVE  mshrs'[i].valid <=> \/ Allocates /\ i = free_idx
                                   \/ mshrs[i].valid /\ ~(Answer /\ i = wait_idx)
    <2>1. mshrs[i] \in MSHR
      BY DEF TypeOK
    <2>2. Evicted(i) = Freed(i)
      BY <1>2 DEF Evicted
    <2>3. Freed(i).valid <=> mshrs[i].valid /\ ~(Answer /\ i = wait_idx)
      BY <2>1 DEF Freed, MSHR
    <2> QED
      BY <1>1, <2>2, <2>3 DEF next_mshrs, MissEntry
  <1>4. free_idx' = IF Allocates THEN Following(free_idx) ELSE free_idx
    BY <1>1, <1>2, StepRound, ParameterAssumption
    DEF next_free_idx, Following, TypeOK, MshrIdx
  <1>5. wait_idx' = IF Answer THEN Following(wait_idx) ELSE wait_idx
    BY <1>1, StepRound, ParameterAssumption
    DEF SlotPerWay, next_wait_idx, Following, TypeOK, MshrIdx, Answer
  <1> QED
    BY <1>3, <1>4, <1>5 DEF RingStep

(* The ring stays exact as long as a miss takes an empty slot and an answer  *)
(* frees a taken one.                                                        *)
LEMMA RingStepExact ==
  ASSUME TypeOK, TypeOK', RingExact, NEW accepts \in BOOLEAN, NEW serves \in BOOLEAN,
         accepts => ~mshrs[free_idx].valid,
         serves => mshrs[wait_idx].valid,
         RingStep(accepts, serves)
  PROVE  RingExact'
  <1> DEFINE n == NUM_MSHRS
             valid(i) == mshrs[i].valid
  <1>1. /\ n \in Nat \ {0} /\ free_idx \in 0..(n - 1) /\ wait_idx \in 0..(n - 1)
        /\ free_idx' \in 0..(n - 1) /\ wait_idx' \in 0..(n - 1)
    BY ParameterAssumption DEF TypeOK, MshrIdx
  <1>2. \A i \in 0..(n - 1) : valid(i) <=> Behind(i) < InFlight
    BY DEF RingExact, MshrIdx
  <1>3. CASE ~accepts /\ ~serves
    BY <1>1, <1>2, <1>3 DEF RingStep, RingExact, Behind, InFlight, MshrIdx, Following
  <1>4. CASE accepts /\ ~serves
    BY <1>1, <1>2, <1>4 DEF RingStep, RingExact, Behind, InFlight, MshrIdx, Following
  <1>5. CASE ~accepts /\ serves
    BY <1>1, <1>2, <1>5 DEF RingStep, RingExact, Behind, InFlight, MshrIdx, Following
  <1>6. CASE accepts /\ serves
    BY <1>1, <1>2, <1>6 DEF RingStep, RingExact, Behind, InFlight, MshrIdx, Following
  <1> QED
    BY <1>3, <1>4, <1>5, <1>6

LEMMA InitRing == Init => RingInv
  <1> SUFFICES ASSUME Init PROVE RingInv
    OBVIOUS
  <1>1. Orderly
    BY DEF Init, IdleDram, Orderly
  <1>2. RingExact
    BY ParameterAssumption
    DEF Init, ZeroMshr, RingExact, InFlight, Behind, MshrIdx
  <1> QED
    BY <1>1, <1>2, InitTypes, InitMiss, InitOrigin DEF RingInv

(* Every step is a step of the ring, a reset of it, or leaves it alone. *)
LEMMA RingOfStep ==
  ASSUME WrapsAgree, RingInv, [OrderlyNext]_vars
  PROVE  \/ /\ RingStep(Allocates, Answer)
            /\ UpdateRegs
            /\ Allocates => ~mshrs[free_idx].valid
            /\ Answer => mshrs[wait_idx].valid
         \/ Resets
         \/ UNCHANGED <<mshrs, free_idx, wait_idx>>
  <1>1. Allocates => ~mshrs[free_idx].valid
    BY DEF Allocates
  <1>2. Answer => mshrs[wait_idx].valid
    BY DEF RingInv, Orderly, Asked, Oldest, Answer
  <1>3. UpdateRegs => RingStep(Allocates, Answer)
    BY RingEdge, WritesAnswered DEF RingInv
  <1> QED
    BY <1>1, <1>2, <1>3 DEF OrderlyNext, Next, vars, regs, DriveEntry, DriveDram,
       DriveSnoop, DriveArrays, Clocked, ClockEdge

LEMMA StepRing ==
  ASSUME TagsAsWired, WrapsAgree
  PROVE  RingInv /\ [OrderlyNext]_vars => RingInv'
  <1> SUFFICES ASSUME RingInv, [OrderlyNext]_vars PROVE RingInv'
    OBVIOUS
  <1>1. [Next]_vars
    BY DEF OrderlyNext
  <1>2. TypeOK' /\ MissInv' /\ OriginInv'
    BY <1>1, StepTypes, StepMiss, StepOrigin DEF RingInv
  <1>3. Orderly'
    BY DEF OrderlyNext, RingInv, Orderly, Asked, Oldest, vars, pins, regs
  <1>4. RingExact'
    <2>1. CASE /\ RingStep(Allocates, Answer)
               /\ Allocates => ~mshrs[free_idx].valid
               /\ Answer => mshrs[wait_idx].valid
      <3>1. Allocates \in BOOLEAN /\ Answer \in BOOLEAN
        BY DEF Allocates, Answer
      <3> QED
        BY <1>2, <2>1, <3>1, RingStepExact DEF RingInv
    <2>2. CASE Resets
      BY <2>2, ParameterAssumption
      DEF Resets, ResetEdge, ZeroMshr, RingExact, InFlight, Behind, MshrIdx
    <2>3. CASE UNCHANGED <<mshrs, free_idx, wait_idx>>
      BY <2>3 DEF RingInv, RingExact, InFlight, Behind
    <2> QED
      BY <2>1, <2>2, <2>3, RingOfStep
  <1> QED
    BY <1>2, <1>3, <1>4 DEF RingInv

(* For every number of slots the valid MSHRs are the slots from wait_idx up  *)
(* to free_idx, provided the DRAM answers in order and WAYS equals           *)
(* NUM_MSHRS, which the wrap of a write response at WAYS needs, or nobody    *)
(* writes.                                                                   *)
THEOREM RingStaysExact ==
  ASSUME TagsAsWired, WrapsAgree
  PROVE  OrderlySpec => []RingExact
  <1>1. RingInv => RingExact
    BY DEF RingInv
  <1> QED
    BY <1>1, InitRing, StepRing, PTL DEF OrderlySpec

-----------------------------------------------------------------------------
(* ---- The ring as a queue ------------------------------------------------ *)

LEMMA FunctionIsSeq ==
  ASSUME NEW S, NEW n \in Nat, NEW f \in [1..n -> S]
  PROVE  f \in Seq(S) /\ Len(f) = n
  <1>1. f \in Seq(S)
    BY SeqDef
  <1>2. Len(f) \in Nat /\ 1..Len(f) = 1..n
    BY <1>1, LenProperties
  <1>3. Len(f) = n
    BY <1>2, SMT
  <1> QED
    BY <1>1, <1>3

(* A queue that is one longer at the back. *)
LEMMA AppendedQueue ==
  ASSUME NEW S, NEW n \in Nat, NEW f \in [1..n -> S], NEW g \in [1..(n + 1) -> S],
         \A k \in 1..n : g[k] = f[k]
  PROVE  g = Append(f, g[n + 1])
  <1>1. /\ f \in Seq(S) /\ Len(f) = n
        /\ g \in Seq(S) /\ Len(g) = n + 1 /\ g[n + 1] \in S
    BY FunctionIsSeq
  <1>2. /\ Append(f, g[n + 1]) \in Seq(S)
        /\ Len(Append(f, g[n + 1])) = n + 1
        /\ \A k \in 1..(n + 1) :
             Append(f, g[n + 1])[k] = IF k <= n THEN f[k] ELSE g[n + 1]
    BY <1>1, AppendProperties
  <1>3. \A k \in 1..(n + 1) : Append(f, g[n + 1])[k] = g[k]
    BY <1>2
  <1> QED
    BY <1>1, <1>2, <1>3, SeqEqual

(* A queue whose oldest member has left. *)
LEMMA ServedQueue ==
  ASSUME NEW S, NEW n \in Nat, NEW f \in [1..(n + 1) -> S], NEW g \in [1..n -> S],
         \A k \in 1..n : g[k] = f[k + 1]
  PROVE  f # <<>> /\ g = Tail(f)
  <1>1. /\ f \in Seq(S) /\ Len(f) = n + 1
        /\ g \in Seq(S) /\ Len(g) = n
    BY FunctionIsSeq
  <1>2. f # <<>>
    BY <1>1, EmptySeq
  <1>3. /\ Tail(f) \in Seq(S) /\ Len(Tail(f)) = n
        /\ \A k \in 1..n : Tail(f)[k] = f[k + 1]
    BY <1>1, <1>2, HeadTailProperties
  <1> QED
    BY <1>1, <1>2, <1>3, SeqEqual

(* Where the k-th oldest miss is. *)
SlotOf(k) == (wait_idx + k - 1) % NUM_MSHRS

LEMMA AroundRing ==
  ASSUME NEW n \in Nat \ {0}, NEW w \in 0..(n - 1), NEW k \in 1..n
  PROVE  /\ (w + k - 1) % n \in 0..(n - 1)
         /\ (w + k - 1) % n = IF w + k - 1 >= n THEN w + k - 1 - n ELSE w + k - 1
  BY SMT

LEMMA SlotOfInRing ==
  ASSUME TypeOK, NEW k \in 1..NUM_MSHRS
  PROVE  /\ SlotOf(k) \in MshrIdx
         /\ SlotOf(k) = IF wait_idx + k - 1 >= NUM_MSHRS
                        THEN wait_idx + k - 1 - NUM_MSHRS ELSE wait_idx + k - 1
  BY AroundRing, ParameterAssumption DEF SlotOf, TypeOK, MshrIdx

(* The misses in flight are those between the two indices: none is skipped. *)
LEMMA QueuedAreValid ==
  ASSUME TypeOK, RingExact
  PROVE  /\ InFlight \in 0..NUM_MSHRS
         /\ \A k \in 1..InFlight : SlotOf(k) \in MshrIdx /\ mshrs[SlotOf(k)].valid
  <1>1. /\ NUM_MSHRS \in Nat \ {0}
        /\ free_idx \in 0..(NUM_MSHRS - 1) /\ wait_idx \in 0..(NUM_MSHRS - 1)
    BY ParameterAssumption DEF TypeOK, MshrIdx
  <1>2. InFlight \in 0..NUM_MSHRS
    BY <1>1 DEF InFlight, Behind
  <1>3. ASSUME NEW k \in 1..InFlight
        PROVE  SlotOf(k) \in MshrIdx /\ mshrs[SlotOf(k)].valid
    <2>1. k \in 1..NUM_MSHRS
      BY <1>1, <1>2
    <2>2. Behind(SlotOf(k)) = k - 1
      BY <1>1, <2>1, SlotOfInRing DEF Behind
    <2> QED
      BY <1>2, <2>1, <2>2, SlotOfInRing DEF RingExact
  <1> QED
    BY <1>2, <1>3

(* How a step of the ring changes the number of misses and their slots. *)
LEMMA QueueMoves ==
  ASSUME TypeOK, TypeOK', RingExact, RingExact',
         NEW accepts \in BOOLEAN, NEW serves \in BOOLEAN,
         accepts => ~mshrs[free_idx].valid,
         serves => mshrs[wait_idx].valid,
         RingStep(accepts, serves)
  PROVE  /\ InFlight' = InFlight + (IF accepts THEN 1 ELSE 0)
                                 - (IF serves THEN 1 ELSE 0)
         /\ accepts => InFlight < NUM_MSHRS
         /\ serves => InFlight > 0
         /\ \A k \in 1..NUM_MSHRS :
              /\ ~serves => SlotOf(k)' = SlotOf(k)
              /\ serves /\ k < NUM_MSHRS => SlotOf(k)' = SlotOf(k + 1)
         /\ accepts => SlotOf(InFlight + 1) = free_idx
  <1>1. /\ NUM_MSHRS \in Nat \ {0}
        /\ free_idx \in MshrIdx /\ wait_idx \in MshrIdx
        /\ free_idx' \in MshrIdx /\ wait_idx' \in MshrIdx
        /\ MshrIdx = 0..(NUM_MSHRS - 1)
    BY ParameterAssumption DEF TypeOK, MshrIdx
  <1>2. /\ mshrs[free_idx].valid <=> Behind(free_idx) < InFlight
        /\ mshrs[wait_idx].valid <=> Behind(wait_idx) < InFlight
    BY <1>1 DEF RingExact
  <1>3. /\ accepts => InFlight < NUM_MSHRS
        /\ serves => InFlight > 0
    BY <1>1, <1>2 DEF InFlight, Behind
  <1>4. mshrs'[wait_idx'].valid <=>
          \/ accepts /\ wait_idx' = free_idx
          \/ mshrs[wait_idx'].valid /\ ~(serves /\ wait_idx' = wait_idx)
    BY <1>1 DEF RingStep
  <1>5. mshrs[wait_idx'].valid <=> Behind(wait_idx') < InFlight
    BY <1>1 DEF RingExact
  <1>6. InFlight' = InFlight + (IF accepts THEN 1 ELSE 0)
                             - (IF serves THEN 1 ELSE 0)
    <2>1. CASE ~accepts /\ ~serves
      BY <1>1, <1>2, <1>4, <1>5, <2>1 DEF RingStep, Following, InFlight, Behind
    <2>2. CASE accepts /\ ~serves
      BY <1>1, <1>2, <1>4, <1>5, <2>2 DEF RingStep, Following, InFlight, Behind
    <2>3. CASE ~accepts /\ serves
      BY <1>1, <1>2, <1>4, <1>5, <2>3 DEF RingStep, Following, InFlight, Behind
    <2>4. CASE accepts /\ serves
      BY <1>1, <1>2, <1>4, <1>5, <2>4 DEF RingStep, Following, InFlight, Behind
    <2> QED
      BY <2>1, <2>2, <2>3, <2>4
  <1>7. ASSUME NEW k \in 1..NUM_MSHRS
        PROVE  /\ ~serves => SlotOf(k)' = SlotOf(k)
               /\ serves /\ k < NUM_MSHRS => SlotOf(k)' = SlotOf(k + 1)
    <2>1. ~serves => SlotOf(k)' = SlotOf(k)
      BY DEF RingStep, SlotOf
    <2>2. CASE serves /\ k < NUM_MSHRS
      <3>1. wait_idx' = IF wait_idx = NUM_MSHRS - 1 THEN 0 ELSE wait_idx + 1
        BY <2>2 DEF RingStep, Following
      <3>2. SlotOf(k + 1) = IF wait_idx + k >= NUM_MSHRS
                            THEN wait_idx + k - NUM_MSHRS ELSE wait_idx + k
        BY <1>1, <2>2, SlotOfInRing
      <3>3. SlotOf(k)' = IF wait_idx' + k - 1 >= NUM_MSHRS
                         THEN wait_idx' + k - 1 - NUM_MSHRS ELSE wait_idx' + k - 1
        BY <1>1, AroundRing DEF SlotOf
      <3> QED
        BY <1>1, <2>2, <3>1, <3>2, <3>3
    <2> QED
      BY <2>1, <2>2
  <1>8. accepts => SlotOf(InFlight + 1) = free_idx
    <2> SUFFICES ASSUME accepts PROVE SlotOf(InFlight + 1) = free_idx
      OBVIOUS
    <2>1. InFlight = Behind(free_idx) /\ InFlight + 1 \in 1..NUM_MSHRS
      BY <1>1, <1>2 DEF InFlight, Behind
    <2> QED
      BY <1>1, <2>1, SlotOfInRing DEF Behind
  <1> QED
    BY <1>3, <1>6, <1>7, <1>8

(* The miss a request becomes. *)
NewMiss == [addr |-> Target, core_id |-> CoreId,
            write_req |-> l2_entry_packet.req_type = "WRITE"]

(* What a miss is does not change while it is in flight. *)
LEMMA MissAtEdge ==
  ASSUME TypeOK, MissInv, UpdateRegs, NEW i \in MshrIdx
  PROVE  MissAt(i)' = IF Allocates /\ i = free_idx THEN NewMiss ELSE MissAt(i)
  <1>1. mshrs' = next_mshrs
    BY DEF UpdateRegs, MissInv
  <1>2. Evicted(i) = Freed(i)
    BY InvalidRows DEF MissInv, Evicted
  <1>3. mshrs[i] \in MSHR
    BY DEF TypeOK
  <1>4. /\ Freed(i).addr = mshrs[i].addr
        /\ Freed(i).core_id = mshrs[i].core_id
        /\ Freed(i).write_req = mshrs[i].write_req
    BY <1>3 DEF Freed, MSHR
  <1> QED
    BY <1>1, <1>2, <1>4 DEF next_mshrs, MissEntry, MissAt, NewMiss

LEMMA NewMissRequested ==
  ASSUME TypeOK, OriginInv, Allocates
  PROVE  NewMiss \in Misses
  <1>1. l2_entry_packet \in EntryPins
    BY DEF OriginInv, Allocates, Miss, Serving, ZeroEntry
  <1>2. CoreId \in Core
    BY ScanTypes
  <1> QED
    BY <1>1, <1>2 DEF NewMiss, Misses, Target

(* Every miss in flight came from a request of the L1s. *)
LEMMA MissesRequested ==
  ASSUME TypeOK, OriginInv, NEW i \in MshrIdx, mshrs[i].valid
  PROVE  MissAt(i) \in Misses
  <1>1. mshrs[i].core_id \in Core /\ mshrs[i].write_req \in BOOLEAN
    BY DEF TypeOK, MSHR
  <1>2. mshrs[i].addr \in {e.target_addr : e \in EntryPins}
    BY DEF OriginInv, Requested
  <1> QED
    BY <1>1, <1>2 DEF MissAt, Misses

LEMMA QueueTyped ==
  TypeOK /\ RingExact /\ OriginInv =>
    /\ InFlight \in 0..NUM_MSHRS
    /\ Queue \in [1..InFlight -> Misses]
    /\ \A k \in 1..InFlight : SlotOf(k) \in MshrIdx
                            /\ Queue[k] = MissAt(SlotOf(k))
  BY QueuedAreValid, MissesRequested DEF Queue, SlotOf

LEMMA InitQueue == Init => RingInv /\ Fifo!Init
  <1> SUFFICES ASSUME Init PROVE RingInv /\ Fifo!Init
    OBVIOUS
  <1>1. InFlight = 0
    BY ParameterAssumption DEF Init, InFlight, Behind, ZeroMshr, MshrIdx
  <1>2. Queue = <<>>
    BY <1>1 DEF Queue
  <1> QED
    BY <1>2, InitRing DEF Fifo!Init

(* Every step serves the oldest miss, accepts a new one, does both, forgets  *)
(* them all, or leaves the queue alone.                                      *)
LEMMA StepQueue ==
  ASSUME TagsAsWired, WrapsAgree
  PROVE  RingInv /\ [OrderlyNext]_vars => RingInv' /\ [Fifo!Next]_Queue
  <1> SUFFICES ASSUME RingInv, [OrderlyNext]_vars
               PROVE  RingInv' /\ [Fifo!Next]_Queue
    OBVIOUS
  <1>1. RingInv'
    BY StepRing
  <1>2. CASE /\ RingStep(Allocates, Answer)
             /\ UpdateRegs
             /\ Allocates => ~mshrs[free_idx].valid
             /\ Answer => mshrs[wait_idx].valid
    <2> DEFINE n == InFlight
    <2>1. /\ InFlight' = n + (IF Allocates THEN 1 ELSE 0)
                             - (IF Answer THEN 1 ELSE 0)
          /\ Allocates => n < NUM_MSHRS
          /\ Answer => n > 0
          /\ \A k \in 1..NUM_MSHRS :
               /\ ~Answer => SlotOf(k)' = SlotOf(k)
               /\ Answer /\ k < NUM_MSHRS => SlotOf(k)' = SlotOf(k + 1)
          /\ Allocates => SlotOf(n + 1) = free_idx
      <3>1. Allocates \in BOOLEAN /\ Answer \in BOOLEAN
        BY DEF Allocates, Answer
      <3> QED
        BY <1>1, <1>2, <3>1, QueueMoves DEF RingInv
    <2>2. /\ n \in 0..NUM_MSHRS /\ Queue \in [1..n -> Misses]
          /\ \A k \in 1..n : /\ Queue[k] = MissAt(SlotOf(k))
                             /\ SlotOf(k) \in MshrIdx
                             /\ mshrs[SlotOf(k)].valid
      BY QueueTyped, QueuedAreValid DEF RingInv
    <2>3. /\ InFlight' \in 0..NUM_MSHRS /\ Queue' \in [1..InFlight' -> Misses]
          /\ \A k \in 1..InFlight', i \in MshrIdx :
               SlotOf(k)' = i =>
                 Queue'[k] = IF Allocates /\ i = free_idx THEN NewMiss ELSE MissAt(i)
      <3>1. TypeOK' /\ RingExact' /\ OriginInv'
        BY <1>1 DEF RingInv
      <3>2. (/\ InFlight \in 0..NUM_MSHRS
             /\ Queue \in [1..InFlight -> Misses]
             /\ \A k \in 1..InFlight : SlotOf(k) \in MshrIdx
                                     /\ Queue[k] = MissAt(SlotOf(k)))'
        BY <3>1, QueueTyped, PTL
      <3>3. \A i \in MshrIdx :
              MissAt(i)' = IF Allocates /\ i = free_idx THEN NewMiss ELSE MissAt(i)
        BY <1>2, MissAtEdge DEF RingInv
      <3>4. \A k \in 1..InFlight', i \in MshrIdx :
              SlotOf(k)' = i => Queue'[k] = MissAt(i)'
        BY <3>2 DEF MissAt
      <3> QED
        BY <3>2, <3>3, <3>4
    <2>4. Allocates => /\ NewMiss \in Misses
                       /\ Len(Queue) < NUM_MSHRS
                       /\ ~Fifo!Queued(Queue, NewMiss)
      <3> SUFFICES ASSUME Allocates
                   PROVE  /\ NewMiss \in Misses
                          /\ Len(Queue) < NUM_MSHRS
                          /\ ~Fifo!Queued(Queue, NewMiss)
        OBVIOUS
      <3>1. NewMiss \in Misses
        BY NewMissRequested DEF RingInv
      <3>2. Len(Queue) = n
        BY <2>2, FunctionIsSeq
      <3>3. \A i \in MshrIdx : mshrs[i].addr # Target
        BY DEF RingInv, MissInv, Allocates, FindsMshr
      <3>4. \A k \in 1..n : Queue[k].addr # Target
        BY <2>2, <3>3 DEF MissAt
      <3> QED
        BY <2>1, <3>1, <3>2, <3>4 DEF Fifo!Queued, NewMiss
    <2>5. CASE ~Allocates /\ ~Answer
      <3>1. ASSUME NEW k \in 1..n PROVE Queue'[k] = Queue[k]
        <4>1. k \in 1..NUM_MSHRS /\ k \in 1..InFlight'
          BY <2>1, <2>2, <2>5, ParameterAssumption
        <4>2. SlotOf(k)' = SlotOf(k)
          BY <2>1, <2>5, <4>1
        <4> QED
          BY <2>2, <2>3, <2>5, <4>1, <4>2
      <3>2. Queue' = Queue
        BY <2>1, <2>2, <2>3, <2>5, <3>1
      <3> QED
        BY <1>1, <3>2
    <2>6. CASE Allocates /\ ~Answer
      <3>1. InFlight' = n + 1
        BY <2>1, <2>2, <2>6
      <3>2. ASSUME NEW k \in 1..n PROVE Queue'[k] = Queue[k]
        <4>1. k \in 1..NUM_MSHRS /\ k \in 1..InFlight'
          BY <2>2, <3>1, ParameterAssumption
        <4>2. SlotOf(k)' = SlotOf(k) /\ SlotOf(k) # free_idx
          BY <1>2, <2>1, <2>2, <2>6, <4>1
        <4> QED
          BY <2>2, <2>3, <4>1, <4>2
      <3>3. free_idx \in MshrIdx
        BY DEF RingInv, TypeOK
      <3>4. Queue'[n + 1] = NewMiss
        BY <2>1, <2>2, <2>3, <2>6, <3>1, <3>3
      <3>5. Queue' = Append(Queue, NewMiss)
        BY <2>2, <2>3, <3>1, <3>2, <3>4, AppendedQueue
      <3>6. Fifo!Accept(NewMiss)
        BY <2>4, <2>6, <3>5 DEF Fifo!Accept
      <3> QED
        BY <1>1, <2>4, <2>6, <3>6 DEF Fifo!Next
    <2>7. CASE ~Allocates /\ Answer
      <3>1. InFlight' = n - 1 /\ n - 1 \in Nat
        BY <2>1, <2>2, <2>7
      <3>2. ASSUME NEW k \in 1..(n - 1) PROVE Queue'[k] = Queue[k + 1]
        <4>1. /\ k \in 1..NUM_MSHRS /\ k < NUM_MSHRS
              /\ k \in 1..InFlight' /\ k + 1 \in 1..n
          BY <2>2, <3>1, ParameterAssumption
        <4>2. SlotOf(k)' = SlotOf(k + 1)
          BY <2>1, <2>7, <4>1
        <4> QED
          BY <2>2, <2>3, <2>7, <4>1, <4>2
      <3>3. Queue \in [1..((n - 1) + 1) -> Misses] /\ Queue' \in [1..(n - 1) -> Misses]
        BY <2>2, <2>3, <3>1
      <3>4. Queue # <<>> /\ Queue' = Tail(Queue)
        BY <3>1, <3>2, <3>3, ServedQueue
      <3> QED
        BY <1>1, <3>4 DEF Fifo!Next, Fifo!Serve
    <2>8. CASE Allocates /\ Answer
      <3> DEFINE rest == [k \in 1..(n - 1) |-> Queue[k + 1]]
      <3>1. InFlight' = n /\ n - 1 \in Nat /\ n < NUM_MSHRS
        BY <2>1, <2>2, <2>8
      <3>2. rest \in [1..(n - 1) -> Misses] /\ Queue \in [1..((n - 1) + 1) -> Misses]
        BY <2>2, <3>1
      <3>3. Queue # <<>> /\ rest = Tail(Queue)
        BY <3>1, <3>2, ServedQueue
      <3>4. ASSUME NEW k \in 1..(n - 1) PROVE Queue'[k] = rest[k]
        <4>1. /\ k \in 1..NUM_MSHRS /\ k < NUM_MSHRS
              /\ k \in 1..InFlight' /\ k + 1 \in 1..n
          BY <2>2, <3>1, ParameterAssumption
        <4>2. SlotOf(k)' = SlotOf(k + 1) /\ SlotOf(k + 1) # free_idx
          BY <1>2, <2>1, <2>2, <2>8, <4>1
        <4> QED
          BY <2>2, <2>3, <4>1, <4>2
      <3>5. free_idx \in MshrIdx
        BY DEF RingInv, TypeOK
      <3>6. Queue'[(n - 1) + 1] = NewMiss
        BY <2>1, <2>2, <2>3, <2>8, <3>1, <3>5
      <3>7. Queue' \in [1..((n - 1) + 1) -> Misses]
        BY <2>2, <2>3, <3>1
      <3>8. Queue' = Append(Tail(Queue), NewMiss)
        BY <3>1, <3>2, <3>3, <3>4, <3>6, <3>7, AppendedQueue
      <3>9. Fifo!ServeAndAccept(NewMiss)
        BY <2>4, <2>8, <3>3, <3>8 DEF Fifo!ServeAndAccept
      <3> QED
        BY <1>1, <2>4, <2>8, <3>9 DEF Fifo!Next
    <2> QED
      BY <2>5, <2>6, <2>7, <2>8
  <1>3. CASE Resets
    <2>1. InFlight' = 0
      BY <1>3, ParameterAssumption
      DEF Resets, ResetEdge, InFlight, Behind, ZeroMshr, MshrIdx
    <2>2. Queue' = <<>>
      BY <2>1 DEF Queue
    <2> QED
      BY <1>1, <2>2 DEF Fifo!Next, Fifo!Reset
  <1>4. CASE UNCHANGED <<mshrs, free_idx, wait_idx>>
    <2>1. Queue' = Queue
      BY <1>4 DEF Queue, InFlight, Behind, MissAt
    <2> QED
      BY <1>1, <2>1
  <1> QED
    BY <1>2, <1>3, <1>4, RingOfStep

(* The MSHRs and their two indices implement a bounded first-in first-out    *)
(* queue of distinct misses: no miss is lost, served twice or overtaken.     *)
THEOREM ImplementsQueue ==
  ASSUME TagsAsWired, WrapsAgree
  PROVE  OrderlySpec => ServesInOrder
  BY InitQueue, StepQueue, PTL DEF OrderlySpec, ServesInOrder, Fifo!Spec

-----------------------------------------------------------------------------
(* ---- Service ------------------------------------------------------------ *)

(* Without an answer the oldest miss keeps its slot and its place, and is    *)
(* the slot the issue looks at.                                              *)
LEMMA OldestKept ==
  ASSUME TypeOK, MissInv, UpdateRegs, Oldest.valid, ~Answer
  PROVE  Oldest' = Oldest /\ NextSlot = Oldest
  <1>1. /\ mshrs' = next_mshrs /\ wait_idx' = next_wait_idx
        /\ wait_idx \in MshrIdx
    BY DEF UpdateRegs, MissInv, TypeOK
  <1>2. next_wait_idx = wait_idx
    BY DEF Answer, next_wait_idx
  <1>3. Evicted(wait_idx) = mshrs[wait_idx]
    BY InvalidRows DEF MissInv, Evicted, Freed
  <1>4. ~(Allocates /\ wait_idx = free_idx)
    BY DEF Allocates, Oldest
  <1> QED
    BY <1>1, <1>2, <1>3, <1>4 DEF Oldest, NextSlot, next_mshrs

LEMMA OldestIssued ==
  ASSUME TypeOK, MissInv, UpdateRegs, Oldest.valid, ~Answer,
         Ready(dram) \/ Asked
  PROVE  Asked'
  <1>1. /\ ar_packet' = next_ar_packet /\ aw_packet' = next_aw_packet
        /\ w_packet' = next_w_packet
    BY DEF UpdateRegs, MissInv
  <1>2. Oldest' = Oldest /\ NextSlot = Oldest
    BY OldestKept
  <1> QED
    BY <1>1, <1>2 DEF Asked, Ready, next_ar_packet, next_aw_packet, next_w_packet

LEMMA OthersComeNearer ==
  ASSUME RingInv, NEW accepts \in BOOLEAN, RingStep(accepts, TRUE),
         NEW i \in MshrIdx, mshrs[i].valid, i # wait_idx
  PROVE  mshrs'[i].valid /\ Behind(i)' = Behind(i) - 1
  <1>1. mshrs'[i].valid /\ wait_idx' = Following(wait_idx)
    BY DEF RingStep
  <1>2. /\ NUM_MSHRS \in Nat \ {0}
        /\ i \in 0..(NUM_MSHRS - 1) /\ wait_idx \in 0..(NUM_MSHRS - 1)
    BY ParameterAssumption DEF RingInv, TypeOK, MshrIdx
  <1> QED
    BY <1>1, <1>2 DEF Behind, Following

(* What MissesServed rests on, for every number of slots: one edge with a    *)
(* ready DRAM presents the oldest miss, it stays presented until its answer, *)
(* and each answer moves all the others up by one, so that the k-th miss is  *)
(* served by the k-th answer.                                                *)
THEOREM ServiceAdvances ==
  ASSUME TagsAsWired, WrapsAgree
  PROVE  OrderlySpec => OldestAdvances
  <1>1. RingInv /\ [OrderlyNext]_vars =>
          [ /\ Oldest.valid /\ Ready(dram) /\ ~Answer /\ UpdateRegs => Asked'
            /\ Asked => Asked' \/ (Answer /\ UpdateRegs) \/ Resets
            /\ Answer /\ UpdateRegs =>
                 \A i \in MshrIdx :
                   mshrs[i].valid /\ i # wait_idx =>
                     mshrs'[i].valid /\ Behind(i)' = Behind(i) - 1 ]_vars
    <2> SUFFICES ASSUME RingInv, [OrderlyNext]_vars
                 PROVE  /\ Oldest.valid /\ Ready(dram) /\ ~Answer /\ UpdateRegs
                             => Asked'
                        /\ Asked => Asked' \/ (Answer /\ UpdateRegs) \/ Resets
                        /\ Answer /\ UpdateRegs =>
                             \A i \in MshrIdx :
                               mshrs[i].valid /\ i # wait_idx =>
                                 mshrs'[i].valid /\ Behind(i)' = Behind(i) - 1
      OBVIOUS
    <2>1. Oldest.valid /\ Ready(dram) /\ ~Answer /\ UpdateRegs => Asked'
      BY OldestIssued DEF RingInv
    <2>2. Asked => Asked' \/ (Answer /\ UpdateRegs) \/ Resets
      <3>1. Asked /\ UpdateRegs => Asked' \/ Answer
        BY OldestIssued DEF RingInv, Asked
      <3>2. Asked /\ UNCHANGED regs => Asked'
        BY DEF Asked, Oldest, regs
      <3> QED
        BY <3>1, <3>2 DEF OrderlyNext, Next, vars, DriveEntry, DriveDram,
           DriveSnoop, DriveArrays, Clocked, ClockEdge
    <2>3. ASSUME Answer, UpdateRegs,
                 NEW i \in MshrIdx, mshrs[i].valid, i # wait_idx
          PROVE  mshrs'[i].valid /\ Behind(i)' = Behind(i) - 1
      <3>1. RingStep(Allocates, TRUE)
        <4>1. RingStep(Allocates, Answer)
          BY <2>3, RingEdge, WritesAnswered DEF RingInv
        <4> QED
          BY <2>3, <4>1 DEF RingStep
      <3>2. Allocates \in BOOLEAN
        BY DEF Allocates
      <3> QED
        BY <2>3, <3>1, <3>2, OthersComeNearer
    <2> QED
      BY <2>1, <2>2, <2>3
  <1> QED
    BY <1>1, InitRing, StepRing, PTL DEF OrderlySpec, OldestAdvances

-----------------------------------------------------------------------------
(* ---- A DRAM that waits for valid ---------------------------------------- *)

(* Nothing is presented, so nothing is ready, so nothing is presented.       *)
Silent ==
  /\ ~ar_packet.valid /\ ~aw_packet.valid /\ ~w_packet.valid
  /\ ~dram.ar_ready /\ ~dram.aw_ready /\ ~dram.w_ready
  /\ ~Answer

LEMMA InitSilent == Init => Silent
  BY DEF Init, Silent, Answer, ZeroAddress, ZeroWriteData, IdleDram

LEMMA StepSilent == Silent /\ [WaitingNext]_vars => Silent'
  <1> SUFFICES ASSUME Silent, [WaitingNext]_vars PROVE Silent'
    OBVIOUS
  <1>1. CASE UNCHANGED vars
    BY <1>1 DEF Silent, Answer, vars, pins, regs
  <1>2. CASE WaitingNext
    <2>1. /\ ~ar_packet'.valid /\ ~aw_packet'.valid /\ ~w_packet'.valid
      <3>1. UpdateRegs => /\ ar_packet' = ar_packet /\ aw_packet' = aw_packet
                          /\ w_packet' = w_packet
        BY DEF Silent, UpdateRegs, regs, next_ar_packet, next_aw_packet,
           next_w_packet
      <3> QED
        BY <1>2, <3>1 DEF Silent, WaitingNext, OrderlyNext, Next, vars, regs,
           DriveEntry, DriveDram, DriveSnoop, DriveArrays, Clocked, ClockEdge,
           Resets, ResetEdge, ZeroAddress, ZeroWriteData
    <2>2. Orderly' /\ WaitsForValid'
      BY <1>2 DEF WaitingNext, OrderlyNext
    <2> QED
      BY <2>1, <2>2 DEF Silent, Answer, Orderly, WaitsForValid, Asked
  <1> QED
    BY <1>1, <1>2

(* With a DRAM that waits for valid, as AXI lets it, no request channel ever *)
(* becomes valid and no answer ever comes, whatever the parameters and the   *)
(* L1s: the two wait for each other from the start, writes and reads alike.  *)
THEOREM WaitingIsSilent == WaitingSafety => []Silent
  BY InitSilent, StepSilent, PTL DEF WaitingSafety

(* With such a DRAM a miss that gets a slot keeps it until a reset.          *)
THEOREM WaitingKeepsMisses ==
  WaitingSafety =>
    [][\A i \in MshrIdx : mshrs[i].valid => mshrs'[i].valid \/ Resets]_vars
  <1>1. Silent /\ [WaitingNext]_vars =>
          [\A i \in MshrIdx : mshrs[i].valid => mshrs'[i].valid \/ Resets]_vars
    <2> SUFFICES ASSUME Silent, [WaitingNext]_vars, NEW i \in MshrIdx,
                        mshrs[i].valid, ~Resets
                 PROVE  mshrs'[i].valid
      OBVIOUS
    <2>1. UpdateRegs => mshrs'[i].valid
      BY DEF Silent, UpdateRegs, regs, next_mshrs, MissEntry, Evicted, Freed,
         WriteBack
    <2> QED
      BY <2>1 DEF WaitingNext, OrderlyNext, Next, vars, regs, DriveEntry,
         DriveDram, DriveSnoop, DriveArrays, Clocked, ClockEdge
  <1> QED
    BY <1>1, InitSilent, StepSilent, PTL DEF WaitingSafety
=============================================================================
