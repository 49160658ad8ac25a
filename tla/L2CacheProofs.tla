--------------------------- MODULE L2CacheProofs ---------------------------
(***************************************************************************)
(* Theorems about L2Cache, for every value of its constants.               *)
(***************************************************************************)
EXTENDS L2Cache, TLAPS

-----------------------------------------------------------------------------
(* ---- Arithmetic of the indices ------------------------------------------ *)

(* One step round a ring stays in it and is a wrapped increment. *)
LEMMA StepRound ==
  ASSUME NEW n \in Nat \ {0}, NEW i \in 0..(n - 1)
  PROVE  /\ (i + 1) % n \in 0..(n - 1)
         /\ (i + 1) % n = IF i = n - 1 THEN 0 ELSE i + 1
  BY SMT

(* The ring index that wraps at another modulus is a number below it. *)
LEMMA RemainderBelow ==
  ASSUME NEW n \in Nat \ {0}, NEW i \in Nat
  PROVE  i % n \in 0..(n - 1)
  BY SMT

(* A scan over the ways leaves one of them, or way 0. *)
LEMMA LastOfIsWay ==
  ASSUME NEW S \in SUBSET Way
  PROVE  LastOf(S) \in Way
  <1>1. 0 \in Way
    BY ParameterAssumption, SMT DEF Way
  <1> QED
    BY <1>1, Zenon DEF LastOf

(* A fill leaves ages that fit their registers. *)
LEMMA RenewInAges ==
  ASSUME NEW age \in Ages, NEW winner \in Way
  PROVE  Renew(age, winner) \in Ages
  BY ParameterAssumption, SMT DEF Renew, Ages, Decrement, Way

LEMMA ResetInAges == ResetAges \in Ages
  BY ParameterAssumption, SMT DEF ResetAges, Ages, Way

-----------------------------------------------------------------------------
(* ---- Type correctness --------------------------------------------------- *)

(* What reset assigns has the type of its register. *)
LEMMA ZeroTypes ==
  /\ ZeroEntry \in L2_ENTRY_PACKET
  /\ ZeroExit \in L2_EXIT_PACKET
  /\ ZeroMeta \in META_PACKET
  /\ ZeroSnoopReq \in SNOOP_REQ_PACKET
  /\ ZeroSnoopResp \in SNOOP_RESP_PACKET
  /\ ZeroMshr \in MSHR
  /\ ZeroAddress \in ADDRESS_PACKET
  /\ ZeroWriteData \in WRITE_DATA_PACKET
  <1>1. 0 \in Core /\ ZeroAddr \in ADDR /\ ZeroLine \in Line
    BY ParameterAssumption, SMT DEF Core, ADDR, ZeroAddr
  <1> QED
    BY <1>1 DEF ZeroEntry, ZeroExit, ZeroMeta, ZeroSnoopReq, ZeroSnoopResp,
       ZeroMshr, ZeroAddress, ZeroWriteData, L2_ENTRY_PACKET, L2_EXIT_PACKET,
       META_PACKET, SNOOP_REQ_PACKET, SNOOP_RESP_PACKET, MSHR, ADDRESS_PACKET,
       WRITE_DATA_PACKET, REQ_TYPE_ENUM, OWNER_STATE_ENUM

(* The ways the scans find, and the core they find in a row of the arrays. *)
LEMMA ScanTypes ==
  ASSUME TypeOK
  PROVE  /\ HitWay \in Way /\ FillWay \in Way
         /\ HitRow \in META_PACKET /\ VictimRow \in META_PACKET
         /\ CoreId \in Core /\ Target \in ADDR
  <1>1. hit \in SUBSET Way
    BY DEF hit
  <1>2. HitWay \in Way
    BY <1>1, LastOfIsWay DEF HitWay
  <1>3. FillWay \in Way
    <2>1. 0 \in Way
      BY ParameterAssumption, SMT DEF Way
    <2>2. ASSUME NEW s \in Set PROVE Victim(lrus[s]) \in Way
      BY LastOfIsWay DEF Victim
    <2> QED
      BY <2>1, <2>2 DEF FillWay
  <1> QED
    BY <1>2, <1>3 DEF TypeOK, HitRow, VictimRow, CoreId, Target, L2_ENTRY_PACKET

LEMMA TargetCoreType ==
  ASSUME NEW row \in META_PACKET
  PROVE  TargetCore(row) \in Core \cup {NoCore}
  <1>1. row.sharers \in SUBSET Core
    BY DEF META_PACKET
  <1> QED
    BY <1>1 DEF TargetCore

(* A response that counts as an answer came from a core. *)
LEMMA AnsweredType ==
  ASSUME TypeOK, NEW row \in META_PACKET, NEW a,
         Answered(TargetCore(row), a)
  PROVE  /\ TargetCore(row) \in Core
         /\ snoop_resp[TargetCore(row)] \in SNOOP_RESP_PACKET
  BY TargetCoreType DEF TypeOK, Answered

(* Every value always_comb settles on has the type of its register. *)
LEMMA NextTypes ==
  ASSUME TypeOK
  PROVE  /\ next_l2_exit_packet \in [Core -> L2_EXIT_PACKET]
         /\ next_snoop_req \in [Core -> SNOOP_REQ_PACKET]
         /\ next_mshrs \in [MshrIdx -> MSHR]
         /\ next_free_idx \in MshrIdx
         /\ next_wait_idx \in MshrIdx
         /\ next_aw_packet \in ADDRESS_PACKET
         /\ next_ar_packet \in ADDRESS_PACKET
         /\ next_w_packet \in WRITE_DATA_PACKET
         /\ next_lrus \in [Set -> Ages]
  <1>1. next_l2_exit_packet \in [Core -> L2_EXIT_PACKET]
    <2>1. CASE MissStalls
      BY <2>1, ScanTypes DEF TypeOK, next_l2_exit_packet, L2_EXIT_PACKET
    <2>2. CASE ~MissStalls /\ SnoopBack
      <3>1. snoop_resp[TargetCore(HitRow)].data \in Line
        BY <2>2, ScanTypes, AnsweredType DEF SnoopBack, SNOOP_RESP_PACKET
      <3> QED
        BY <2>2, <3>1, ScanTypes DEF TypeOK, next_l2_exit_packet, L2_EXIT_PACKET
    <2>3. CASE ~MissStalls /\ ~SnoopBack
      BY <2>3, ScanTypes DEF TypeOK, next_l2_exit_packet, L2_EXIT_PACKET
    <2> QED
      BY <2>1, <2>2, <2>3
  <1>2. next_snoop_req \in [Core -> SNOOP_REQ_PACKET]
    <2>1. ReadCodeAsAddr \in ADDR
      BY DEF ReadCodeAsAddr, ZeroAddr, ADDR
    <2>2. HitSnoop \in SNOOP_REQ_PACKET
      BY <2>1, ScanTypes DEF HitSnoop, Invalidate, SNOOP_REQ_PACKET, OWNER_STATE_ENUM
    <2>3. Invalidate(VictimRow.addr) \in SNOOP_REQ_PACKET
      BY ScanTypes DEF Invalidate, SNOOP_REQ_PACKET, META_PACKET, OWNER_STATE_ENUM
    <2> QED
      BY <2>2, <2>3 DEF TypeOK, next_snoop_req
  <1>3. next_mshrs \in [MshrIdx -> MSHR]
    <2>1. ASSUME NEW i \in MshrIdx PROVE Freed(i) \in MSHR
      BY DEF TypeOK, Freed, MSHR
    <2>2. WritesBack => WriteBack \in MSHR
      <3>1. CASE ModifiedBack
        <4>1. snoop_resp[TargetCore(VictimRow)] \in SNOOP_RESP_PACKET
          BY <3>1, ScanTypes, AnsweredType DEF ModifiedBack
        <4> QED
          BY <3>1, <4>1 DEF WriteBack, SNOOP_RESP_PACKET, MSHR
      <3>2. CASE ~ModifiedBack
        <4>1. read_data[FillWay] \in Line /\ 0 \in Core /\ VictimRow.addr \in ADDR
          BY ScanTypes, ParameterAssumption DEF TypeOK, Core, META_PACKET
        <4> QED
          BY <3>2, <4>1 DEF WriteBack, MSHR
      <3> QED
        BY <3>1, <3>2
    <2>3. ASSUME NEW i \in MshrIdx PROVE Evicted(i) \in MSHR
      BY <2>1, <2>2, <2>3 DEF Evicted
    <2>4. ASSUME NEW d \in Line PROVE MissEntry(d) \in MSHR
      BY ScanTypes DEF MissEntry, MSHR
    <2>5. ASSUME NEW i \in MshrIdx PROVE Evicted(i).data \in Line
      BY <2>3 DEF MSHR
    <2> QED
      BY <2>3, <2>4, <2>5 DEF next_mshrs
  <1>4. next_free_idx \in MshrIdx
    BY StepRound, ParameterAssumption DEF TypeOK, next_free_idx, MshrIdx
  <1>5. next_wait_idx \in MshrIdx
    <2>1. wait_idx + 1 \in Nat
      BY DEF TypeOK, MshrIdx
    <2>2. (wait_idx + 1) % NUM_MSHRS \in MshrIdx
      BY <2>1, RemainderBelow, ParameterAssumption DEF MshrIdx
    <2>3. (wait_idx + 1) % WAYS \in MshrIdx
      <3>1. (wait_idx + 1) % WAYS \in 0..(WAYS - 1)
        BY <2>1, RemainderBelow, ParameterAssumption
      <3> QED
        BY <3>1, ParameterAssumption DEF MshrIdx
    <2> QED
      BY <2>2, <2>3 DEF TypeOK, next_wait_idx
  <1>6. NextSlot \in MSHR
    BY <1>5 DEF NextSlot, TypeOK
  <1>7. /\ next_aw_packet \in ADDRESS_PACKET
        /\ next_ar_packet \in ADDRESS_PACKET
        /\ next_w_packet \in WRITE_DATA_PACKET
    BY <1>6 DEF TypeOK, MSHR, next_aw_packet, next_ar_packet, next_w_packet,
       ADDRESS_PACKET, WRITE_DATA_PACKET
  <1>8. next_lrus \in [Set -> Ages]
    BY ScanTypes, RenewInAges DEF TypeOK, next_lrus
  <1> QED
    BY <1>1, <1>2, <1>3, <1>4, <1>5, <1>7, <1>8

LEMMA InitTypes == Init => TypeOK
  <1> SUFFICES ASSUME Init PROVE TypeOK
    OBVIOUS
  <1>1. 0 \in MshrIdx
    BY ParameterAssumption DEF MshrIdx
  <1>2. waiting \in BOOLEAN /\ mshr_exists \in BOOLEAN
    BY Zenon DEF Init
  <1>3. dram \in DRAM_PINS
    BY DEF Init, IdleDram, DRAM_PINS
  <1>4. /\ l2_entry_packet \in L2_ENTRY_PACKET
        /\ snoop_resp \in [Core -> SNOOP_RESP_PACKET]
        /\ read_meta  \in [Way -> META_PACKET]
        /\ read_data  \in [Way -> Line]
    BY ZeroTypes, ParameterAssumption DEF Init
  <1>5. /\ l2_exit_packet \in [Core -> L2_EXIT_PACKET]
        /\ snoop_req \in [Core -> SNOOP_REQ_PACKET]
        /\ mshrs     \in [MshrIdx -> MSHR]
        /\ free_idx  \in MshrIdx
        /\ wait_idx  \in MshrIdx
        /\ aw_packet \in ADDRESS_PACKET
        /\ ar_packet \in ADDRESS_PACKET
        /\ w_packet  \in WRITE_DATA_PACKET
        /\ lrus      \in [Set -> Ages]
    BY <1>1, ZeroTypes, ResetInAges DEF Init
  <1> QED
    BY <1>2, <1>3, <1>4, <1>5 DEF TypeOK

LEMMA StepTypes == TypeOK /\ [Next]_vars => TypeOK'
  <1> SUFFICES ASSUME TypeOK, [Next]_vars PROVE TypeOK'
    OBVIOUS
  <1> DEFINE RegTypes == /\ l2_exit_packet  \in [Core -> L2_EXIT_PACKET]
                         /\ snoop_req       \in [Core -> SNOOP_REQ_PACKET]
                         /\ mshrs           \in [MshrIdx -> MSHR]
                         /\ free_idx        \in MshrIdx
                         /\ wait_idx        \in MshrIdx
                         /\ aw_packet       \in ADDRESS_PACKET
                         /\ ar_packet       \in ADDRESS_PACKET
                         /\ w_packet        \in WRITE_DATA_PACKET
                         /\ lrus            \in [Set -> Ages]
             LatchTypes == waiting \in BOOLEAN /\ mshr_exists \in BOOLEAN
  <1>1. Settle => LatchTypes'
    BY DEF Settle, TypeOK, WaitingValue
  <1>2. UNCHANGED regs => RegTypes'
    BY DEF TypeOK, regs
  <1>3. UpdateRegs => RegTypes'
    BY <1>2, NextTypes DEF UpdateRegs
  <1>4. CASE \E e \in EntryPins : DriveEntry(e)
    BY <1>1, <1>2, <1>4, PinAssumption DEF DriveEntry, TypeOK
  <1>5. CASE \E d \in DramPins : DriveDram(d)
    BY <1>1, <1>2, <1>5, PinAssumption DEF DriveDram, TypeOK
  <1>6. CASE \E r \in SnoopPins : DriveSnoop(r)
    BY <1>1, <1>2, <1>6, PinAssumption DEF DriveSnoop, TypeOK
  <1>7. CASE \E rows \in TagPins, lines \in DataPins : DriveArrays(rows, lines)
    BY <1>1, <1>2, <1>7, PinAssumption DEF DriveArrays, TypeOK
  <1>8. EntryPins \cup {l2_entry_packet} \subseteq L2_ENTRY_PACKET
        /\ DramPins \cup {dram} \subseteq DRAM_PINS
    BY PinAssumption DEF TypeOK
  <1>9. CASE Clocked
    BY <1>1, <1>3, <1>8, <1>9 DEF Clocked, ClockEdge, TypeOK
  <1>10. CASE Resets
    <2>1. RegTypes'
      <3>1. 0 \in MshrIdx
        BY ParameterAssumption DEF MshrIdx
      <3> QED
        BY <3>1, <1>10, ZeroTypes, ResetInAges DEF Resets, ResetEdge
    <2> QED
      BY <1>1, <1>8, <1>10, <2>1 DEF Resets, ResetEdge, TypeOK
  <1>11. CASE UNCHANGED vars
    BY <1>11 DEF vars, pins, regs, TypeOK
  <1> QED
    BY <1>4, <1>5, <1>6, <1>7, <1>8, <1>9, <1>10, <1>11 DEF Next

(* Every register holds a value of its declared width and type, whatever the *)
(* pins do: the two ring indices in particular stay on the ring, although    *)
(* one of them also wraps at WAYS.                                           *)
THEOREM TypeCorrect == Spec => []TypeOK
  BY InitTypes, StepTypes, PTL DEF Spec

-----------------------------------------------------------------------------
(* ---- Replacement -------------------------------------------------------- *)

(* When the ways take turns the victim is the way whose turn it is. *)
LEMMA VictimOfTurns ==
  ASSUME NEW p \in Way
  PROVE  Victim(TurnsFrom(p)) = p
  <1>1. {w \in Way : TurnsFrom(p)[w] = 0} = {p}
    BY ParameterAssumption, SMT DEF TurnsFrom, Way
  <1>2. LastOf({p}) = p
    <2>1. p <= p
      BY DEF Way
    <2> QED
      BY <2>1 DEF LastOf
  <1> QED
    BY <1>1, <1>2 DEF Victim

(* Renewing the way whose turn it is gives the turn to the next way. *)
LEMMA RenewOfTurns ==
  ASSUME NEW p \in Way
  PROVE  /\ NextWay(p) \in Way
         /\ Renew(TurnsFrom(p), p) = TurnsFrom(NextWay(p))
  BY ParameterAssumption, SMT DEF TurnsFrom, NextWay, Renew, Decrement, Way

LEMMA ResetTurns == 0 \in Way /\ ResetAges = TurnsFrom(0)
  BY ParameterAssumption, SMT DEF ResetAges, TurnsFrom, Way

(* A clock edge leaves every age as it is or renews the victim of one set. *)
LEMMA AgesOfEdge ==
  ASSUME TypeOK, UpdateRegs
  PROVE  \/ lrus' = lrus
         \/ \E s \in Set : lrus' = [lrus EXCEPT ![s] = Renew(@, Victim(@))]
  BY DEF UpdateRegs, regs, next_lrus, FillWay

(* What any step does to the ages. *)
LEMMA AgesOfStep ==
  ASSUME TypeOK, [Next]_vars
  PROVE  \/ lrus' = lrus
         \/ \E s \in Set : lrus' = [lrus EXCEPT ![s] = Renew(@, Victim(@))]
         \/ lrus' = [s \in Set |-> ResetAges]
  BY AgesOfEdge DEF Next, vars, regs, DriveEntry, DriveDram, DriveSnoop,
     DriveArrays, Clocked, ClockEdge, Resets, ResetEdge

LEMMA StepTurns == TypeOK /\ AgesAreTurns /\ [Next]_vars => AgesAreTurns'
  <1> SUFFICES ASSUME TypeOK, AgesAreTurns, [Next]_vars, NEW t \in Set
               PROVE  \E p \in Way : lrus'[t] = TurnsFrom(p)
    BY DEF AgesAreTurns
  <1>1. CASE lrus' = lrus
    BY <1>1 DEF AgesAreTurns
  <1>2. ASSUME NEW s \in Set, lrus' = [lrus EXCEPT ![s] = Renew(@, Victim(@))]
        PROVE  \E p \in Way : lrus'[t] = TurnsFrom(p)
    <2>1. PICK q \in Way : lrus[s] = TurnsFrom(q)
      BY DEF AgesAreTurns
    <2>2. lrus'[s] = TurnsFrom(NextWay(q)) /\ NextWay(q) \in Way
      BY <1>2, <2>1, VictimOfTurns, RenewOfTurns DEF TypeOK
    <2>3. t # s => lrus'[t] = lrus[t]
      BY <1>2 DEF TypeOK
    <2> QED
      BY <2>2, <2>3 DEF AgesAreTurns
  <1>3. CASE lrus' = [s \in Set |-> ResetAges]
    BY <1>3, ResetTurns
  <1> QED
    BY <1>1, <1>2, <1>3, AgesOfStep

LEMMA InitTurns == Init => AgesAreTurns
  BY ResetTurns DEF Init, AgesAreTurns

(* Each age occurs once in every set, for any number of ways, also one that  *)
(* is not a power of two, where an age that wraps would be lost.             *)
THEOREM TurnsTaken == Spec => []AgesAreTurns
  BY InitTypes, StepTypes, InitTurns, StepTurns, PTL DEF Spec

(* Every step moves one pointer on, brings all back, or leaves all alone. *)
LEMMA StepPointer ==
  TypeOK /\ AgesAreTurns /\ [Next]_vars
    => [Pointer!Next]_([s \in Set |-> Victim(lrus[s])])
  <1> SUFFICES ASSUME TypeOK, AgesAreTurns, [Next]_vars
               PROVE  \/ \E s \in Set : Pointer!Fill(s)
                      \/ Pointer!Reset
                      \/ [s \in Set |-> Victim(lrus'[s])]
                           = [s \in Set |-> Victim(lrus[s])]
    BY DEF Pointer!Next
  <1>1. CASE lrus' = lrus
    BY <1>1
  <1>2. ASSUME NEW s \in Set, lrus' = [lrus EXCEPT ![s] = Renew(@, Victim(@))]
        PROVE  Pointer!Fill(s)
    <2>1. PICK q \in Way : lrus[s] = TurnsFrom(q)
      BY DEF AgesAreTurns
    <2>2. Victim(lrus[s]) = q /\ Victim(lrus'[s]) = NextWay(q)
      BY <1>2, <2>1, VictimOfTurns, RenewOfTurns DEF TypeOK
    <2>3. ASSUME NEW t \in Set, t # s PROVE lrus'[t] = lrus[t]
      BY <1>2, <2>3 DEF TypeOK
    <2> QED
      BY <2>2, <2>3 DEF Pointer!Fill, Pointer!Advance, NextWay
  <1>3. CASE lrus' = [s \in Set |-> ResetAges]
    BY <1>3, ResetTurns, VictimOfTurns DEF Pointer!Reset
  <1> QED
    BY <1>1, <1>2, <1>3, AgesOfStep

LEMMA InitPointer == Init => Pointer!Init
  BY ResetTurns, VictimOfTurns DEF Init, Pointer!Init

(* The age registers implement one rotating pointer per set: fills go round  *)
(* the ways, so what the cache calls LRU replaces in the order of the fills. *)
THEOREM ImplementsPointer == Spec => ReplacesInTurn
  BY InitTypes, StepTypes, InitTurns, StepTurns, InitPointer, StepPointer, PTL
  DEF Spec, ReplacesInTurn, Pointer!Spec

(* An edge with read data renews the victim of the answered slot's set; no   *)
(* other step but a reset assigns an age.                                    *)
LEMMA AgesFollowFills ==
  ASSUME TypeOK, [Next]_vars
  PROVE  \/ Resets
         \/ /\ UpdateRegs /\ ~waiting /\ dram.r_valid /\ FillSet \in Set
            /\ lrus' = [lrus EXCEPT ![FillSet] = Renew(@, FillWay)]
         \/ /\ ~(dram.r_valid /\ FillSet \in Set /\ ~waiting /\ UpdateRegs)
            /\ lrus' = lrus
  <1>1. CASE UpdateRegs /\ ~waiting
    BY <1>1 DEF UpdateRegs, next_lrus
  <1>2. CASE UpdateRegs /\ waiting
    BY <1>2 DEF UpdateRegs, regs
  <1>3. CASE ~UpdateRegs
    BY <1>3 DEF Next, vars, regs, DriveEntry, DriveDram, DriveSnoop,
       DriveArrays, Clocked, ClockEdge
  <1> QED
    BY <1>1, <1>2, <1>3

LEMMA StepTurnPasses ==
  ASSUME TypeOK, AgesAreTurns, [Next]_vars
  PROVE  \/ \A s \in Set :
              Victim(lrus'[s]) =
                IF dram.r_valid /\ FillSet = s /\ ~waiting /\ UpdateRegs
                THEN NextWay(Victim(lrus[s])) ELSE Victim(lrus[s])
         \/ Resets
  <1>1. CASE /\ UpdateRegs /\ ~waiting /\ dram.r_valid /\ FillSet \in Set
             /\ lrus' = [lrus EXCEPT ![FillSet] = Renew(@, FillWay)]
    <2>1. PICK q \in Way : lrus[FillSet] = TurnsFrom(q)
      BY <1>1 DEF AgesAreTurns
    <2>2. FillWay = q /\ Victim(lrus[FillSet]) = q
      BY <1>1, <2>1, VictimOfTurns DEF FillWay
    <2>3. Victim(lrus'[FillSet]) = NextWay(q)
      BY <1>1, <2>1, <2>2, VictimOfTurns, RenewOfTurns DEF TypeOK
    <2>4. ASSUME NEW s \in Set, s # FillSet PROVE lrus'[s] = lrus[s]
      BY <1>1, <2>4 DEF TypeOK
    <2> QED
      BY <1>1, <2>2, <2>3, <2>4
  <1>2. CASE /\ ~(dram.r_valid /\ FillSet \in Set /\ ~waiting /\ UpdateRegs)
             /\ lrus' = lrus
    BY <1>2
  <1> QED
    BY <1>1, <1>2, AgesFollowFills

(* A fill moves the turn of the set it fills, and nothing else moves a turn: *)
(* true for any number of ways, sets and slots, any DRAM and any rows.       *)
THEOREM FillsTakeTurns == Spec => FillsPassTheTurn
  <1>1. TypeOK /\ AgesAreTurns /\ [Next]_vars =>
          [ \/ \A s \in Set :
                 Victim(lrus'[s]) =
                   IF dram.r_valid /\ FillSet = s /\ ~waiting /\ UpdateRegs
                   THEN NextWay(Victim(lrus[s])) ELSE Victim(lrus[s])
            \/ Resets ]_vars
    BY StepTurnPasses
  <1> QED
    BY <1>1, InitTypes, StepTypes, InitTurns, StepTurns, PTL
    DEF Spec, FillsPassTheTurn

(* README.md:24 read for one fill: of two fills in a row of one set the      *)
(* second replaces another way if, and only if, the arrays have the set.     *)
(* The 24 set indices that name no set are all that is wrong with it.        *)
THEOREM RepeatsPastTheSets ==
  Spec => [][UpdateRegs /\ ~waiting /\ dram.r_valid /\ FillSet' = FillSet
               => (FillWay' # FillWay <=> FillSet \in Set)]_vars
  <1>1. TypeOK /\ AgesAreTurns /\ [Next]_vars =>
          [UpdateRegs /\ ~waiting /\ dram.r_valid /\ FillSet' = FillSet
             => (FillWay' # FillWay <=> FillSet \in Set)]_vars
    <2> SUFFICES ASSUME TypeOK, AgesAreTurns, [Next]_vars, UpdateRegs, ~waiting,
                        dram.r_valid, FillSet' = FillSet
                 PROVE  FillWay' # FillWay <=> FillSet \in Set
      OBVIOUS
    <2>1. CASE FillSet \in Set
      <3>1. FillWay = Victim(lrus[FillSet]) /\ FillWay' = Victim(lrus'[FillSet])
        BY <2>1 DEF FillWay
      <3>2. FillWay' = NextWay(FillWay)
        <4>1. PICK q \in Way : lrus[FillSet] = TurnsFrom(q)
          BY <2>1 DEF AgesAreTurns
        <4>2. FillWay = q /\ lrus'[FillSet] = Renew(lrus[FillSet], q)
          BY <2>1, <3>1, <4>1, VictimOfTurns DEF UpdateRegs, next_lrus, TypeOK
        <4> QED
          BY <3>1, <4>1, <4>2, VictimOfTurns, RenewOfTurns
      <3>3. FillWay \in Way
        BY ScanTypes
      <3> QED
        BY <2>1, <3>2, <3>3, ParameterAssumption DEF NextWay, Way
    <2>2. CASE FillSet \notin Set
      BY <2>2 DEF FillWay
    <2> QED
      BY <2>1, <2>2
  <1> QED
    BY <1>1, InitTypes, StepTypes, InitTurns, StepTurns, PTL DEF Spec

-----------------------------------------------------------------------------
(* ---- The request channels ----------------------------------------------- *)

(* No step takes back or changes a request the DRAM has not accepted, except *)
(* a reset.                                                                  *)
LEMMA StepHeld ==
  [Next]_vars =>
    \/ Resets
    \/ /\ ar_packet.valid /\ ~dram.ar_ready => ar_packet' = ar_packet
       /\ aw_packet.valid /\ ~dram.aw_ready => aw_packet' = aw_packet
       /\ w_packet.valid  /\ ~dram.w_ready  => w_packet'  = w_packet
  <1>1. UpdateRegs =>
          /\ ar_packet.valid /\ ~dram.ar_ready => ar_packet' = ar_packet
          /\ aw_packet.valid /\ ~dram.aw_ready => aw_packet' = aw_packet
          /\ w_packet.valid  /\ ~dram.w_ready  => w_packet'  = w_packet
    BY DEF UpdateRegs, regs, next_ar_packet, next_aw_packet, next_w_packet
  <1> QED
    BY <1>1 DEF Next, vars, regs, DriveEntry, DriveDram, DriveSnoop,
       DriveArrays, Clocked, ClockEdge

(* AXI holds on all three request channels whatever the DRAM and the L1s do. *)
THEOREM RequestsHeld == Spec => HeldUntilAccepted
  <1>1. [Next]_vars =>
          [ \/ Resets
            \/ /\ ar_packet.valid /\ ~dram.ar_ready => ar_packet' = ar_packet
               /\ aw_packet.valid /\ ~dram.aw_ready => aw_packet' = aw_packet
               /\ w_packet.valid  /\ ~dram.w_ready  => w_packet'  = w_packet ]_vars
    BY StepHeld
  <1> QED
    BY <1>1, PTL DEF Spec, HeldUntilAccepted

(* The other side of HeldUntilAccepted, sys_defs.svh:76: nothing but a reset *)
(* ever lowers the valid bit of a request, also one the DRAM has accepted,   *)
(* which is what makes a DRAM that is ready take it again.                   *)
THEOREM PresentedUntilReset ==
  Spec => [][ \/ Resets
              \/ /\ ar_packet.valid => ar_packet'.valid
                 /\ aw_packet.valid => aw_packet'.valid
                 /\ w_packet.valid  => w_packet'.valid ]_vars
  <1>1. [Next]_vars =>
          [ \/ Resets
            \/ /\ ar_packet.valid => ar_packet'.valid
               /\ aw_packet.valid => aw_packet'.valid
               /\ w_packet.valid  => w_packet'.valid ]_vars
    <2>1. UpdateRegs => /\ ar_packet.valid => ar_packet'.valid
                        /\ aw_packet.valid => aw_packet'.valid
                        /\ w_packet.valid  => w_packet'.valid
      BY DEF UpdateRegs, regs, next_ar_packet, next_aw_packet, next_w_packet
    <2> QED
      BY <2>1 DEF Next, vars, regs, DriveEntry, DriveDram, DriveSnoop,
         DriveArrays, Clocked, ClockEdge
  <1> QED
    BY <1>1, PTL DEF Spec

-----------------------------------------------------------------------------
(* ---- Stalls ------------------------------------------------------------- *)

(* L2Cache.sv:300, for any rows, answers and requests: no branch lets a      *)
(* stalled core go on, only a reset does.                                    *)
THEOREM StalledUntilReset ==
  Spec => [][\A c \in Core :
               l2_exit_packet[c].stall => l2_exit_packet'[c].stall \/ Resets]_vars
  <1>1. TypeOK /\ [Next]_vars =>
          [\A c \in Core :
             l2_exit_packet[c].stall => l2_exit_packet'[c].stall \/ Resets]_vars
    <2> SUFFICES ASSUME TypeOK, [Next]_vars, NEW c \in Core,
                        l2_exit_packet[c].stall, ~Resets
                 PROVE  l2_exit_packet'[c].stall
      OBVIOUS
    <2>1. next_l2_exit_packet[c].stall
      BY ScanTypes DEF next_l2_exit_packet, TypeOK, L2_EXIT_PACKET
    <2> QED
      BY <2>1 DEF UpdateRegs, Next, vars, regs, DriveEntry, DriveDram,
         DriveSnoop, DriveArrays, Clocked, ClockEdge
  <1> QED
    BY <1>1, InitTypes, StepTypes, PTL DEF Spec

-----------------------------------------------------------------------------
(* ---- Misses, with the tag arrays as they are connected ------------------ *)

(* Every row the cache can see has come through the tag port. *)
TagsAsWired ==
  \A rows \in TagPins : \A w \in Way :
    \E row \in META_PACKET : rows[w] = TagPort(row)

(* For no parameters is the valid bit of a META_PACKET within META_WIDTH. *)
THEOREM ValidBitLost == ~Stored(ValidBit)
  <1>1. NUM_SETS_BITS \in Nat /\ LINE_BITS_CLOG2 \in Nat \ {0}
    BY WidthAssumption DEF IsClog2
  <1> QED
    BY <1>1, ParameterAssumption, SMT
    DEF Stored, ValidBit, META_WIDTH, L2_TAG_WIDTH

LEMMA WiredRowInvalid ==
  ASSUME TagsAsWired, NEW rows \in TagPins, NEW w \in Way
  PROVE  ~rows[w].valid
  <1>1. PICK row \in META_PACKET : rows[w] = TagPort(row)
    BY DEF TagsAsWired
  <1>2. ~TagPort(row).valid
    BY ValidBitLost, Zenon DEF TagPort
  <1> QED
    BY <1>1, <1>2

RowsInvalid == \A w \in Way : ~read_meta[w].valid

(* What the misses rely on: no valid row, hence no recall of a line, the     *)
(* mshr_exists latch settled, and every line in one slot.                    *)
MissInv ==
  /\ RowsInvalid
  /\ \A c \in Core : ~snoop_req[c].valid
  /\ ~waiting
  /\ FindsMshr => mshr_exists
  /\ NoDuplicateMiss

LEMMA InvalidRows ==
  TypeOK /\ RowsInvalid =>
    /\ hit = {} /\ ~hit_any
    /\ ~ModifiedElsewhere /\ ~RecallModified /\ ~RecallDirty
    /\ ~WaitingAssigned /\ ~WritesBack
  <1> SUFFICES ASSUME TypeOK, RowsInvalid
               PROVE  /\ hit = {} /\ ~hit_any
                      /\ ~ModifiedElsewhere /\ ~RecallModified /\ ~RecallDirty
                      /\ ~WaitingAssigned /\ ~WritesBack
    OBVIOUS
  <1>1. hit = {}
    BY DEF hit, RowsInvalid
  <1>2. ~VictimRow.valid
    BY ScanTypes DEF VictimRow, RowsInvalid
  <1> QED
    BY <1>1, <1>2 DEF hit_any, ModifiedElsewhere, RecallModified, RecallDirty,
       WaitingAssigned, WritesBack, ModifiedBack, DirtyBack

LEMMA InitMiss == Init => MissInv
  <1> SUFFICES ASSUME Init PROVE MissInv
    OBVIOUS
  <1>1. RowsInvalid /\ \A c \in Core : ~snoop_req[c].valid
    BY DEF Init, RowsInvalid, ZeroMeta, ZeroSnoopReq
  <1>2. ~waiting
    BY Zenon DEF Init
  <1>3. ~FindsMshr
    BY DEF Init, FindsMshr, Miss, Serving, ZeroEntry
  <1>4. NoDuplicateMiss
    BY DEF Init, NoDuplicateMiss, ZeroMshr
  <1> QED
    BY <1>1, <1>2, <1>3, <1>4 DEF MissInv

(* A slot changes in three ways only: it is freed, it takes a miss for a     *)
(* line no slot holds, or it is reset.                                       *)
LEMMA MissEdge ==
  ASSUME TypeOK, MissInv, UpdateRegs, NEW i \in MshrIdx
  PROVE  \/ mshrs'[i] = mshrs[i]
         \/ mshrs'[i] = [mshrs[i] EXCEPT !.valid = FALSE]
         \/ /\ i = free_idx /\ ~mshrs[i].valid
            /\ mshrs'[i].addr = Target
            /\ \A j \in MshrIdx : mshrs[j].addr # Target
  <1>1. mshrs' = next_mshrs
    BY DEF UpdateRegs, MissInv
  <1>2. Evicted(i) = Freed(i)
    BY InvalidRows DEF MissInv, Evicted
  <1>3. CASE Allocates /\ i = free_idx
    <2>1. mshrs'[i].addr = Target
      BY <1>1, <1>3 DEF next_mshrs, MissEntry
    <2>2. \A j \in MshrIdx : mshrs[j].addr # Target
      BY <1>3 DEF Allocates, FindsMshr, MissInv
    <2> QED
      BY <1>3, <2>1, <2>2 DEF Allocates
  <1>4. CASE ~(Allocates /\ i = free_idx)
    BY <1>1, <1>2, <1>4 DEF next_mshrs, Freed
  <1> QED
    BY <1>3, <1>4

LEMMA StepMiss ==
  ASSUME TagsAsWired
  PROVE  TypeOK /\ MissInv /\ [Next]_vars => MissInv'
  <1> SUFFICES ASSUME TypeOK, MissInv, [Next]_vars PROVE MissInv'
    OBVIOUS
  <1>1. TypeOK'
    BY StepTypes
  <1>2. RowsInvalid'
    <2>1. \A rows \in TagPins : \A w \in Way : ~rows[w].valid
      BY WiredRowInvalid
    <2> QED
      BY <2>1 DEF MissInv, RowsInvalid, Next, vars, pins, DriveEntry, DriveDram,
         DriveSnoop, DriveArrays, Clocked, ClockEdge, Resets, ResetEdge
  <1>3. (\A c \in Core : ~snoop_req[c].valid)'
    <2>1. UpdateRegs => snoop_req' = snoop_req
      <3>1. next_snoop_req = snoop_req
        BY InvalidRows DEF MissInv, TypeOK, next_snoop_req
      <3> QED
        BY <3>1 DEF UpdateRegs, regs
    <2> QED
      BY <2>1 DEF MissInv, Next, vars, regs, DriveEntry, DriveDram, DriveSnoop,
         DriveArrays, Clocked, ClockEdge, Resets, ResetEdge, ZeroSnoopReq
  <1>4. (~waiting)'
    <2>1. ~WaitingAssigned'
      BY <1>1, <1>2, InvalidRows, PTL
    <2> QED
      BY <2>1 DEF MissInv, Next, vars, DriveEntry, DriveDram, DriveSnoop,
         DriveArrays, Clocked, ClockEdge, Resets, ResetEdge, Settle
  <1>5. (FindsMshr => mshr_exists)'
    <2>1. CASE UNCHANGED vars
      BY <2>1 DEF vars, pins, regs, MissInv, FindsMshr, Miss, Serving, hit_any,
         hit, Target, CoreId
    <2>2. CASE Next
      BY <2>2 DEF Next, DriveEntry, DriveDram, DriveSnoop, DriveArrays,
         Clocked, ClockEdge, Resets, ResetEdge, Settle
    <2> QED
      BY <2>1, <2>2
  <1>6. NoDuplicateMiss'
    <2>1. CASE UpdateRegs
      <3>1. ASSUME NEW i \in MshrIdx
            PROVE  \/ mshrs'[i].addr = mshrs[i].addr
                   \/ /\ i = free_idx /\ mshrs'[i].addr = Target
                      /\ \A j \in MshrIdx : mshrs[j].addr # Target
        <4>1. mshrs[i] \in MSHR
          BY DEF TypeOK
        <4>2. [mshrs[i] EXCEPT !.valid = FALSE].addr = mshrs[i].addr
          BY <4>1 DEF MSHR
        <4> QED
          BY <2>1, <4>2, MissEdge
      <3> QED
        BY <3>1 DEF MissInv, NoDuplicateMiss
    <2>2. CASE Resets
      BY <2>2 DEF Resets, ResetEdge, NoDuplicateMiss, ZeroMshr
    <2>3. CASE UNCHANGED mshrs
      BY <2>3 DEF MissInv, NoDuplicateMiss
    <2> QED
      BY <2>1, <2>2, <2>3 DEF Next, vars, regs, DriveEntry, DriveDram,
         DriveSnoop, DriveArrays, Clocked, ClockEdge
  <1> QED
    BY <1>2, <1>3, <1>4, <1>5, <1>6 DEF MissInv

(* As the tag arrays are connected no request ever hits, no core is ever     *)
(* snooped and the registers never freeze, for every choice of parameters.   *)
THEOREM NothingHits ==
  ASSUME TagsAsWired
  PROVE  Spec => []NeverHits
  <1>1. TypeOK /\ MissInv => NeverHits
    BY InvalidRows DEF MissInv, NeverHits
  <1> QED
    BY <1>1, InitTypes, StepTypes, InitMiss, StepMiss, PTL DEF Spec

(* No two MSHRs ever hold the same line, for any number of slots and cores   *)
(* and any timing of requests, answers and resets.                           *)
THEOREM MissesDistinct ==
  ASSUME TagsAsWired
  PROVE  Spec => []NoDuplicateMiss
  <1>1. MissInv => NoDuplicateMiss
    BY DEF MissInv
  <1> QED
    BY <1>1, InitTypes, StepTypes, InitMiss, StepMiss, PTL DEF Spec

(* A miss in flight is freed or left alone, never taken over. *)
THEOREM MissesKept ==
  ASSUME TagsAsWired
  PROVE  Spec => NoMissOverwritten
  <1>1. TypeOK /\ MissInv /\ [Next]_vars =>
          [\A i \in MshrIdx :
             mshrs[i].valid /\ mshrs'[i].valid => mshrs'[i] = mshrs[i]]_vars
    <2> SUFFICES ASSUME TypeOK, MissInv, [Next]_vars, NEW i \in MshrIdx,
                        mshrs[i].valid, mshrs'[i].valid
                 PROVE  mshrs'[i] = mshrs[i]
      OBVIOUS
    <2>1. CASE UpdateRegs
      BY <2>1, MissEdge DEF TypeOK, MSHR
    <2>2. CASE Resets
      BY <2>2 DEF Resets, ResetEdge, ZeroMshr
    <2>3. CASE UNCHANGED mshrs
      BY <2>3
    <2> QED
      BY <2>1, <2>2, <2>3 DEF Next, vars, regs, DriveEntry, DriveDram,
         DriveSnoop, DriveArrays, Clocked, ClockEdge
  <1> QED
    BY <1>1, InitTypes, StepTypes, InitMiss, StepMiss, PTL
    DEF Spec, NoMissOverwritten

(* The slot issued at an edge with an answer is not the one answered.        *)
LEMMA NextIsAnother ==
  ASSUME TypeOK, Answer
  PROVE  next_wait_idx # wait_idx
  <1>1. wait_idx \in 0..(NUM_MSHRS - 1) /\ NUM_MSHRS \in Nat /\ WAYS \in Nat
        /\ WAYS >= 2 /\ WAYS <= NUM_MSHRS
    BY ParameterAssumption DEF TypeOK, MshrIdx
  <1>2. (wait_idx + 1) % NUM_MSHRS # wait_idx
    <2>1. CASE wait_idx + 1 < NUM_MSHRS
      BY <1>1, <2>1
    <2>2. CASE wait_idx + 1 = NUM_MSHRS
      BY <1>1, <2>2
    <2> QED
      BY <1>1, <2>1, <2>2
  <1>3. (wait_idx + 1) % WAYS # wait_idx
    <2>1. CASE wait_idx + 1 < WAYS
      BY <1>1, <2>1
    <2>2. CASE wait_idx + 1 = WAYS
      BY <1>1, <2>2
    <2>3. CASE wait_idx + 1 > WAYS
      BY <1>1, <2>3
    <2> QED
      BY <1>1, <2>1, <2>2, <2>3
  <1> QED
    BY <1>2, <1>3 DEF next_wait_idx, Answer

(* A valid slot that an edge may issue is the oldest after it, as it was.    *)
LEMMA NextStays ==
  ASSUME TypeOK, MissInv, UpdateRegs, NextSlot.valid
  PROVE  mshrs'[wait_idx'] = NextSlot
  <1>1. mshrs' = next_mshrs /\ wait_idx' = next_wait_idx
    BY DEF UpdateRegs, MissInv
  <1>2. next_wait_idx \in MshrIdx
    BY NextTypes
  <1>3. Freed(next_wait_idx) = NextSlot
    BY NextIsAnother DEF Freed, NextSlot
  <1>4. Evicted(next_wait_idx) = Freed(next_wait_idx)
    BY InvalidRows DEF MissInv, Evicted
  <1>5. ~(Allocates /\ next_wait_idx = free_idx)
    BY DEF Allocates, NextSlot
  <1> QED
    BY <1>1, <1>2, <1>3, <1>4, <1>5 DEF next_mshrs

(* Nothing but the oldest miss is newly put on a channel, for every number   *)
(* of slots and ways, equal or not, and for any DRAM, also one that answers  *)
(* what nobody asked.                                                        *)
THEOREM OldestIsIssued ==
  ASSUME TagsAsWired
  PROVE  Spec => IssuesOldest
  <1>1. TypeOK /\ MissInv /\ [Next]_vars => [
           \/ Resets
           \/ LET oldest == mshrs'[wait_idx'] IN
              /\ ar_packet' # ar_packet =>
                   /\ oldest.valid /\ ~oldest.write_req
                   /\ ar_packet'.addr = oldest.addr
              /\ aw_packet' # aw_packet =>
                   /\ oldest.valid /\ oldest.write_req
                   /\ aw_packet'.addr = oldest.addr
              /\ w_packet' # w_packet =>
                   /\ oldest.valid /\ oldest.write_req
                   /\ w_packet'.data = oldest.data ]_vars
    <2> SUFFICES ASSUME TypeOK, MissInv, [Next]_vars
                 PROVE  \/ Resets
                        \/ LET oldest == mshrs'[wait_idx'] IN
                           /\ ar_packet' # ar_packet =>
                                /\ oldest.valid /\ ~oldest.write_req
                                /\ ar_packet'.addr = oldest.addr
                           /\ aw_packet' # aw_packet =>
                                /\ oldest.valid /\ oldest.write_req
                                /\ aw_packet'.addr = oldest.addr
                           /\ w_packet' # w_packet =>
                                /\ oldest.valid /\ oldest.write_req
                                /\ w_packet'.data = oldest.data
      OBVIOUS
    <2>1. CASE UpdateRegs
      <3>1. /\ ar_packet' = next_ar_packet /\ aw_packet' = next_aw_packet
            /\ w_packet' = next_w_packet
        BY <2>1 DEF UpdateRegs, MissInv
      <3> QED
        BY <2>1, <3>1, NextStays
        DEF next_ar_packet, next_aw_packet, next_w_packet
    <2>2. CASE UNCHANGED regs
      BY <2>2 DEF regs
    <2> QED
      BY <2>1, <2>2 DEF Next, vars, regs, DriveEntry, DriveDram, DriveSnoop,
         DriveArrays, Clocked, ClockEdge
  <1> QED
    BY <1>1, InitTypes, StepTypes, InitMiss, StepMiss, PTL
    DEF Spec, IssuesOldest

-----------------------------------------------------------------------------
(* ---- What the channels carry -------------------------------------------- *)

Kind(slot) == IF slot.write_req THEN "WRITE" ELSE "READ"

(* Where requests and lines come from: bus, slots, channels. *)
OriginInv ==
  /\ l2_entry_packet \in EntryPins \cup {ZeroEntry}
  /\ \A i \in MshrIdx :
       /\ mshrs[i].data = ZeroLine
       /\ mshrs[i].valid => Requested(Kind(mshrs[i]), mshrs[i].addr)
  /\ ChannelsAsAsked
  /\ OnlyZerosWritten

(* A miss is of the kind its request was, and takes no line. *)
LEMMA OriginOfSlot ==
  ASSUME TypeOK, MissInv, OriginInv, UpdateRegs, NEW i \in MshrIdx
  PROVE  /\ mshrs'[i].data = ZeroLine
         /\ mshrs'[i].valid => Requested(Kind(mshrs'[i]), mshrs'[i].addr)
  <1>1. mshrs' = next_mshrs /\ Evicted(i) = Freed(i)
    BY InvalidRows DEF UpdateRegs, MissInv, Evicted
  <1>2. mshrs[i] \in MSHR
    BY DEF TypeOK
  <1>3. /\ Freed(i).data = ZeroLine
        /\ Freed(i).valid =>
             mshrs[i].valid /\ Freed(i) = mshrs[i]
    BY <1>2 DEF OriginInv, Freed, MSHR
  <1>4. CASE Allocates /\ i = free_idx
    <2>1. mshrs'[i] = MissEntry(Freed(i).data)
      BY <1>1, <1>4 DEF next_mshrs
    <2>2. /\ l2_entry_packet \in EntryPins
          /\ l2_entry_packet.req_type \in {"READ", "WRITE"}
      BY <1>4 DEF OriginInv, Allocates, Miss, Serving, ZeroEntry
    <2>3. Kind(MissEntry(Freed(i).data)) = l2_entry_packet.req_type
      BY <2>2 DEF Kind, MissEntry
    <2> QED
      BY <1>3, <2>1, <2>2, <2>3 DEF MissEntry, Requested, Target
  <1>5. CASE ~(Allocates /\ i = free_idx)
    BY <1>1, <1>3, <1>5 DEF next_mshrs, OriginInv
  <1> QED
    BY <1>4, <1>5

LEMMA InitOrigin == Init => OriginInv
  BY DEF Init, OriginInv, ChannelsAsAsked, OnlyZerosWritten, ZeroMshr,
     ZeroAddress, ZeroWriteData

LEMMA StepOrigin ==
  TypeOK /\ MissInv /\ OriginInv /\ [Next]_vars => OriginInv'
  <1> SUFFICES ASSUME TypeOK, MissInv, OriginInv, [Next]_vars
               PROVE  OriginInv'
    OBVIOUS
  <1> DEFINE SlotsFrom == \A i \in MshrIdx :
                 /\ mshrs[i].data = ZeroLine
                 /\ mshrs[i].valid => Requested(Kind(mshrs[i]), mshrs[i].addr)
  <1>1. (l2_entry_packet \in EntryPins \cup {ZeroEntry})'
    BY DEF OriginInv, Next, vars, pins, DriveEntry, DriveDram, DriveSnoop,
       DriveArrays, Clocked, ClockEdge, Resets, ResetEdge
  <1>2. CASE UpdateRegs
    <2>1. SlotsFrom'
      BY <1>2, OriginOfSlot DEF Kind, Requested
    <2>2. NextSlot \in MSHR /\ NextSlot.data = ZeroLine
          /\ (NextSlot.valid => Requested(Kind(NextSlot), NextSlot.addr))
      BY NextTypes DEF NextSlot, OriginInv, TypeOK
    <2>3. /\ ar_packet' = next_ar_packet /\ aw_packet' = next_aw_packet
          /\ w_packet' = next_w_packet
      BY <1>2 DEF UpdateRegs, MissInv
    <2>4. ChannelsAsAsked' /\ OnlyZerosWritten'
      BY <2>2, <2>3 DEF OriginInv, ChannelsAsAsked, OnlyZerosWritten, Requested,
         Kind, next_ar_packet, next_aw_packet, next_w_packet
    <2> QED
      BY <1>1, <2>1, <2>4 DEF OriginInv
  <1>3. CASE Resets
    BY <1>1, <1>3 DEF Resets, ResetEdge, OriginInv, ChannelsAsAsked,
       OnlyZerosWritten, ZeroMshr, ZeroAddress, ZeroWriteData
  <1>4. CASE UNCHANGED <<mshrs, ar_packet, aw_packet, w_packet>>
    BY <1>1, <1>4 DEF OriginInv, ChannelsAsAsked, OnlyZerosWritten
  <1> QED
    BY <1>2, <1>3, <1>4 DEF Next, vars, regs, DriveEntry, DriveDram, DriveSnoop,
       DriveArrays, Clocked, ClockEdge

(* As wired, whatever is presented to the DRAM is a line some L1 has missed  *)
(* on, a read for a READ and a write for a WRITE: no write-back ever goes    *)
(* out, and no request is made up by wrap-around, reuse or reset.            *)
THEOREM ChannelsCarryMisses ==
  ASSUME TagsAsWired
  PROVE  Spec => []ChannelsAsAsked
  <1>1. OriginInv => ChannelsAsAsked
    BY DEF OriginInv
  <1> QED
    BY <1>1, InitTypes, StepTypes, InitMiss, StepMiss, InitOrigin, StepOrigin, PTL
    DEF Spec

(* What a WRITE miss sends to the DRAM is the zero line, for every choice of *)
(* parameters: the line a core has written is lost.                          *)
THEOREM WritesSendZeros ==
  ASSUME TagsAsWired
  PROVE  Spec => []OnlyZerosWritten
  <1>1. OriginInv => OnlyZerosWritten
    BY DEF OriginInv
  <1> QED
    BY <1>1, InitTypes, StepTypes, InitMiss, StepMiss, InitOrigin, StepOrigin, PTL
    DEF Spec
=============================================================================
