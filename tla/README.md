# Verification of the multi-core L2 cache

TLA+ modules for the cache of this repository: `verilog/L2Cache.sv` and its arrays
`verilog/memDP.sv`, with the types and parameters of `include/sys_defs.svh`, and
the driver of `verification/`. The modules are checked with TLC
on small instances; the theorems are proved with TLAPS for all values of the
constants.

## Results in short

* With the tag arrays as they are connected, for every choice of the
  parameters, **no request ever hits**: `META_WIDTH` is narrower than
  `META_PACKET` and the valid bit is among the bits that are cut off
  (`ValidBitLost`, `NothingHits`). Everything that happens is a miss.
* With the arrays in the model the same holds without a premise, **a fill leaves no
  line behind**, no core is ever given anything but a zero line, and the stray
  writes the array ports make stay in sets that a request has named.
* **Under the UVM driver the cache takes one miss in its life**: the driver's second
  edge shows the cache the slot it has just allocated, and the latch that this sets
  is never cleared, resets included.
* **Misses are handled soundly** as far as the ring goes: no line is in two MSHRs,
  no miss is taken over by another one, and with as many MSHRs as ways and a DRAM
  that answers in order the ring implements a FIFO of distinct misses. A miss
  that gets a slot is served. What is newly put on a channel is
  the oldest miss (`OldestIsIssued`).
* **Only zero lines are ever written** to the DRAM, whatever the L1s write
  (`WritesSendZeros`): there are no write-backs, and a WRITE miss sends its slot's reset
  value while the line in its packet is dropped.
* **A DRAM that waits for valid never gets a request**, for any constants (`WaitingIsSilent`).
* **Replacement** is a rotating pointer per set for any number of ways, moved by the
  fills of its own set alone. With no hits a rotation is what true LRU amounts to. The set
  indices that name no set are exactly those where it fails (`RepeatsPastTheSets`).
* A request channel **holds its payload** until the DRAM accepts it, and keeps
  presenting it afterwards, until a reset (`PresentedUntilReset`).
* Seven claims of comments and docs do **not** hold of the code; see *Findings*.

## Inventory

| Part | State | Operations | Hard about it | What makes it correct |
|---|---|---|---|---|
| L2 cache control, `L2Cache.sv:131-495` | nine registers, the latches `waiting` and `mshr_exists` | one `always_comb`, one `always_ff` | `always_comb` reruns after every change, also right after an edge with new registers and an old request; two latches; last assignment wins | types and index ranges; a stall has a cause and ends |
| MSHR ring, `L2Cache.sv:160-167, 288-318, 365-395` | `mshrs`, `free_idx`, `wait_idx` | allocate, look up, free, wrap, issue | an answer and a miss on one edge; full and empty look alike; two moduli | no duplicates, none overwritten, FIFO, every miss served |
| Replacement, `L2Cache.sv:168-181, 468-472` | `lrus` | victim scan, ageing, reset | 3-bit ages wrap; set indices past `NUM_SETS` | one victim per set, in turn |
| AXI channels, `L2Cache.sv:430-453` | `ar_packet`, `aw_packet`, `w_packet` | issue | issue looks one slot ahead; valid after ready; valid never lowered | payload held; valid means a request |
| Coherence, `L2Cache.sv:183-222, 256-280, 333-363` | `snoop_req`, `waiting` | recall, downgrade, invalidate | registers freeze while the request to an L1 waits in them; a hit and a recall in one evaluation | dirty lines are not lost, the wait ends |
| Parameters and types, `sys_defs.svh` | none | none | widths that disagree | a row survives the tag port |
| Arrays, `memDP.sv`, `L2Cache.sv:43-125` | `memData`; latched addresses | read, write, reset | sampled on the edge on which their inputs change; addresses assigned on some paths only; write data assigned nowhere | a filled line is kept; no write strays |
| Initial testbench, `tb_initial.sv` | pins | five reset edges, ten idle ones | none | the only testbench the Makefile builds |
| UVM driver and sequences, `driver.sv`, `sequence.sv` | packet on the bus | get an item, drive, hold | holds a packet for two edges and looks at no output | each item is seen once |
| UVM monitor and scoreboard | `exp_mem` | observe, compare | wait for undriven signals; `note_write` never called | responses are compared |
| `mshr.sv`, scripts, simulator output | none | none | none | not modelled |

How they interact: the L1s put one request for one core on `l2_entry_packet` and
see `l2_exit_packet` and `snoop_req`; the DRAM sees the three request channels
and drives the ready pins and the two answers; the cache reads the arrays
combinationally. There is no handshake towards the L1s (`l2_exit_valid` is
undriven), none for answers (`r_ready`, `b_ready` are undriven), and an answer
carries no address. The UVM driver takes the place of the L1s and ignores stalls.

## Modules

| Module | What it is |
|---|---|
| `SysDefs` | parameters, packet types, what the tag port keeps of a row |
| `Lru` | ages of one set: `Victim`, `Renew`, `ResetAges` |
| `L2Cache` | the cache with arbitrary neighbours, and its properties |
| `OrderlyDram` | `L2Cache` with a DRAM that answers the oldest miss; ring properties, fairness |
| `AxiDram` | `L2Cache` with a DRAM that takes a request at every handshake of valid and ready |
| `MemDP` | one array: `Read`, `Write`, `Cleared` |
| `CacheArrays` | `L2Cache` with two `MemDP`s per way on its array pins, the enables and the latched addresses |
| `UvmDriver` | `L2Cache` with the driver's `run_phase` on its entry pins, and the sequences |
| `VictimPointer` | abstract: a pointer per set that moves round |
| `MissQueue` | abstract: a bounded FIFO of distinct misses |
| `MCL2Cache`, `MCOrderlyDram`, `MCAxiDram`, `MCCacheArrays`, `MCUvmDriver` | pin sets and item sequences for TLC |
| `L2CacheProofs`, `OrderlyDramProofs`, `CacheArraysProofs`, `UvmDriverProofs` | theorems |

`OrderlyDram`, over it `AxiDram` and `CacheArrays`, and `UvmDriver` extend `L2Cache`
and restrict what its pins do; the abstract modules are instantiated with
refinement mappings (`Fifo` in `OrderlyDram`, `Pointer` in `L2Cache`), and
every step of `CacheArrays` and `UvmDriver` is a step of `L2Cache`.

### How `L2Cache` corresponds to the source

* **Pins** (`l2_entry_packet`, `dram`, `snoop_resp`, `read_meta`, `read_data`) are
  variables that a `Drive...` action sets to a member of the constant set of the
  same kind. `dram` gathers the three ready pins, `r_valid` and `b_valid`.
* **Registers** have the source's names. `next_x` is the value `always_comb` has
  settled on for `x`; where the code assigns one variable several times, the
  definition is built from the assignments in that order (`Freed`, `Evicted`,
  `next_mshrs`).
* **Latches.** `waiting` and `mshr_exists` are assigned on some paths only.
  `Settle` gives them their value after every change of anything the block reads:
  `mshr_exists` is only ever set, `waiting` takes the last assignment. They start
  as X, which an `if` takes for false.
* **Clock.** `ClockEdge(e, d)` is `always_ff` (it freezes while `waiting`),
  followed by one settling. `always_ff` assigns with `=`, so the block can rerun
  before or after the neighbours' own registers change: `e` and `d` are the old
  pins or new ones. `ResetEdge` is the reset branch.
* **X.** A read past the end of a packed array is X, which compares as false:
  `Answered(-1, _)`, `AllBack` with fewer than four cores and `FillWay` past
  `NUM_SETS` follow that. A write there is dropped.
* **Left out**: `r_data`, `next_write_meta` and `next_write_data`, where `r_data` and an
  EVICT's line go (read by no register and no array: the arrays are given `write_meta`
  and `write_data`, which nothing assigns), protection and strobe constants, the
  undriven outputs. A 512-bit line is a member of `Line`.

A clock edge is one action because the code has one `always_ff`; the parts of the
edge are the operators. `OrderlyNext` is `Next` with the DRAM's promise `Orderly`
on every next state.

### How `CacheArrays` corresponds to the source

* The enables (`read_en`, `write_en`, ...) default to 0 in `always_comb` and are
  operators of the state. The addresses have no default and are latches, the
  variables `read_addr` and `write_addr`; data and meta addresses are always
  assigned together and share one. X on an address bus is `NoAddr`.
* A read is a step, `PresentArrays`, since the read enables depend on the hit and
  the hit on what is read. Every other step waits until what is presented is
  `Settled`.
* `write_data` and `write_meta` are assigned nowhere, so that what is written is
  `XLine` or `XRow`. An `XRow` is presented as any row of `AnyRow` cut by
  `TagPort`: the pins have at most the bits of the port.
* `always_ff` changes the registers with `=`, the arrays sample with `<=` on the same
  edge. Each array therefore samples its write port before or after `always_comb`
  has rerun: the ways `late` of an edge are any subset of the ways.

### How `UvmDriver` corresponds to the source

* `phase` is where `run_phase` waits: for an item, at its first clocking event, between that
  event and the clocking drive, at the second event. A clocking block drives after
  the design has settled on an edge, which is why `DrivePacket` is a step of its own
  with no edge before it.
* Before its first item the driver drives nothing and the packet is X, which takes
  no branch of the cache; the zero packet, with which nothing changes either, stands
  for it. After the last item the packet stays on the bus.
* An item is a `CACHE_PACKET`; `Packet` is what the driver makes of it, with the `wdata` of a
  WRITE as `cache_line` and zero otherwise. `MakeWdata` stands for the lines `make_wdata`
  builds, whose words differ, by one line that is not zero.
* `BaseSeq` is every choice the weights and random addresses may make from a set of
  items; the two directed sequences are the source's own, with its tags. `sampled`
  is a history variable, counted up to `MaxSampled`.

### Three DRAMs

No DRAM is in the repository. `OrderlyDram` is the one the code relies on: it
answers the oldest miss, once. `WaitingSpec` is one that waits for valid before
it gets ready. `AxiDram` does what the monitor counts: it takes what is on a
channel whenever valid and ready meet at an edge, has room for one read and one
write, and answers what it took, once.

## Runs

Constants are small: `WAYS` and `NUM_MSHRS` are 2 or 3 (8 in the source),
`NUM_SETS` is 1 to 3 (1000), `NUM_CORES` is 2 (4), `Line` has two values.
No register counts without end (`sampled` stops at 2), so no run has a bound other than these constants
and its pin sets.

| Run | Question | Why the bounds suffice |
|---|---|---|
| `ring` | Are slots taken twice or over, are channels stable, and do they carry what was asked for in the order of the ring, whatever the DRAM does? | three lines for two slots: slots are reused, the ring fills, answers come unasked, both at once, and on an edge that also issues; write address and write data are accepted apart |
| `fills` | Do ages stay consistent, and does each fill move its own set's? | three ways in 2-bit ages (0 - 1 wraps to 3), two sets, line zero among the requests |
| `arrays` | What do the arrays add? | two misses in one set, whose fills take both ways, and an eviction that writes a row on every edge; set 2 is asked for by nobody; an unknown row reads as a modified one; reads only, since no branch on the array's side depends on `b_valid` |
| `order` | Is the ring a FIFO, does the oldest miss advance, and is every miss served? | two slots and three lines: full, wrapped, a slot used again after its first miss; both kinds of answer. Larger rings are the theorems' |
| `driver` | What does the two-edge hold do, and what do the sequences' writes send? | any two reads or writes of two lines by two cores, one of them address zero; both directed sequences in full; any DRAM, resets, either line on the data arrays; a WRITE carries a line that is not zero |
| `fill_lost` | Does a fill leave a line? | one miss is enough |
| `dram_repeat` | Are answers for what was asked? | one read is enough; every combination of ready pins and answers |
| `stall_cause`, `stall_ends`, `write_miss`, `set_range`, `waits_valid` | the other findings | see *Findings* |

`HeldUntilAccepted` is a statement of AXI; the ring properties state what the
comments of the code rely on; those of `arrays` and `driver` say what becomes of the
enables, latches and hold the code has. `ring` and `fills` take every DRAM, also one
that answers what nobody asked; the runs of `MCOrderlyDram` take only orderly
ones, and `fill_lost` too. Each property has a mutant in `PROJECT.json`: an edit of the model as a
plausible bug would make it, under which TLC finds the property violated.

### Fairness

`FairSpec` adds: the clock runs (weak fairness of `Clocked`); the DRAM gets ready
again and again and an edge comes while it is; the DRAM answers what it has been
asked and an edge comes while it does. The clock is free running in both
testbenches. That the DRAM is ready without waiting for `valid` is assumed because
the cache needs it: `waits_valid` shows what happens with a DRAM that waits.
The DRAM's fairness is strong, as new requests and resets can disable an answer.
Nothing is assumed of the L1s. Nothing is assumed of resets either; one that
comes between takes the miss back, which ends the wait too.

`FillingSpec` (run `fill_lost`) adds that the clock runs and that what is read is
presented; its counterexample ends with the set filled and the clock running.

## Findings

| Run | What the code does |
|---|---|
| `stall_cause` | `mshr_exists` compares addresses without looking at `valid`, sees the request's own slot when `always_comb` reruns, and keeps its value: a core stalls with no cause |
| `stall_ends` | `stall` is never cleared except by reset |
| `write_miss` | a WRITE miss is issued as a write of the slot's data instead of a fetch |
| `dram_repeat` | valid bits are never lowered, so a DRAM that is ready takes a request again and answers it again; the second answer pops whatever slot is oldest |
| `fill_lost` | a fill enables the data write but not the row's, and neither array's write data is assigned anywhere: a served miss leaves no line |
| `waits_valid` | valid waits for ready |
| `set_range` | 1000 sets under a ten-bit index: 24 indices have no ages and replace way 0 every time |

One more has no run: `wait_idx` counts modulo `WAYS` on a write response and modulo
`NUM_MSHRS` otherwise (`L2Cache.sv:162`), so that the ring is one only while the two are
equal or write responses do not come, though `src/README.md:18` lets them be chosen freely.
The theorems on the ring have that as their premise `WrapsAgree`; the runs have equal moduli.

`ValidBitLost` belongs with these: the doc claims hits, but no line of it speaks of
the stored width, so it is stated as a theorem of the code as it is.

## Theorems

Assumptions, all named: `ParameterAssumption` (at least two ways, at most eight
MSHRs since the indices are three bits, no more ways than MSHRs since `wait_idx` counts
modulo both), `WidthAssumption` (the logarithm constants are the ones `$clog2`
gives), `PinAssumption` (pins carry values of their types), `ArrayAssumption` (an unknown line is a line,
and the array pins of `L2Cache` are those the arrays can present), `DriverAssumption`
(sequences are made of packets). Two more are premises
of the theorems that need them: `TagsAsWired` (rows reach the cache through
`TagPort`; `PortsWired` discharges it for `CacheArrays`) and `WrapsAgree` (`NUM_MSHRS = WAYS`, as in `sys_defs.svh`, or no L1
sends a WRITE).

| Theorem | States | Invariant behind it |
|---|---|---|
| `TypeCorrect` | `TypeOK` | itself |
| `TurnsTaken`, `ImplementsPointer` | `AgesAreTurns`, `ReplacesInTurn` | `TypeOK /\ AgesAreTurns`: renewing the victim of `TurnsFrom(p)` gives `TurnsFrom` of the next way |
| `FillsTakeTurns`, `RepeatsPastTheSets` | `FillsPassTheTurn`; the way of two fills in a row of one set index | the same, with `VictimOfTurns` and `RenewOfTurns` |
| `RequestsHeld`, `PresentedUntilReset`, `StalledUntilReset` | `HeldUntilAccepted`; valid and stall bits fall on a reset only | none: by the issue conditions and defaults; `TypeOK` for the last |
| `ValidBitLost`, `NothingHits` | `NeverHits` | `MissInv` |
| `MissesDistinct`, `MissesKept` | `NoDuplicateMiss`, `NoMissOverwritten` | `MissInv` |
| `OldestIsIssued` | `IssuesOldest` | `MissInv`: a valid slot at the next `wait_idx` is neither freed nor taken on the edge that issues it |
| `ChannelsCarryMisses`, `WritesSendZeros` | `ChannelsAsAsked`, `OnlyZerosWritten` | `OriginInv`: slots hold requests of their kind and zero data |
| `RingStaysExact` | `RingExact` | `RingInv` |
| `ImplementsQueue` | `ServesInOrder` | `RingInv` |
| `ServiceAdvances` | `OldestAdvances` | `RingInv` |
| `WaitingIsSilent`, `WaitingKeepsMisses` | no channel valid, no answer; slots stay taken | `Silent` |
| `NothingHitsInArrays` | `NeverHits` | `CacheInv`: `CellsInv` (cells hold zeros or X, so that what is presented is among the pins), `TypeOK`, `MissInv` |
| `PromisesKeptInArrays` | the five on misses and channels, without premise | `ImplementsAnyArrays` and `PortsWired` |
| `ServesInOrderInArrays` | `RingExact`, `ServesInOrder`, `OldestAdvances` | the same: an orderly step of the whole is one of `OrderlyDram` |
| `RowsOnlyInWayZero` | `RowsInWayZero` | `CacheInv`: no hit, so the scan ends with 0, before the edge and after it |
| `NoLineGoesOut` | `ExitLinesZero` | `CacheInv` and `NoLineRead`: no hit, so no data read |
| `WritesStayInAskedSets` | `UnaskedSetsClean` | `NamedInv`: bus, slots and write latches name asked sets only |
| `DriverImplementsCache`, `DriverWritesZeros` | `Spec`; `OnlyZerosWritten` | `ItemsInv`: the driver has the item it drives |
| `TakesOneMiss` | `OneMissEver` | `FirstSlotInv`: while the latch is low the ring is unused |
| `SecondEdgeStalls` | `HoldStalls` | `SampledInv`: after one edge the request is stalled or about to be |

`NoDuplicateMiss` is not inductive: a slot is taken when the latch is low, so the
invariant `MissInv` must say that the latch is up to date (`FindsMshr => mshr_exists`,
kept by `Settle`), and that no write-back can take a slot, which needs rows to be
invalid, no snoop out and `waiting` low. `RingExact` needs in addition that an
answer comes only for a valid oldest slot (`Orderly`), and, where the two moduli differ,
that a slot with `write_req` was filled by a WRITE (`OriginInv`), so that without WRITEs no
write response comes.

`OriginInv` says that every valid slot holds what some request of `EntryPins` put there:
its address is asked for by a WRITE when `write_req` is set and by a READ when it is not.
The data of every slot is zero. It carries over to the channels, which are loaded from slots, and it
holds across reuse, resets and stray answers. The step has one case for an allocation, which
reads the request off the bus, and one for the slots left alone; that no write-back
makes a slot is `MissInv`'s.

The refinement's step proof goes by answer or none and allocation or none, each of the four
a step of `MissQueue`; that the request on the bus and those in slots are among the
requests is `MissesRequested`, from `OriginInv`.

`ServiceAdvances` is the part of `MissesServed` that needs no fairness: a ready edge issues
the oldest miss (`OldestIssued`), nothing but its answer or a reset takes it off the
channels (`OldestKept`), and an answer brings each other miss one place nearer
(`OthersComeNearer`). With the fairness of the clock and the DRAM these are the three
steps of a well-founded argument on the place in the ring, which stays with TLC.

`WaitingIsSilent` turns the counterexample of `waits_valid` into a fact about all
constants: that no channel is valid and that the DRAM is not ready imply each other for ever.
It assumes nothing of the tag arrays.

The compositions reuse the invariants of `L2Cache`: a step of `CacheArrays` or
`UvmDriver` is shown to be a step of `Next` or a stutter (`StepAnyArrays`,
`DriverIsCache`), so that `TypeOK` and `MissInv` come from `L2CacheProofs`. For `OneMissEver` the
point is that an edge leaves the packet on the pins: if it allocates, `Settle` sees
the new slot at once (`AllocationLatches`), and the latch stays (`LatchStays`).
`CacheArrays` is proved for any number of ways and sets and any subset of late ways;
the theorems on `UvmDriver` have `TagsAsWired` as a premise, except `DriverImplementsCache`.

Only model-checked: `MissesServed`, as a liveness property, and the runs of the
findings, liveness three times out of seven (`stall_ends`, `fill_lost`, `waits_valid`). Every
invariant, action property and refinement of a passing run is both checked and proved.
`ValidBitLost`, `RepeatsPastTheSets`, `PresentedUntilReset`, `StalledUntilReset`,
`WaitingIsSilent` and `WaitingKeepsMisses` are only proved: they say of all constants what the
findings show on one instance.

## Not modelled

* What a line holds, beyond zero and unknown: no data reaches an array, so there is
  nothing else to tell apart.
* Coherence with valid rows. The code is in `L2Cache`, but through `TagPort` it is
  never reached (`NothingHitsInArrays`), and no run pretends otherwise.
* The UVM agent, environment, test and top: wiring, which does not elaborate as
  committed (`testbench.sv` names `in.clock`, `in.reset` and `in.l2_exit_valid`, which
  `interface.sv` does not declare). Its reset goes from 0 to 1 and stays, on a design that
  resets on 1; `UvmDriver` takes resets on any edge instead.
* Monitor and scoreboard beyond the request handshakes: they wait for
  `l2_exit_valid`, `r_ready` and `b_ready`, which nothing drives.
* `mshr.sv`, which is empty; scripts; and `csrc/`, `sim.out.daidir/`, `diag_dir/`: files the
  simulator generated. The C and header files of `csrc/` hold VCS's tables and stubs
  (`rmapats`, `rmar`, PLI entry points) and no logic of the cache, so that none of
  their lines is modelled: every line the modules translate is SystemVerilog.

## What is left

* The coherence control over rows that keep their valid bit, as if `META_WIDTH` were
  the width of `META_PACKET`: the wait that keeps its own snoop from going out, the recall
  overridden by a hit, the write-back that meets a miss at `free_idx`, the downgrade to
  address 1. It would be about a program other than the one here, and is worth
  doing once the width is corrected.
* Proofs: what a DRAM under `AxiDram` holds and answers, given that requests stay
  presented after their handshake; a cause for each stall that the latch allows.
