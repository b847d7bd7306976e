# CVW in TLA+

Models, model-checking runs and machine-checked proofs for the control logic of
CORE-V Wally (`src/`), a configurable five-stage in-order RISC-V processor in
SystemVerilog with caches, virtual memory and a small SoC around it.

## 1. Inventory

| Component | State | Operations | Interacts with | What makes it correct |
|---|---|---|---|---|
| Data cache (`cache/`) | FSM state, tag/valid/dirty/data/replacement arrays and their registered read ports, flush counters | hit, miss, eviction, cbo.inval/flush/clean/zero, fence.i flush | memory stage (request, `CacheStall`, `CacheCommitted`), bus interface (`CacheBusRW`, `CacheBusAck`) | one way per line; clean lines equal memory; loads return the last store; flushes reach memory; always returns |
| Bus cache interface (`ebu/buscachefsm.sv`, `ahbcacheinterface.sv`) | bus state, beat counters, fetch buffer | burst read, burst write, uncached and atomic access | cache, arbiter, AHB slaves | beats of one burst go to one line; nothing cut while committed |
| LSU glue, LR/SC, atomics, alignment (`lsu/`) | reservation, spill state, write-data delay | steer requests, squash SC, split misaligned accesses | cache, walker, hazard unit | SC succeeds only under its reservation; nothing done twice |
| Page-table walker and TLBs (`mmu/`) | walker state, PTE register, TLB entries | walk, A/D update, TLB fill and flush | takes over the LSU; stalls the pipeline | terminates; fills only checked translations; A/D set before use |
| Pipeline control (`hazard/`, `ieu/controller.sv`) | pipeline registers | stall, flush, bubble | all stages | nothing lost or duplicated between stages |
| Traps, privilege, CSRs (`privileged/`) | mode, status stack, xepc/xcause, interrupt pending/enable | trap, return, CSR write, WFI | flushes the pipeline, waits for `Committed` | each instruction retires once or traps once |
| Fetch, spill, branch prediction (`ifu/`) | PC, spill state and saved half, predictors, return stack | fetch, spill, predict, repair | I$, hazard unit, walker | the instruction decoded is the one at the PC |
| Bus arbiter (`ebu/`) | arbitration state, saved IFU address phase, beat count | grant, save, restore | both bus interfaces | no transfer lost or issued twice; no deadlock |
| Interrupt controller (`uncore/plic_apb.sv`) | priorities, enables, thresholds, in-progress, pending | claim, complete, configure | devices, APB bridge, trap logic | each request served once, in order; no source lost |
| APB bridge (`uncore/ahbapbbridge.sv`) | captured address phase, `PSEL`, `PENABLE` | setup and access phases | AHB, peripherals | one access phase per transfer |
| UART, CLINT, GPIO (`uncore/`) | FIFOs, shift registers, interrupt flags, timer | send, receive, compare | PLIC, pins | no character lost, interrupts cleared only by service |
| SPI controller (`uncore/spi_*.sv`) | two FIFOs with their flags, frame state machine, chip select mode | send and receive a byte, select, mark levels | APB bridge, SD card, PLIC | no byte dropped or invented; bytes in order both ways |
| Boot loader (`fpga/zsbl/`) | where it is, retries, the block it stores | bring the card up, read blocks, check them, stop | SPI controller, and through it the SD card | what it accepts is what the card holds; it ends |
| Arithmetic (`ieu/` data path, `mdu/`, `fpu/`) | pipeline registers, iteration counters | compute | hazard unit | values |

What is hard here is not in any one handler. The arrays answer a cycle after they
are addressed, so every state machine has to have asked for the right set a cycle
ago. Units stall each other through combinational paths, and a trap may flush any
of them between two cycles of a multi-cycle operation. Devices change their
requests while the bus transfer that asks about them takes two cycles.

## 2. Plan

Done in this order, each with its runs before its proofs:

1. `Memory`, `DCache`, `MCDCache`, `DCacheProofs`, `DCacheRefinement`: the data cache as a
   refinement of a memory. *Done, the refinement proved.*
2. `Plic`, `PlicProofs`: interrupt controller, bridge, devices and hart. *Done.*
3. `Serial`, `Uart`, `MCUart`, `UartProofs`: serial port with its FIFOs, line status and
   interrupt identification as a refinement of two queues. *Done, the refinement proved.*
4. `Ebu`, `EbuProofs`: bus arbiter composed with both bus state machines; each requested
   transfer happens once. *Done, all safety properties proved.*
5. `Pipeline`, `PipelineProofs`: stalls, flushes, traps, WFI, spill, prediction repair, divider
   and the walker's hold on the memory stage; instructions retire or trap in order, once.
   *Done, all safety properties proved.*
6. `Mmu`, `MmuProofs`: page-table walker, both translation buffers, and software that edits
   and fences. *Done, all safety properties proved.*
7. `Spi`, `Boot`, `MCBoot`, `BootProofs`: SPI controller, the boot loader that drives it and
   the card behind it; no byte is dropped and every block accepted is intact. *Done, all safety
   properties proved.*
8. Left: LR/SC, the status stack, CLINT halves, return address stack, replacement tree,
   divider recurrence; misaligned accesses as a variant of the spill; the other delays and
   modes of the SPI controller, which the boot loader does not use.

Every invariant and every action property of the passing runs is a theorem (`Intact` for a boot
loader that is on time, as section 9 says), and so are the two refinements. Liveness (`Served`, `Progress`, `Boots`) stays with TLC: the provers do not reason
about fairness.

The modules meet at the signals they share. `DCache` takes the pipeline's side of a request
from `MayFollow`; `Pipeline` takes the cache as a machine that is idle, busy, writing or
holding; `Ebu` takes both caches as sources of bursts; `Mmu` takes the cache as a port that
answers some cycles later and the pipeline as a side that waits. `Boot` extends `Spi` and is the
bus master of its registers and the device on its pins.

## 3. Data cache

### Correspondence

`DCache` steps once per clock cycle; a cycle in which no register changes (a wait
state of the bus, a stall in `ADDRESS_SETUP`) is a stuttering step. The variables are
the registers: `curr` is `CurrState` of `cachefsm.sv`; `tag`, `valid`, `dirty`, `data`
the arrays of `cacheway.sv`; `lru` the memory of `cacheLRU.sv`; `rd` the read ports, as
the set each port was last addressed with (tag and data are read through their address
register) and the bits it latched (valid, dirty, replacement); `flushAdr`, `flushWay`
the flush counters; `req` the request in the memory stage; `bus`, `beat`, `buf`
`buscachefsm.sv` and the fetch buffer; `mem` memory behind the bus.

There is one action per row of the state machine and kind of request, and each writes
everything that changes in that cycle. `LoadHit`, `StoreHit`, `ZeroInPlace`, `DropHit`,
`PassThrough` complete in `ACCESS` and let the next request in; `StartFetch`,
`StartWriteback`, `StartFlush` leave it; `WritebackBeat`, `EvictionDone`,
`CMOWritebackDone`, `FetchBeat`, `FetchDone`, `WriteLine`, `AddressSetup` are a miss or a
cbo operation; `FlushClean`, `FlushDirty`, `FlushBeat`, `FlushWritten` are fence.i.
`Hold` is a stall from elsewhere, `Squash` a flush of the memory stage in `ACCESS`,
`LateTrap` one in a later state (`LateTraps` says in which).

The request behind `req` is any that `MayFollow` allows: the stalls of
`ieu/controller.sv` and the flushes of `hazard/hazard.sv`.

Abstractions. A word is a value, an address a tag, a set and a word. The tree of
replacement bits is the way it points at: after a hit or a fill it points at any other
way, which includes what the tree does. The lowest invalid way is some invalid way. The
names of the cbo operations are those of `CMOpM` in `cachefsm.sv`.

### Abstract specification

`Memory` is what the rest of the processor may assume: one value per word, changed only
by the request in the memory stage. `DCache` implements it under the mapping `Visible`
(a word is what the way holding its line has, else what memory has), checked as the
property `Transparent`.

### Properties

`NoAlias` (no line in two ways), `Placement` (its inductive strengthening: the read port
shows the set of the request, and a line being fetched is in no way),
`CleanMatchesMemory`, `LoadValue` (what is handed to the pipeline, from the arrays or
from the fetch buffer), `FenceWritesAll`, `CMOReachesMemory`, `BurstIsCommitted`,
`Transparent`, `Served` (liveness).

### Runs

| Run | Bounds | Shows |
|---|---|---|
| `dcache_two_way` | 1 set, 2 ways, 3 tags, 2-beat lines, 2 values, symmetric tags | all invariants and the refinement; three lines compete for two ways, so victims are invalid, clean and dirty; traps in every state of a miss |
| `dcache_direct` | 2 sets, 1 way, 2 tags | cbo.zero, flushes over several sets: `FenceWritesAll`, `Transparent`, `Served` |
| `dcache_zero_hit` | 1 set, 2 ways | counterexample to `NoAlias`: cbo.zero hits in one way with a dirty victim in another |

Two beats are enough for a first and a last beat to differ. One program word per line and
two values distinguish stores; the second word shows that a merge leaves the rest of the
line alone. `ProgramWords` and `ProgramValues` bound the program, not the cache; memory
starts blank and every other content is reached by stores.

Fairness. `Served` assumes `WF_vars(Advance)`: the cycle that takes the request further is
eventually taken. The clock does not stop, every AHB slave of this SoC raises `HREADY`
after finitely many cycles, and stalls from other units end; a trap (`Squash`,
`LateTrap`) is never assumed.

### Two conditions

`CMOSpaced` (another instruction behind each cbo operation) and the absence of cbo.zero in
associative caches are what `NoAlias` needs. `dcache_zero_hit` is what happens with
cbo.zero; with two sets, two ways and `CMOSpaced = FALSE` TLC finds the other counterexample,
an access directly behind a cbo operation of another set, which looks at the wrong set.
`dcache_direct` shows that cbo.zero is sound with one way.

### Proofs (`DCacheProofs`, `DCacheRefinement`)

Every theorem but the first is about a plain program (`PlainProgram`): `CMOSpaced`, and
cbo.zero with one way only. These are the two conditions above; the programs of both passing
runs are plain.

* `TypeCorrect`: `Spec => [](TypeOK /\ InFlight)` for all constants. `InFlight` says the
  cache and bus machines are in step; `TypeOK` needs it, because a write burst takes its
  address from the way the controller selects.
* `PlacementHolds` and `OneWayHits`: `Spec => []Placement` and `Spec => []NoAlias`.
  `NoAlias` is not inductive: a fill adds a way, and that the line is not already in
  another was established cycles earlier, from the read port, in `ACCESS`. The invariant
  is `TypeOK /\ Placement`: `PortFresh` makes the miss in `ACCESS` a fact about the
  arrays, `MissAbsent` carries it through `WRITEBACK`, `FETCH` and `WRITE_LINE`, and
  `NoAlias` follows at the fill. The proof has a step per action.
* `CleanLinesAreInMemory`, `LoadsReturnLastStore`, `CMOsReachMemory`, `BurstsAreCommitted`,
  and `CacheIsInvisible`, the refinement `Spec => Transparent`. The invariant is
  `TypeOK /\ Placement /\ Coherent`. `CleanMatchesMemory` alone is lost when a burst ends:
  `Coherent` says which beats of a burst memory already has (`Written`), which words the
  fetch buffer has (`Fetched`), that a victim is in memory before its way is filled
  (`VictimWritten`), and that valid and dirty bits at the read port are those of the arrays
  (`PortsShow`). Each action then either leaves `Visible` alone, also a writeback cut short by
  a trap, or stores what the request stores in one line.
* `FenceFlushesAll`: `Spec => []FenceWritesAll`. `FlushProgress` adds that nothing behind the
  two flush counters is dirty; a flush ends where both are at their last value.

Only model-checked: `Served` (liveness is out of the prover's reach).

## 4. Interrupt controller

### Correspondence

`Plic` steps once per clock cycle. `intPriority`, `intEn`, `intThreshold`,
`intInProgress`, `intPending`, `Dout` are the registers of `plic_apb.sv`; `requests` the
device lines; `apb` and `tx` the phase and the captured address phase of
`ahbapbbridge.sv` (`setup`: `PSEL` without `PENABLE`, `access`: both); `held` is what the
handler on the hart has claimed and not completed. `Begin` is the address phase, `Setup`
and `Access` the two cycles of the transfer, `Idle` a cycle without one; each lets the
devices change and latches the pending bits. `IntClaim`, `ThreshMask`, `ExtInt` are the
combinational logic.

The hart completes only what it holds. Reads without a side effect are left out. Two
transfers to the controller are never back to back: the bus state machine of the LSU
spends a cycle in `MEM3` and one in `ADR_PHASE` between uncached accesses.

### Runs and properties

| Run | Bounds | Shows |
|---|---|---|
| `plic_quiet` | 2 sources, 2 contexts, priorities 0 to 2, `QuietClaims` | `ClosedIsHeld`, `ServedOnce`, `Offered`, `NotWithdrawn` |
| `plic_claim_race` | 2 sources, 1 context | counterexample to `ClosedIsHeld`: a request that rises in the setup cycle of a claim is marked by the second read and never reported |

Two sources are a claim and a competitor; three priority levels are off, low and high;
two contexts let one claim what the other was offered. `QuietClaims` says that no request
rises in the setup cycle of a claim; the second run shows what it excludes. There is no
liveness property: a hart need not claim.

### Proofs (`PlicProofs`)

* `PlicTypeCorrect`, `PlicServesOnce`: `Spec => []TypeOK` and `Spec => []ServedOnce` for all
  constants, quiet or not. The invariant adds that what is held or in transit is in progress, and that what is in
  progress is not pending but in the cycle after its claim.
* `PlicClosedIsHeld`: `Spec => []ClosedIsHeld` under `QuietClaims`. The invariant says that
  in the access cycle of a claim the controller still computes the claim it answered. That
  `IntClaim` exists (a least element of a set of numbers) is proved by well-founded
  induction from the library.

* `PlicOffersMostUrgent`: `Spec => []Offered` for all constants (a context is interrupted
  exactly for a source above its threshold, and a claim gets the most urgent, lowest number
  first). It follows from the types alone: the levels with an interrupt have a greatest, and
  the chain of comparisons lets exactly the levels above the threshold through.
* `PlicNotWithdrawn`: `Spec => NotWithdrawn` under `QuietClaims`. What is pending is not in
  progress but in the access cycle of a claim (`Apart`, `Repeated`), so what waits goes on
  waiting. Without `QuietClaims` a source that the second read marks is dropped a cycle after
  the claim.

Every property of `plic_quiet` is proved.

## 5. Serial port

### Correspondence

`Uart` steps once per clock cycle; a cycle has at most one register access, so a read or
write of `uart_apb.sv` (which waits for `PENABLE`) is one step. Every always block of
`uartPC16550D.sv` is an operator: `Receiver` (305-335, in the priority of its branches),
`RxTimeout`, `Arrive` (the receive state machine, as the cycles in which a frame ends),
`Transmitter` (434-468), `PointerFlag` (470-485), `ShiftState` (386-403), `Status`
(173-186), `SquashTHRE`; `Cycle` is their conjunction, and `NoAccess`, `ReadRBR`,
`ReadLSR`, `ReadIIR`, `WriteTHR`, `WriteFCR` are a cycle with the register accessed and
what the program learns from it.

`hart` is the program: it leaves a cycle between accesses (the bridge and the bus state
machine need several), reads a character when it was told of one, writes as many as fit
when it saw the transmitter empty, and resets or switches the FIFOs when it saw everything
sent. `owed` is the errors it has not been shown.

Abstractions. A character is one value until its frame ends; parity and framing errors are
one kind. `Garbled` is a character with a bit sent twice. Break, modem lines, loopback and
the DMA ready lines are left out; `LSR[7]`, which is set and never cleared but by reset, too.

### Abstract specification

`Serial` is two queues and the line: what is written is sent in order, each character once;
what is received is read in order, each once; characters are lost only to a reported overrun
or to a reset. `Uart` implements it (`Faithful`) with the queues read off the pointers
(`sendq`, `recvq`). An overrun of the receive FIFO, which moves the head onto the tail and
so drops everything, is the case for which `Serial` lets a loss be of any size.

### Runs and properties

| Run | Bounds | Shows |
|---|---|---|
| `uart_quiet` | 3 slots, trigger 2, 2 symmetric characters, `Races = {}`, `OneDirection` | `Faithful`, `ErrorsReported`, `IdleIsSent`, `EmptyIsAnnounced` |

Three slots have a first, a middle and a last position, wrap, and overrun at two entries
as the code's sixteen do at fifteen; two characters tell a loss, a repetition and a swap
apart. `OneDirection` bounds the product of two full FIFOs: with one received character
waiting the transmitter may still shift, with two it is quiet. Receive interrupts still
compete with the transmitter's. The view `Live` leaves out characters in slots that no
queue covers: nothing reads them unless a pointer is wrong, and then `recvq` and `sendq`,
which are in the view, differ.

`Races` names the coincidences the passing run keeps apart: a frame that ends in the cycle
of a read of RBR ("pop"), a read of LSR in the cycle in which an error moves into it
("status", which loses the error: the squash outlives it), a FIFO reset with the transmitter
in use ("reset"). Put into `Races`, "pop" makes TLC find a character that is read twice
(`ReadPops`) and "reset" an emptied FIFO that reads as full (`ResetClears`). No liveness: the other end of the line may stay silent.

After an overrun has emptied the FIFO, data ready stays set until another character has
come and been read; until then a read of RBR returns zero. `Serial` allows that read.

### Proofs (`UartProofs`)

* `UartReportsErrors`: `Spec => []ErrorsReported` without the "status" race, for any depth.
  The invariant adds that a squash left behind by a read goes with a clear LSR.
* `UartIdleIsSent`: `Spec => []IdleIsSent` without the "reset" race. The invariant: LSR's
  "empty" of a cycle ago still holds when the last cycle had no access; the FIFO or holding
  register of the mode that is off is empty; an unused shift register is idle.
* `UartTypeCorrect` and `UartAnnouncesEmpty`: `Spec => []TypeOK` and `Spec => EmptyIsAnnounced`
  for all constants, with every race.
* `UartIsTwoQueues`: the refinement `Spec => Faithful`, for any depth, without the races "pop"
  and "reset". The lemmas `SlotValue`, `EntriesMove`, `WindowGrows` and `WindowShrinks` say what
  a step of a pointer does to the queue between two pointers that wrap; `HeldMove` does so for
  the transmit FIFO, whose full and empty states only `HeadPointerLastMove` tells apart. The
  invariant is `TypeOK /\ IdleInv /\ Told`: `Told` relates what the program was told, a cycle
  late, to what is waiting now, so that it never writes more characters than there is room
  for, nor reads an empty buffer.

Every property of `uart_quiet` is proved. The proof uses that characters are not the names
of the interrupts (`UartAssumption`), which the values of the type `Dout` do not share.

## 6. Bus unit

### Correspondence

`Ebu` steps once per clock cycle. `busState`, `BeatCount`, `BeatCountDelayed` are the
registers of `buscachefsm.sv`, one of each for the instruction side (`IFU`) and the data
side (`LSU`); `HWDATA` the write data register of `ahbcacheinterface.sv`, as the beat it
holds; `arb`, `IFUReqDelay`, `ebuCount`, `FinalBeatD` those of `ebufsmarb.sv`; `saved` the
address phase in `controllerinput.sv`; `dphase` and `HREADY` the slave. `HTRANS`, `HWRITE`,
`HBURST`, `IFUOut`, `ArbNext`, `Out` are the combinational logic; `Cycle` is the
conjunction of what each block does at the clock edge. `flush` is `TrapM` of the cycle.

`req` is what the cache or the pipeline asks of a bus state machine: a line fetched, a line
written because of a cbo operation or a flush (`clean`), a dirty victim written and the
line fetched behind it (`evict`), or an uncached access. `todo` is the transfers the
operation has yet to make and `orphan` marks a data phase whose operation a trap has cut;
both are history and steer nothing.

While a fetch waits, the pipeline stands still: the data side starts at most `MaxWalk`
operations, those of the page-table walker and the access it delays. A trap needs the
instruction side uncommitted; an interrupt needs the data side uncommitted too, and an
exception that a fetch held back does not (`Cuts`). After a trap the memory stage holds a
bubble.

Abstractions: the beat stands for the address, transfer sizes and byte strobes are left
out, so is cbo.zero to an uncached address. Which line and which data a cache supplies for a
beat is the subject of `DCache`.

### Runs and properties

| Run | Bounds | Shows |
|---|---|---|
| `ebu_contended` | 8 beats (a line of 64 bytes on a 64-bit bus), `MaxWalk = 2`, no uncached atomics | `InOrder`, `DataReaches`, `BusRules`, `Served` |
| `ebu_atomic_twice` | the same with uncached atomics | counterexample to `InOrder`: the write of an atomic is issued twice |

Eight beats make the counters of the state machines wrap at 8 and that of the arbiter at
16, as in the 64-bit configurations. Two operations of a walk let the data side come back
while the fetch is still saved.

`InOrder` after a trap rests on the bubble: a flush overrides the state and not the reset of
the beat counter, and an operation in the very next cycle would start in the middle of its
line. `BusRules` (a burst goes on to its last beat, an address phase is held until it is
taken) leaves the cycle of a trap out: a burst cut there ends while the slave is waiting. The arbiter's count of beats is right only when both sides start together and
the last beat has no wait state; otherwise the fetch gets the bus when the four-bit counter
has come round. `Served` shows that it does get it.

Fairness. `FairSpec` assumes that the clock runs (`WF_vars(Cycle)`) and that a slave always
ends its data phase (`WF_vars(Cycle /\ HREADY')`). The pipeline may hold an operation in
`MEM3` for ever, and traps are not assumed.

### Proofs (`EbuProofs`)

* `EbuTypeCorrect`: `Spec => []TypeOK` for all constants. The sequences of `todo` are why it is
  more than a formality: TLC never enumerates them.
* `TransfersInOrder`, `DataReachesItsMaster`, `BusRulesKept`: `Spec => []InOrder`,
  `Spec => []DataReaches`, `Spec => BusRules`, for every length of a line, with and without
  bursts, any number of walker accesses, and for a data side without uncached atomics;
  `ebu_atomic_twice` is why. None of the three is inductive. The invariant `EbuInv` says what
  a state of a master's bus state machine means: the operation it serves (`Control`), its two
  counters (`Counters`: one is a beat ahead of the other), that it waits for a data phase
  exactly when its transfer is in it (`DataPhase`), and that `todo` is what `Expected` reads off
  the state. The exception is the instruction side while its address phase is saved
  (`Parked`): it believes it is in a data phase it does not have (`Saved`). `Bus` says why the
  data side sees an `HREADY` exactly when it is its own.
  A cycle without a trap is one of nine moves of each master (`MasterMoves`); which of them
  puts a transfer on the bus is `WhichMovesIssue`, and each part of the invariant follows from
  these two.

Only model-checked: `Served`, which is liveness.

## 7. Pipeline

### Correspondence

`Pipeline` steps once per clock cycle. `D`, `E`, `M` are the instructions in three stages
and `F` the address in fetch with what it meets in the ITLB and the instruction cache;
writeback is the step in which `M` leaves (`Retires`). An instruction is its position in the
program, counted from the one that is to retire next, and a kind. `ifu` and `lsu` are the
state machines behind each side (idle: `ACCESS` or `ADR_PHASE`; busy: a miss, a flush or a
data phase; write: `WRITE_LINE`; hold: `ADDRESS_SETUP` or `MEM3`), `spill` and `half` those
of `spill.sv`, `div` of `div.sv`, `walker` of `hptw.sv`, `wfiW` and `BPWrongM` the bits that
reach the next stage. `irq` is what `mip`, `mie` and `mstatus` make of the interrupts, free
in each cycle. `ExceptionM` leaves out one exception, the illegal instruction of a WFI that has
waited too long below machine mode (`privdec.sv:95, 113`), and ecall and ebreak are exceptions
like others: `FlushWCause` flushes their writeback too, whatever the comments at `hazard.sv:66`
and `privdec.sv:41` say.

The combinational network is translated name by name: `StallW` to `FlushE` from
`hazard.sv`, `TrapM` and `InterruptM` from `trap.sv`, `HPTWStall`, `SelHPTW` and
`HPTWFlushW` from `hptw.sv`, `TakeSpillF` and `IFUStallF` from `spill.sv` and `ifu.sv`,
`NextValidPCE` and `PCNextF` from `bpred.sv` and `ifu.sv`. `Cycle` is the conjunction of
`Fetch`, `Stages` and `Memory`, what each block of registers does at the clock edge.

Abstractions. A prediction is the next instruction or the one after it; a jump is an
instruction whose successor is not the next. A stall for a register dependence is any stall
of decode while an instruction is in execute. Hits, misses, uncached accesses, faults and
spills are chosen when an address is formed. A walk is that of two levels, without updates
of accessed bits, which `Mmu` has. `done` counts how often the operation in the memory stage
has been performed; it steers nothing. Decode's and execute's own flush of a stalled stage is
the code's: the instruction register of decode is cleared, the other registers keep the
instruction (`void` is an instruction whose encoding was replaced by a no-op while its
address stayed).

### Runs and properties

| Run | Bounds | Shows |
|---|---|---|
| `pipe_quiet` | all eight kinds, jumps and divides, no coincidence | `InOrder`, `ExactlyOnce`, `FaultTraps`, `OwnHalves`, `Progress` |
| `pipe_lost` | one kind of access, `Coincidences = {"WalkFault"}` | counterexample to `ExactlyOnce` |

Positions are relative, so the program is unbounded; at most five instructions are in
flight, and any combination of kinds, predictions and timings of them occurs.

`Coincidences` are the rare events the passing run keeps apart, and each of them alone breaks
a property:

* `WalkFault`: a walk for fetch fails while a load or store waits for it. The operation
  retires without having been performed (`pipe_lost`).
* `SplitMiss`: the second half of an instruction misses the ITLB while an operation is under
  way in the memory stage. The walk begins when that operation holds its result, and makes it
  happen again (`ExactlyOnce`).
* `LateFault`: a walk finds that an operation is not permitted while a fetch is under way. The
  exception is held back, and the access, which is no longer stalled, goes to the cache
  (`ExactlyOnce`).
* `WfiTwice`: one WFI directly behind another. The second sees the first one's `wfiW` and is
  interrupted before it waits, as if it were the one to be completed (`InOrder`).
* `DivideRestart`: a divide predicted to be a taken branch, and a miss of the ITLB on the wrong
  path. The divider is reset and the stage is not, so the divide begins again; when the page
  on the wrong path cannot be fetched, for ever (`Progress`, which TLC finds violated with the
  kinds "alu", "mem", "ret").

Fairness. `FairSpec` assumes that the clock runs and that what is waited for answers: a grant
and data on either bus (`WF_ifu`, `WF_lsu`), the divider's last iteration (`WF_div`). Nothing is
assumed of interrupts, predictions or hits.

### Proofs (`PipelineProofs`)

All are for any program, that is, any set of kinds, and need no bound. `OrderInv` is one
inductive invariant for the first three and the base of the others. Its core is `Ordered`: the
instruction in memory is the next to retire; the one in execute follows it by its length unless
it comes after a branch that was mispredicted; those in decode and fetch follow by one or two, a
right prediction or a wrong one, and while decode is empty fetch is at the instruction that
comes next. The other parts relate stages to machines: fetch is idle while a wrong prediction is
repaired (`WrongIdle`) and while a page is looked up (`MissIdle`), the saved half is that of the
instruction in fetch (`Halves`), a walk is for the operation that waits for it (`Walks`). The
lemmas about `Hazard` (`HazardFacts`, `NetworkFacts`) say what the stall and flush equations
allow together; `DStep`, `EStep`, `MStep` what they make of each stage.

* `PipelineTypeCorrect`: `Spec => []TypeOK`.
* `HalvesBelongTogether`: `Spec => []OwnHalves`.
* `FaultsDoNotRetire`: `Spec => []FaultTraps`.
* `RetiresInOrder`: `Spec => []InOrder` if `Coincidences` does not have `WfiTwice`. The invariant adds
  `NoVoid`: an instruction whose register was cleared in place never gets past the flush that
  cleared it.
* `PerformedExactlyOnce`: `Spec => []ExactlyOnce` if `Coincidences` has none of `WalkFault`,
  `SplitMiss`, `LateFault`. The invariant adds what `done` is in each state of the cache and the walker
  (`DoneCounts`), when the cache must be idle (`Quiescent`), and that no fetch holds back a
  fault that was found by a walk (`PromptFaults`).

The conditions are needed: TLC finds `InOrder` violated with `WfiTwice` and `ExactlyOnce` with
each of the three. They are not those of `pipe_quiet`, which keeps all five apart:
`DivideRestart` matters to none of the theorems, and `WfiTwice` only to the fourth. TLC found
no violation of the invariants under the conditions of the theorems either.

Only model-checked: `Progress`, which is liveness.

## 8. Address translation

### Correspondence

`Mmu` steps once per clock cycle; a cycle in which the walker waits for the cache stutters.
`pt` is the page tables in memory; `tlb` and `RUBits` the lines of both buffers and their
recently-used bits (`tlb.sv`, `tlblru.sv`); `walker`, `DTLBWalk`, `PTE`, `PageType`,
`HPTWWriteAdr` the registers of `hptw.sv`; `data` and `fetch` the requests of the two sides;
`unfenced` the pages whose entries changed since the last fence. `Serve` is a cycle in which
both sides hit and move on, `Stall` one in which the memory stage is held by something else;
`StartWalk`, `Address1`, `Read`, `Address0`, `UpdatePTE`, `WritePTE`, `TLBWrite`, `Fault` are
the walker's states and `Denied` a read that protection does not permit; `Interrupt` cuts a
walk; `Edit` is software changing one entry. `TLBFlush` keeps the asymmetry of the code: a
fence flushes the DTLB for as long as it stays in the memory stage and the ITLB in its first
cycle.

Entries. An entry is the set of its bits that are 1, so the OR of the lines that match, which
is how the buffer is read, is a union. A frame number has two bits, `ppn0` and `ppn1`, enough for
a misaligned superpage and for two tables. ASIDs, global and NAPOT pages, `MXR`, `SUM` and
page-based memory types are left out.

### Runs and properties

`mmu_quiet` has two pages that share a root entry, which may be a superpage, a pointer, or a
malformed entry; user and supervisor; loads, stores and fetches; two lines of DTLB, one of
ITLB, and `menvcfg.ADUE` on or off.

* `AsTablesSay`: when both sides are served, what the buffer says is what an independent
  reading of the tables says (`Permitted`, `Leaf`), unless the entry was changed and not fenced.
* `EarnedUpdate`: a step of the walker changes an entry in the tables only by setting the
  accessed bit, and the dirty bit for a store, of the last entry of the page it walks for, and
  only if the access is permitted.
* `Served`: the walker gives the pipeline back again and again, or interrupts cut it for ever.

`Coincidences` are what the passing run keeps apart; each alone breaks a property:
`Misaligned` (a misaligned superpage; the check looks at the address states, the update is
decided in `LEAF`), `CMO` (cbo operations on pages they may not touch), `UserFetch` (a
supervisor that fetches from a user page) make the walker set bits of an access that then
faults (`EarnedUpdate`, against "any other fault should not cause the update", `hptw.sv:208`).
`Lag` (with ADUE, an access to a page whose entry was changed and not fenced) lets an old line
with clear bits match beside the new one: the OR is not what either says, the walk repeats, and
`Served` fails.

Two pages and two lines are enough for a line to be replaced, for a line to be doubled by a walk
that sets a bit, and for all lines to be recently used. Fairness: the walker's next cycle is
eventually taken (`WF_vars(Walk)`); the cache answers it, as `DCache`'s `Served` shows.

### Proofs (`MmuProofs`)

All are for any pages, tables and buffers of any size. One invariant, `MmuInv`, carries all
three. `LinesAgree`: a line that matches a page that needs no fence has the type of the last entry of
its page and the bits of it, save accessed and dirty bits set since; so that the OR of several
such lines is a line of the same kind (`LinesAnswer`), and what it permits is what the tables do
(`AnswersAreRight`). `Due` is the pages it leaves out; it is empty from the second cycle of a
fence on, when the first has emptied both buffers. `WalkReads` says what the walker has read in each of its
states: its registers are those entries of the tables that an independent reading of them
passes through. Of software it is only used that a pointer it writes in the root table leads to a
table (`RootsKnown`), which is never the root itself (`FramesApart`): so a write of the walker
changes a last entry, and by no more than its bits (`WriteKeepsLeaves`, `LeavesGrow`).

* `MmuTypeCorrect`: `Spec => []TypeOK`, the walker's addresses included.
* `TranslatesAsTablesSay`: `Spec => []AsTablesSay`, whatever `Coincidences` are.
* `UpdatesAreEarned`: `Spec => EarnedUpdate` if `Coincidences` has none of `Misaligned`, `CMO`,
  `UserFetch`; `Lag` is allowed. Each of the three alone violates it, as said above.

Only model-checked: `Served`, which is liveness.

## 9. SPI controller and boot loader

### Correspondence

A step of `Spi` is a cycle of `PCLK`; `tick` is `SCLKenable`, the cycles in which half a
period of the serial clock ends. `tx` and `rx` are the FIFOs of `spi_fifo.sv`: the words
between the pointers, the registered increments, and the flags, of which `full` is renewed
only in cycles with `wen` and `empty` only in cycles with `ren`. `curr` and `half` are the state
machine and the frame counters of `spi_controller.sv`; `start` and `StartD`, `RegLoaded`,
`TransmitReg`, `ReceiveReg` the start machine and the shift registers, as the byte they hold;
`apb` the cycles of a register access: setup and access on the bridge, then the one in which
`buscachefsm.sv` is in `MEM3`, then the one in which it puts out the next address (94-102).
So two accesses end four cycles apart or more, and a flag read is never older than what the
access before it did. `SpiCycle` is what all of them do at the clock edge.

`Boot` adds the loader and the card. `prog.pc` is the access the loader makes next, after any
number of cycles, and `prog.why` what the byte of a `spi_txrx` is for; `After` and `Taken` are the
code behind an access, `Returned` what `init_sd` and `disk_read` do with a response, `Checked` the
end of a block. `buf` is what has been stored of the block. The card hears the bytes sent to it
while it is selected, answers a complete command after some idle bytes, as the loader
expects or with an error, and behind a response to CMD18 sends blocks, one after the other,
each intact or damaged.

Abstractions. A byte is a tuple that says what it is: data of a block, a checksum, a byte of
a command. A checksum matches its block and no other, damaged or shifted. `rbyte & 0x80`
of a byte that may be anything is either. `tries` is set back when `init_sd` has returned and its
counter is gone. The partition table is a read whose contents
are not looked at. Printing takes time, which any access does.

### Runs and properties

| Run | Bounds | Shows |
|---|---|---|
| `boot_card` | FIFOs of eight as in the code, frames of four half periods, `Most` 10 | `FlagsAreSafe`, `NothingDropped`, `Intact`, `Boots` |

Blocks of sixteen bytes, two of the batches of eight the loader sends; a table of one block and
a partition of two, so that a read follows a read and a block follows a block; three tries for
1000; one idle byte for ten. Four half periods are a
first one, shift and sample edges in the middle, and a last one, for the sixteen of the code. Each
may last any number of cycles, and they leave time for forty accesses, where a batch has
twenty-four; the theorems are for any number.

* `FlagsAreSafe`: the flags of either FIFO are late and never early.
* `NothingDropped`: no frame ends on a full receive FIFO, and no byte is written to a full
  transmit FIFO but the last idle byte of a batch, unless the loader has come too late
  (`OnTime`, see below). Not obvious: the loader reads back seven bytes behind a command when the
  transmit FIFO is empty, and the last of the seven may be on the line. So the receive FIFO may
  hold a byte more than the loader counts with (the comment "move the head back to the tail",
  `sd.c:120`, is true only when the last frame was over), every poll then returns the byte before
  the one just sent, and a batch of eight, written while that byte may still be in the transmit
  FIFO, needs a ninth place unless it has left by then.
* `Intact`: a block that is accepted is the block asked for, whatever the lag and however late.
* `Boots`: the loader boots or fails, however late.

The exception of `NothingDropped` is real. On a serial clock as slow as the VCU118's the poll in
front of a batch returns at once with the byte left over, and the byte just sent, which should
have been exchanged for it, is still in the transmit FIFO, its frame not begun, when the batch
is written: the FIFO is not empty, as `boot.c:140` says it should be. The eighth byte of the batch
may then find it full. That does no harm: one idle byte less is sent, the left-over byte
makes up for it, and from there on the loader reads no more of the byte before.

### How fast the loader is

The serial clock does not wait for software, and the model keeps it so: a tick is possible in
every cycle, whatever the loader has or has not done, and between two accesses there is any
number of cycles, for instance a miss of the data cache at `boot.c:149-151` that lasts many
frames. Two things are said of time, and neither holds the serial clock back.

* `Lags` counts, and restricts nothing. `behind` is how many frames have ended since the loader wrote
  the first byte of a batch while it has read none of it (`Unserved`). When they are as many as the
  FIFO has entries the loader has been too late, `OnTime` is false from then on, and the receive FIFO
  may lose a byte: nine may be owed there, eight and the left-over one. TLC explores these
  behaviours to their end, nearly half of the states, and `Intact` and `Boots` are checked in them too:
  a byte is lost only from the end of the stream, so the loader finds as many as it asks for,
  and the checksum does not match. `NothingDropped` is about the others. A stall anywhere else, also between
  the bytes of a batch, does not count: once the first is read, eight are owed at most and
  have room.
* `Most`: no more accesses between two ticks, where blocks are read (`Divides`). It is the loader
  that is bounded, by the cycles an access takes: four (`buscachefsm.sv:94-102`).

What the boards do. `fpga/generator/Makefile` builds the ArtyA7 with 20 and 5 MHz, the VCU108 with 50
and 12.5, the Genesys 2 with 40 and 10 (lines 11-12, 27-28, 35-36), which `fpga/zsbl/Makefile:31-40`
hands on, so `spi_set_clock` writes 1 to `SckDiv` (`spi.c:61-64`): half a period is two cycles, a byte
32. There the loader makes an access or two between ticks and a cache miss lasts a frame or more. It is
late only if eight frames, seven times 32 cycles and more, end between the first write of a
batch and its first read. In between are seven stores and a poll or more of the controller
(`boot.c:141-147`), inlined (`spi.h:88-114`) and optimised, with nothing stored to memory and
nothing read from it but at most a line or two of instructions: fewer than a hundred cycles.
The VCU118, at 71 MHz and 1 MHz (lines 19-20), has `SckDiv` 34, 35 cycles to half a period, and a
start, which sets the divider back (`spi_controller.sv:177`), comes three cycles behind a tick at the
latest: 38 cycles, ten accesses. So `Most` 10 allows what every board does. Without any limit, with a
serial clock that stands still while a whole batch is read, `NothingDropped` fails: the full flag
and with it the receive mark are renewed at ticks only, and the loader reads from an empty FIFO.

The card sends an idle byte in front of a data token. A card that did not would have its token
taken by the byte sent behind the response to CMD18 (`sd.c:154`), and the loader would wait for
the token of the next block and accept that one, with a good checksum, as the first.

What the code does besides, and the model keeps: try number 1000 fails even if it succeeds;
ACMD41 takes anything but 0x01 for success; the response to CMD12 may be misread (a byte of no
meaning comes before it) and is not looked at; a card that never answers is waited for
without end, which is why `Answers` has no silence.

Fairness. `FairSpec` assumes that half periods end and a delay with them, and that the loader
makes its next access: the divider counts and the processor runs, no matter how long either
takes. The card answers within `MaxGap` bytes.

### Proof (`BootProofs`)

`SpiFlagsAreSafe`: `Spec => []FlagsAreSafe` for any depth, disk and card. The lemma
`ClockedIsSafe` is about one FIFO and one cycle of it, whatever its two sides do: a push needs
the flag `full` down and a pop the flag `empty`, and what makes a flag late (the other side) is
never what makes it wrong.

`NothingIsDropped`: `Spec => NothingDropped` under `Fits`, which is `Depth >= 8` (it is eight: the loader
sends the seven bytes of a command in a row, whatever the FIFO holds) and `Most <= 2 * Depth - 5`,
which is eleven and which every board keeps, as said above; any list of reads, size of block, card
and divider, and any timing of the ticks and of the loader. `NothingDropped` says nothing of where the loader is
and is far from inductive; the invariant is `BootInv`, as long as the loader is on time
(`BootInvOnTime`; a loader that has been late is late for good, `OnTimeNext`):

* `Controller`: the start machine, the frame counter and the shift register agree with the
  FIFOs. `Unpopped` is the byte that is already in the shift register and still at the head of
  the FIFO.
* `Program`, `OnBus`, `Stored`: the loader's counters where it is, the access on the bus is its
  own, and a batch begins at a multiple of `Depth` in `buf`, so that a block ends with a batch.
* A byte written is `Queued`, then on the `Line`, then `Unread`; `Exchange` says that a frame
  moves one on and that nothing is made or lost if nothing is dropped (`Roomy`). `Owed` is their
  sum, and changes with the loader's accesses only. `Bounds` is how much may be owed at each
  access: one byte outside bursts, `i` in a command, `i + 1` in a batch.
* A batch owes nine bytes at most. `Crowded` says why the receive FIFO has room all the same: as
  long as none of a batch is read, it holds one byte more than frames have ended (`behind`). And it
  says how far a `full` flag may be out of date: by what the loader has read since the last tick,
  a byte in two accesses, so never so far that the FIFO is empty.
* `Latched`: the flags the loader has read. Each is a cycle or half a period old and still true
  enough when it acts on them, because the FIFO's increments of the access before are over
  (`tx.winc` only in `MEM3`) and only its own access could have emptied the receive FIFO. It
  writes to a full transmit FIFO only at the `Brim`, with the last byte of a batch.

`BoundsCycle` has one step for each place of the loader, `LatchedCycle` one for each flag.

`BlocksAreIntact`: `Spec /\ []OnTime => Intact`, under `Fits`. The proof counts on no byte being lost,
hence `[]OnTime`; of a loader that is late, where only the checksum finds it out, `Intact` is
model-checked. `BootInv` says how many bytes are on their way; `IntactInv`, on top of it, says which. `Outgoing` is what the card has not heard: the
byte in the shift register, the transmit FIFO and `TransmitData`. `Stream` is what the loader has
not read: the receive FIFO, `ReceiveReg` and what the card is about to say. At each access of
the loader, `Contents` says of the two:

* While a command is sent, `Outgoing` ends in as many bytes of it as have been written (`Said`),
  and the card has heard those before (`Heard`). So the card answers the command that was meant.
* When a command other than CMD18 is over, nothing in `Stream` behind what is owed is a token or
  could be taken for anything (`Plain`), and the card sends nothing (`Mute`).
* Behind a response to CMD18, and in a read, `Stream` is a `Chain`: blocks in a row, from the one
  the loader wants to the last the card has begun, each with its token, its data and its checksum
  at known places (`at`), and between them nothing that may be taken for a token. The first
  token is two bytes or more behind the response (`Answered`), or at the head (`Streaming`) and
  then at `-Len(buf)`: the byte read next is the one the loader takes it for.
* So the checksum's first byte is that of the block wanted (`CRCRead`), and a checksum that
  matches can only be of this block, intact.

`Chain` has to speak of more than one block because the card runs ahead: the byte left over from
the command, and the batches, let it begin the next block before the loader has read the
last. `Ordering` is where the loader can be for each `why`, `Selecting` that the chip select is held
while blocks are sent, `Reading` that `Dout` is the head of `Stream`. The proof goes by halves of a
cycle: the loader's (`LoaderWaits`, `LoaderGoesOn`, `LoaderTakes`, with a lemma for each place and
each `why`), then the frame's (`FrameContents`, from `CardTurns`), and `OutgoingFlows` and
`ComingFlows` say that the registers and FIFOs in between are nothing but a queue each way.

Only model-checked: `Boots`, which is liveness, and `Intact` for a loader that is late.

## 10. Not modelled

Data paths (ALU, FPU, multiplier, shifters, cryptography) are functions of their inputs,
checked in the repository against reference models; decompression and the PMA and PMP
checkers are combinational tables; the trace output, testbench, synthesis scripts,
benchmarks, examples and the programs under `fpga/` other than the boot loader are not part
of the processor. Everything else not modelled yet is in the plan.

## 11. Running

In this directory: `tlasany M.tla` parses, `tlc -config X.cfg M` checks a run of
`PROJECT.json`, `tlapm M.tla` checks a proof module.
