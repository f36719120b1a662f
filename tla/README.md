# A verification of the virtualized HFT simulator

The repository is a hardware exchange for an FPGA board: eight symbols, each
with an engine that keeps a heap of bids and a heap of asks and matches them in
price-time priority; a memory management unit that lets the heaps grow out of
their private RAM into shared banks; a dispatcher that feeds the engines; a log
that collects their trades; and, on the ARM side of the board, a kernel driver
and a harness that fills the dispatcher from CSV files and reads the log. Two C
simulators of the exchange are kept beside it as golden models, and the SoC
system brings the firmware that calibrates the board's DDR3 memory.

This directory holds TLA+ models of those parts, TLC configurations that check
them, and TLAPS proofs. `PROJECT.json` is the machine-readable index: which
definition models which lines, what each run checks, which hazard of the code
each property is for.

    tlc -config heap.cfg HeapSpec         # any run: see "Runs"
    tlapm HeapProofs.tla                  # any of the proof modules: see "Proofs"

## The system: parts, state, operations, interaction

| Part (source) | State | Operations | Talks to |
|---|---|---|---|
| Heap FSM (`hw/heap_engine/heap_fsm.sv`) | size, hole, node in the air, compare operands, top-3 cache, 64 private nodes | PUSH, POP, PEEK, UPDATE, each a walk over 30 states | trade controller (cmd/done), private BRAM, MMU port |
| Symbol engine (`hw/heap_engine/symbol_engine.sv`) | 17-state controller, snapped roots, pending trade, latched decision, owner of the MMU port | take an order, push, peek both roots, decide, pop/update, emit, repeat | dispatcher (valid/ready), both heaps, aggregator (valid/ready), MMU |
| MMU (`hw/mmu/mmu.sv`, `HPTW.sv`) | two input FIFOs, two walkers, page table, 16 allocation pointers | translate or allocate, reject, requeue | eight engines, arbiter |
| Arbiter, banks (`hw/mmu/arbiter.sv`, `mem_bank.sv`) | four bank queues, bank contents | serve reads and writes | MMU |
| Dispatcher (`hw/dispatcher/*.sv`) | IDLE/WRITE/DISPATCH/DONE, per lane: RAM, pointers, prefetch register | begin_write, push, begin_dispatch, hand over, clear_done | Avalon registers, engines |
| Aggregator, log (`hw/trade_log/*.sv`) | round-robin pointer; entries, count, overflow | pick and compact a trade, append, read, clear | engines, Avalon registers |
| Top level (`hw/HFT_SIM.sv`) | Avalon registers, log shadow register, button synchronisers, now_ts | register reads and writes, KEY0 reset, KEY1/KEY2 | all of the above |
| Driver (`sw/HFT_drivers.c`) | a mutex | ioctls: push, status, log info, log entry, log clear, control pulses | registers; any process |
| Harness (`sw/HFT_harness.c`) | CSV positions, exhausted lanes, last status | clear log, wait for WRITE, write round-robin, wait for DISPATCH, wait for trade_done, read log; start over on reset | driver, the operator's fingers |
| Software simulators (`sw_sim/`) | heaps per symbol; frames, page lists, overflow page, open files | submit an order, insert into a page, match, give nodes back | none |
| DDR3 calibration (`hw/soc_system/.../sequencer/sequencer.pre.c`) | delays and phases of every pin, in registers, chains and latches; VFIFO pointers, read latency, failure record | initialise the device, then per group: align the strobe enable, centre reads, centre writes, centre reads again; then the latency; hand over; report | PHY and scan-chain manager, memory device, memory controller |

What is hard here, and what it takes to be correct:

* **Heap**: the cache, the private tier and the virtual tier hold one tree. It
  must stay ordered and lose nothing through every walk, cache shortcut, retry
  and stray read. Answers of the MMU are not tagged.
* **Engine**: a trade is several commands on two heaps that share a RAM port
  and an MMU port, decided on snapshots. The book must be uncrossed when the
  engine is idle, with no share made up or lost.
* **MMU**: slots are handed out and never taken back; two walkers allocate at
  the same time; a request may go round through its FIFO again; banks answer
  without tags; a reset clears some of the state.
* **Dispatcher**: unwrapped pointers and a two-cycle prefetch; DONE must mean done.
* **Trade path**: fair merge, back-pressure from a full log, software that reads
  through a shadow register in four accesses.
* **Simulators**: three records of which frame is whose, two ways to run out of
  memory, and a matching loop that must agree with the hardware's.
* **Calibration**: retry loops inside retry loops, each leaving settings behind
  for the next; one set of pin registers for all groups; integer searches for
  windows on a ring; and whatever happens the controller gets a usable memory
  and the report is true.
* **Software**: it runs at its own pace beside hardware that goes on; every
  status it acts on is old; the operator resets the board at any time.

The hazards are listed one by one, at their line, in `PROJECT.json`.

## Modules

| Module | Models | Grain |
|---|---|---|
| `VirtualMemory` | the engine's MMU port, page table, slot allocator, banks | accept / answer / reject, arbitrary delay between |
| `HeapFsm` | `heap_fsm.sv` on top of it | one transition of the state machine |
| `PriorityQueue` | *abstract*: what a heap promises | call, effect, return |
| `HeapSpec` | one heap under arbitrary commands and resets; its properties | |
| `SymbolEngine` | `symbol_engine.sv`: two `HeapFsm` instances and the controller | one transition |
| `OrderBook` | *abstract*: what an engine promises | submit, match, report |
| `OrderDispatcher` | dispatcher and FIFO lanes; `DispSpec` puts them under arbitrary pins | one clock edge of all lanes |
| `OrderEntry` | harness, driver push, push register, buttons, over `OrderDispatcher` | one register access or clock edge |
| `MCOrderEntry` | CSV contents for TLC | |
| `TradePath` | engines' offers, aggregator, log, log registers, driver's log ioctls | one register access or clock edge |
| `Mmu`, `MCMmu` | `mmu.sv`, `HPTW.sv`, `arbiter.sv`, `mem_bank.sv`, all engines at once; programs for TLC | one clock edge |
| `SimHeap` | `sw_sim/heap.h`: array heaps | one call |
| `MemorySim` | `sw_sim/mmu.h`, `memory_sim.c` | insert, look for a trade, clean up |
| `NoMemorySim` | `sw_sim/no_memory_sim.c` | one order |
| `ScanChain` | the scan-chain manager and the firmware's accessors | one call, as an operator |
| `DqsEnable` | the search for the strobe enable | one step of the search, as an operator |
| `Centering` | the sweeps and the arithmetic of centring | one sweep or decision, as an operator |
| `Ddr3Device` | external: which commands a DDR3 device takes when | one command |
| `MemCalibrate`, `MCMemCalibrate` | the firmware from entry to report; boards for TLC | one function, or one round of a loop |
| `HeapProofs`, `EngineProofs`, `MmuProofs`, `DispatcherProofs`, `OrderEntryProofs`, `TradePathProofs`, `SimProofs`, `CalibrateProofs` | theorems and their lemmas | |

### How state and actions correspond to the code

*Heap.* Variables keep the names of the registers. An `S_x_ISSUE`/`S_x_WAIT`
pair is a state with a phase. `parent_idx`, `left_idx` and `right_idx` are
computed from `target_idx`; a cache slot and its valid bit are one value.
`MemIdx`/`MemWdata` are the memory-issue decode, `Wanted` the guards of the
ISSUE states, `ReadCached`, `IssuePriv`, `IssueVirt` their three exits,
`PrivDone`, `VirtDone`, `VirtRetry` the exits of the WAIT states, `Complete` the
datapath of a completed access. `MissingChild` is the early exit of the two
child reads; as in the code the read is driven all the same, so that `NoChild`
may leave it in flight behind it, and `LateAnswer` is its answer.

*Memory.* `page_table` and `bank` survive `MemoryReset`, as RAMs do; an
unmapped address is given the next slot by a read as well as by a write
(`HPTW.sv`). A slot that was never written holds `NoNode`: the type invariant
says that no such word ever gets into a register. Page and offset counters are
one counter, `alloc_ptr`; 15 x 64 is `Slots`.

*Engine.* One action per `T_x` state. A T_x_WAIT state and the heap's S_DONE
end at the same edge and in one step. `now` counts clock cycles from any start in
`Starts` and goes on by any gap in `Gaps` between two orders; an order is stamped
with `StampAt(now)`, the low bits of it (`TsSpan` for 2^32), and the ghost `arrival`
remembers the cycle in which a stamp was last given. The refinement of `OrderBook`
and `OldestFirst` are stated by cycle of arrival, not by stamp.

*Dispatcher.* `Clock` is one edge of the state register and of every lane;
`FifoNext` is the sequential block of `dispatch_fifo_bram`. The ghosts `written`
and `taken` are the sequences a lane stored and its engine took. An engine is
ready, or busy with an order it took.

*Order entry.* A host access sees the registers before the edge at which it
takes place. A push is one step to read STATUS and one to write PUSH; the word
reaches the FIFO an edge later. Time is not measured: a timeout may end a wait
at any of the places where the code looks at the clock, and only there. `seen`
says that a button was not pressed twice between two polls: the harness polls
every few milliseconds. KEY2 comes when the harness is ready for it, or, with
"KEY2" in `Rush`, at any time; likewise KEY1. KEY0 resets the board at any
moment of a session.

*Trade path.* An engine's part is: take an order, perhaps make trades, each
offered until it is taken, rest. A trade's number stands for its price and time.
`AvlNext` is the log part of the Avalon slave with its two-cycle read pipe. A
process goes through `hft_log_read_entry_hw` access by access. It may clear the log
at any moment, as the driver lets it: before a session, to recycle a full log, or in
the cycle in which a trade is handed over. The ghosts `given` (amounts of the trades
each engine handed over, as the engine had them) and `base` (how many of them a clear
wiped out) say what the log should hold.

*MMU.* Combinational signals are operators over the registers and keep the
signals' order of evaluation; `Clock` is one edge of every register. A virtual
address is engine, heap and index, a slot a visible page and a node. The offset
of 16 pages that `HPTW.sv` adds and `mem_bank.sv` takes off is left out. A node
is three equal words, so that a torn one shows. Each engine goes round a
`Program`, raising its next request when it likes (`raise`); a stray read, the
one `heap_fsm.sv` drives for a child that does not exist, may be withdrawn. What a
reset does to page table and slots is in `VirtualMemory`.

*Simulators.* A heap is a sequence with the comparator as operator; pages and
frames are as in the code. One order goes through insert, look for a trade and
clean-up, in a loop until no trade is found (`memory_sim.c`) or once
(`no_memory_sim.c`). The clock `now` is in nanoseconds and goes on by any gap in
`Gaps` between two orders; `timestamp` is `now` modulo `Second`, and
the ghost field `ts` is `now` itself. Amounts are narrowed to a short where the code
stores them (`Short`). `files` counts the results file's open handles.

*Calibration.* The build is what `sequencer_defines.pre.h` selects: Cyclone V hard
PHY, one rank, as many read as write groups, debug off; branches that are not
compiled are left out. A setting goes through three places: the register file
(`pins`, shared by all groups, and `bus`), the chain that an ENA write shifts it into, and the latch that UPD loads
(`live`). The pins work with what is latched. What the hardware answers to a test
follows from a group's *eye*: the window of enable times on the VFIFO's ring
(`en`), the phases that cut a burst (`cut`), the offsets between data and strobe
at which each bit can be read, written and masked (`rd`, `wr`, `dm`), the strobe
delays that meet the clock (`ck`) and the latency (`lat`). An eye is chosen when
its group is first looked at and stays as it is: noise and drift during
calibration are not modelled. Constant data (the guaranteed write and read) is
read right unless the burst is cut or the write did not land. Registers hold
either zero or their largest value when the firmware starts.

## Runs

Passing runs, with deadlock checked in all of them:

| Run | Shows | Size |
|---|---|---|
| `heap` | the heap refines `PriorityQueue`; ordered, cache coherent, root cached, answers match, across a reset | 640,861 states |
| `engine` | the engine refines `OrderBook`; one heap at a time; updates land; uncrossed when idle; every order ends; the cycle counter starts again on the way | 574,111 |
| `mmu` | no request is lost, doubled or misdirected; no allocation collision; a read returns the last write, whole; only a full partition rejects; every request is served | 478,728 |
| `dispatcher` | FIFO order, room, DONE, stable offers; a dispatch ends | 8,052 |
| `entry` | pushes are stored, trade_done is complete, at most one order is lost to an early KEY2, a session ends or, reset at any moment, starts over | 10,714 |
| `log` | the log holds every trade handed over since it was last cleared, with its amount, also when it is full and stalls the engines; no engine waits for more than N - 1 trades of the others, and an offered trade is taken unless the log is full; two processes get the entries they asked for and give the mutex back, across a reset | 264,858 |
| `sim` | the golden model's books refine the same `OrderBook`; frames have one owner and pages fill in order; no page is given back with orders in it; every order is in a book, filled or rejected; it runs out of files only by one-sided books; orders with equal stamps and orders of different seconds meet | 1,287,164 |
| `cal` | what success promises holds of the latched settings; boards within the limits pass; enable, taps, eyes and latency are centred, right or safe; commands are legal; handoff is complete; the firmware reports | 53,901 |

An invariant called `...Inv` (`ControlInv`, `StorageInv`, `LogInv`, `ReadsInv`,
`BooksInv`, `SettingsInv`, `HandoffInv`, `RequestsInv`) is a conjunction of
named invariants of its module, usually with the type invariant, and is what the
run lists; the dispatcher's type invariant is proved and has no run. Every property has a mutant of a mapped definition, named
`<definition>_<change>`, that breaks it.

Runs that show where the code does something other than what it or its
documentation says; each finding quotes the line:

| Run | What happens |
|---|---|
| `heap_reject` | a push into a full partition is retried for ever, where the README has a hard reject |
| `heap_alias` | after a reset two nodes of a heap share a slot |
| `entry_uneven` | the write loop never ends when one file fills its FIFO and another does not |
| `sim_crossed` | the simulator without memory leaves a crossed book behind an order that fills two |

Six more claims of the documentation are stated in the models, beside the properties
that hold in their place. They are in no run; added to the run named, TLC refutes each
within seconds:

| Claim | Said in | Add it to | What the code does |
|---|---|---|---|
| `SymbolEngine!OldestFirst` | `README.md:30` | `engine` | `now_ts` (`HFT_SIM.sv:37-40`) counts 32 bits of clock cycles: once it has started again, a newer order is served before an older one of its price |
| `MemorySim!OldestFirst` | `README.md:30` | `sim` | `create_order` keeps the nanosecond within the second (`heap.h:45-47`): an order of the next second may be served before an older one of its price |
| `MemorySim!EmptyPagesRemoved` | `README.md:42` | `sim` | a trade that fills both orders gives one node back for two (`mmu.h:340-366`): a book that is empty keeps its page |
| `TradePath!EveryTradeStored` | `trade_log.sv:3-4` | `log` (a `PROPERTY`) | a trade handed over in the cycle of a clear is acknowledged and not stored (48, 61-70) |
| `TradePath!AmountKept` | `sys_def.svh:20` | `log`, with `Amounts = {5}` | a trade of 128 shares or more is logged with its amount modulo 128 (`trade_aggregator.sv:63`); the harness accepts 32767 (`HFT_harness.c:294`) |
| `MemCalibrate!FailingGroupNamed` | `sequencer.pre.c:593` | `cal` | a failure report names a pin (5292, 7408), or 255 (6207), where a group is asserted |

What holds of the first two is in `ImplementsOrderBook` (and, for every size,
`OldestOrderFirst`): the rule is kept among the orders of one turn of the counter, or of
one second.

More limits of the code are in the models: reads of
missing children allocate slots, so that a partition can be used up by a heap
that is smaller than it (`NoChild`); with "KEY1" in `Rush`, a reset followed by KEY1
between two polls goes unnoticed, and `PushesStored` and `TradeDoneComplete` fail. The
firmware keeps the first failure of a group although a later attempt may succeed; a
stale stage in the report takes an eye that changes between attempts, which the
models do not have. With the hardware's
parameters a bank queue never fills, since a bank serves two engines with one
request each: the arbiter's reject and the requeue path are dead there, and the
run makes queues of one entry to reach them.

### Bounds

* Heap: three private nodes instead of 64, so that all cached indices are
  private, as in the hardware, and the fourth node is virtual; 2 to 4 slots; two
  prices, so that ties occur; 5 to 9 nodes. Five nodes are enough for a sift over
  three levels in both tiers with left and right children, missing children and
  an exhausted partition (`heap`: nodes 3 and 4 use both slots, index 5 is a
  missing child that may steal one). UPDATE is given for every node.
* Engine: five orders of two prices and two amounts give cascades, exact and
  partial fills on both sides and a heap that reaches the virtual tier. A heap
  and the memory interleave in every way. The counter has eight values and starts
  at 5, so that it starts again after the second of five orders: there are orders of
  one turn and of two in every book. No stamp is given twice while its order is in the
  book (in the hardware that takes an order that rests for exactly a multiple of 2^32
  cycles).
* Dispatcher: two lanes of depth two: one lane can be full, draining, or empty
  while the other is in another state.
* Order entry: two lanes of depth two or three, and CSV files that fill them or
  fall short.
* Trades: two engines with two trades each; a log of two entries, which fills; two
  processes that read it and clear it at any time; one reset, after which there is a
  trade less for each engine. The amount is 3, the largest that the two bits of an
  entry (`AmtSpan` 4) hold. The poll limit of 1000 is 3, which is exactly what the
  read pipe needs.
* MMU: three engines, two banks (one of them, as it happens, shared by all three
  engines' bid heaps), queues of one entry, input FIFOs of two, partitions of two pages of one
  node. Two engines write and read back; the third fills its partition, has a
  stray read served and another rejected, and changes heaps. All patterns of
  cycles in which engines raise requests are covered. Fewer engines never fill a
  queue; more pages only lengthen the way to a full partition.
* Simulators: two symbols, two frames of two nodes, an overflow page of one, five
  orders: both limits of memory, the overflow page and hand-backs are reached and
  frames change owner. A second has four nanoseconds and orders are two apart:
  between the five of them two seconds pass, orders of one second meet, and so do
  orders of different seconds with equal stamps and in the wrong order.
* Calibration: two groups of two bits (of four of eight), a ring of four cycles
  (16), four phases (8), delays up to six (31), phases of four taps (12). The
  first group has one of two eyes, the second is swept through one family at a
  time: every position and eight lengths of the enable window; all pairs of read
  and of write eyes that begin within the delays' reach and are narrow or wide;
  mask, clock and latency. A second group is what it takes to disturb the first.
* `MaxTs`, `MaxOrders`, `MaxTrades`, `MaxResets` bound the behaviours by guards.

No symmetry is used.

### Fairness

The clock runs, so every enabled transition of a state machine is taken (weak
fairness of the step actions); the MMU answers what it accepted; an engine ends
its order (in `DispFairSpec` as an assumption on the environment, infinitely
often ready, which is `OrderCompletes` of the engine); a process inside an ioctl
is scheduled; the two seconds after which a push gives up do pass. Only `entry`
asks more: the operator presses KEY2 at some time when asked to (strong fairness
of that press alone). In `mmu` the clock runs (`ClockRuns`: an edge is possible in
every state and changes the parity `clk`, so this is weak fairness of `Next`). In
`cal` the firmware, one thread, takes steps until it has returned
(`KeepsRunning`, weak fairness of `Next` again, because deadlock is checked and
every step moves `pc`, a counter or the command queue). Liveness of the engine assumes that the log takes trades, which
`TradesLogged` shows for a log with room; a full log stalls the engines until it is
cleared, and the harness gives up after its timeout.

## Proofs

Every theorem holds for every value of the constants that the named `ASSUME`s of
the modules (TLC evaluates them in the runs) and the hypotheses below admit. Each
inductive invariant was checked by TLC on its run's constants before it was proved;
for the MMU that is 478,728 states, for the simulator 1,287,164.

| Module | Theorems | For every | Hypotheses |
|---|---|---|---|
| `HeapProofs` | `TypeSafety`, `CacheCoherence`, `RootIsCached`, `AnswersMatch` | size of the tiers (three private nodes or more), index width, kind, prices, number of commands and resets | none |
| | `HeapStaysOrdered`, `SlotsStayDistinct`, `RefinesUntilReset`, `HeapImplementsQueue` | the same | `SizesFit`; no reset so far (the last: `MaxResets = 0`) |
| `EngineProofs` | `EngineInControl` | size of the tiers, index and timestamp width, prices, amounts, number of orders | none |
| | `IdleBookUncrossed`, `OldestOrderFirst`, `EngineImplementsBook` | the same, and any gaps between orders | `EngineFits`, `StampsFresh` |
| `MmuProofs` | `RequestsAreKept`, `OnlyFullRejects`, `ReadsAreLastWrites` | number of engines, banks, pages, nodes; depths of the queues; programs | none |
| `DispatcherProofs` | `TypeSafety`, `WritesAlwaysFit`, `FirstInFirstOut`, `DoneIsComplete`, `OffersAreStable` | set of lanes, depth | none |
| `OrderEntryProofs` | `NoPushIsLost`, `TradeDoneIsComplete`, `HasteCostsAtMostOne` | number of lanes, depth, CSV contents | `Patient` |
| `TradePathProofs` | `LogIsComplete`, `NoEngineStarves`, `ReadersGetTheirEntry` | number of engines and processes, log depth, amounts | the last: `PollsAllowed` |
| `SimProofs` | `BooksConsistent`, `EveryOrderHasAPlace`, `NoEarlyExit`, `NoOrderLost` | finite set of symbols, page size, number of pages, overflow, prices, amounts, number of orders, limit of files | none |
| | `SimImplementsBook` | the same, and any gaps between orders | `AmountsFit` |
| `CalibrateProofs` | `BoardIsHandedOver` | board, number of groups and bits, width of the delay chains | none |

The hypotheses are the code's. `SizesFit`: more virtual addresses than slots (1024,
960) and indices for twice the nodes (2048 for 64 + 960); otherwise `make_va` and the
child indices are truncated. `EngineFits` is the same for an engine's two heaps.
`StampsFresh`: an order that is about to be pushed has a stamp that no order in the
book has, that is, no order rests for exactly a multiple of 2^32 cycles; `now_ts` may
wrap any number of times. `OrderBook` orders two orders of one price by time only if
they came in the same turn of the counter (`Span`), and that is what `OldestOrderFirst`
says of the README's rule; between turns it fails (`OldestFirst`). Resets are excluded where the code breaks the claim: a
reset rewinds the allocator and keeps the page table (run `heap_alias`), and
`SlotsStayDistinct` says that there is no other way to an aliased slot. `Patient`:
KEY1 is pressed only when the harness waits for it, not within the poll period after
a reset that the harness has not noticed; otherwise the claims are false. `PollsAllowed`: the driver polls at least three times (1000 in the code), which
is what the read pipe takes. `AmountsFit`: the amounts of the input are not negative
once they are narrowed to a short. The simulator's clock goes on by any number of
nanoseconds but nought between two orders, as `CLOCK_MONOTONIC` does. Of orders of
different seconds, some with equal stamps, `OrderBook` lets either be first.

**Heap, registers.** The invariant adds to the properties what each step needs of the
one before: every virtual index of the heap is mapped to a slot that was written
(`NodesWritten`; mappings and contents survive reset, so this does too), reads stay
inside the heap (`ReadsInRange`), the port holds only this heap's requests
(`PortInv`), a write in its second cycle has arrived in the BRAM (`WritePending`), and
the cache is cold at index 0 only during a sift from the root or in an empty heap
(`RootInv`). Hence UPDATE is never dropped for a cold cache and `S_POP_RD_ROOT` is
unreachable.

**Heap, order.** `At` is the heap with the node in the air put into the hole. Except
around the hole (`Settled`) it is ordered (`OrderInv`), and so are the hole's parent
and children, which is what lets the hole move; the operands of a comparison are the
nodes they were read from (`OperandInv`); timestamps are distinct (`KeysInv`), so that
the comparator decides; slots are distinct (`SlotInv`), so that a write changes one
node, and by the pigeon-hole principle the heap never outgrows its tiers. That the
root precedes all nodes follows from a least counterexample, by the well-foundedness
of the naturals. The refinement maps every step to a stutter but those that take a
command, make it take effect, or return, since moving the hole keeps the set of nodes
in `At`. The step lemmas are stated for any use of a heap: a push with a new
timestamp, an update of the root, a port on which another heap may have its turn.
`HeapSpec`'s commands are one such use, the engine's two heaps are two more.

**Engine.** The heap lemmas are instantiated for the bid heap and the ask heap. What
they ask of the user is the engine's own invariant (`EInv`): a heap is at work only in
the controller's states that wait for it (`TurnInv`), so that neither gets the other's
answers; it works on the command the controller gave it (`CommandInv`); a root that was
peeked is still the cached root when the trade decided on it pops or updates it
(`SnapInv`); the latched partial-fill flags agree with the two amounts (`LatchInv`).
`TimeInv` says that a stamp in the book is that of the cycle `arrival` gives, so that
by stamp and by arrival the orders of one turn have the same order. A trade takes
effect in `OrderBook` when it is decided, and in the heaps later and one after the other,
so `BookInv` follows it through the controller's states: a root leads its heap until its
pop or update has its effect (`LeadInv`); from then on that heap is what the abstract
book has already (`DoneInv`); and the book is uncrossed when an order is taken and until
it is in its heap (`QuietInv`). The refinement reads each step off these.

**MMU.** `RoomInv`: an input FIFO keeps a place for the request of a busy walker,
which may come back. `BankInv`: a bank has one access at a time and its answer buffer
is free when it is through, so that the head of the tracking FIFO is whom the answer
is for. `KeptInv` and `SameInv`: a request that was taken is in exactly one place, and
is there the request its engine waits for; hence both walkers never work for the same
engine, which excludes an allocator collision and keeps a page table word that was
read a cycle ago true (`WalkInv`). `SlotInv`: slots are handed out in order, once, and
local addresses of different slots differ. `QueueInv`, `ReadInv`, `RamInv`: what is
queued for a bank has the slot of its key, a read has collected the last write's words
up to its phase, a slot holds the last write of its key, except for the words of a
write in progress.

**Dispatcher.** Lane by lane, where each written word is: the
first `Len(taken)` were taken, then at most one is in the output register, the others
are in the RAM between `rd_ptr` and `wr_ptr`; outside DISPATCH nothing was read.
**Order entry** rests on that invariant: a word in the push register has room and is
the only one that can be lost, and only to an early KEY2 (`PushInv`, `LossInv`).
**Trade path.** `TurnInv`: what an engine has waited plus its distance from the
pointer is below the number of engines; `BaseInv` and
`MadeInv`: a clear covers trades that were handed over, and a trade's number is its
place among them; `ClearInv`: nobody is in the middle of a read in the cycle of a
clear; `EntryInv`: where the entry asked for is, from the RAM to the shadow
register, and that enough polls are left to see it.

**Simulator.** The sifts of `SimHeap` and the sum in `OrdersAccounted` are recursive
functions. Each is a loop with a measure that goes down: that such a function exists,
and that what every round keeps holds of the result, is proved once for all loops
(`LoopExists`, `LoopInvariant`), from the least measure at which it would fail. Hence
a sift permutes the heap, ends ordered, and changes nothing else. `SimInv` adds to the
properties what they need between the steps of one order: symbols have one book each
and their identifiers stay (`OneBook`), the charge is the nodes and one for each
trade that filled both orders, and one more while a trade waits for its clean-up
(`ChargeInv`), and an order leaves a file open once at most
and not before its matching is over (`FilesInv`). Orders keep the low part of the
times they came at, and those differ (`TimeInv`), the root is a best order,
and only the book being matched may be crossed (`QuietInv`), which gives the refinement
of `OrderBook`. `AccountInv` sums over the symbols in any order, one book at a time.

**Calibration.** `BoardInv` follows who drives the memory (`MasterInv`) and which
commands are still queued, with what the device has been told so far at each length of
the queue (`QueueInv`). What searches and sweeps compute stays unexpanded, so the
handoff holds whatever the tests answer, on a board that cannot be calibrated too.

Only model-checked:

* liveness (`RequestsServed`, `OrderCompletes`, `TradesLogged` and the like): out of
  the prover's reach;
* of the calibration `SettingsInv`, `StatusTruthful` and `GoodBoardPasses`:
  they rest on what the searches and sweeps compute from a board's
  eyes, recursions over taps and phases with modular arithmetic in every round, and
  hold for the boards of `MCMemCalibrate`, which have eyes of contiguous windows.

## Not modelled

The display, the pin glue, `hex7seg`, the generated SoC system (with its copies
of these modules), metastability and the synchronisers' extra cycles, printing
and files of the harness, kernel module boilerplate, the test benches. Of the
simulators: cycle counts and reports, and the expiry of orders, whose condition
is never true. Of the calibration: everything `sequencer_defines.pre.h` switches
off (write levelling, skipping, full test, several ranks and shadow registers,
non-destructive calibration, the debugger's commands and `tclrpt.pre.c`), the
words of the RW manager's programs, `set_rank_and_odt_mask` with one rank, and the
analogue side beyond the eyes.

## Plan

1. *Done*: heap, memory as the engine sees it, engine, dispatcher, order entry,
   trade path; refinement of `PriorityQueue` and `OrderBook`; the proofs above.
2. *Done*: the MMU cycle by cycle, both simulators, the calibration firmware.
3. *Done*: proofs of heap order and of the refinement of `PriorityQueue`, of the
   engine and its refinement of `OrderBook`, of the MMU, order entry, trade path, the
   simulator with memory and its refinement of `OrderBook`, and the handoff of the
   calibration.
4. `HftSim`: dispatcher, abstract order books, aggregator and log in one module;
   `trade_done` means that the log holds every trade.
