-------------------------------- MODULE Mmu --------------------------------
(***************************************************************************)
(* The shared memory tier cycle by cycle: mmu.sv (request arbitration, two *)
(* input FIFOs, slot allocator, page table, routing of answers), its two   *)
(* walkers HPTW.sv, arbiter.sv and the banks mem_bank.sv.  VirtualMemory   *)
(* is what one engine sees of it.                                          *)
(*                                                                         *)
(* Combinational signals are operators over the registers; Clock is one    *)
(* rising edge of all of them.  A virtual address is an engine, a heap     *)
(* kind and an index; a slot is a visible page and a node in it.           *)
(*                                                                         *)
(* The engines are the environment: each goes round its Program, one       *)
(* request at a time (the port mux of symbol_engine.sv), raising it when   *)
(* it likes and holding it until it is taken, except for a stray read of a *)
(* missing child, which heap_fsm.sv may withdraw.                          *)
(***************************************************************************)
EXTENDS Integers, Sequences, FiniteSets

CONSTANTS
  NumEngines,         \* 8
  InDepth,            \* entries of an input FIFO (8)
  BankDepth,          \* entries of a bank queue (4)
  TrackDepth,         \* entries of a tracking FIFO (8)
  NumBanks,           \* 4
  PagesPerPartition,  \* 15
  NodesPerPage,       \* 64
  PagesPerBank,       \* 60
  Program             \* engine -> its requests [k, idx, wr, data, stray]

Engines == 0 .. NumEngines - 1
Walkers == {0, 1}
Banks == 0 .. NumBanks - 1
Partitions == 0 .. 2 * NumEngines - 1
Words == 0 .. 2

Steps == [k : {0, 1}, idx : Nat, wr : BOOLEAN, data : Nat, stray : BOOLEAN]

ASSUME MmuAssumption ==
  /\ NumEngines \in Nat \ {0} /\ InDepth \in Nat \ {0, 1} /\ BankDepth \in Nat \ {0}
  /\ TrackDepth \in Nat \ {0} /\ NumBanks \in Nat \ {0} /\ PagesPerBank \in Nat \ {0}
  /\ PagesPerPartition \in Nat \ {0} /\ NodesPerPage \in Nat \ {0}
  /\ NumBanks * PagesPerBank >= 2 * NumEngines * PagesPerPartition
  /\ Program \in [Engines -> Seq(Steps)]
  /\ \A e \in Engines : Len(Program[e]) > 0

VARIABLES
  port,        \* engine: "idle", "req" (asking) or "wait" (taken, not answered)
  ip,          \* where in its Program it is
  rr_pointer,  \* first engine looked at
  fifo_in,     \* input FIFO of each walker
  ptw,         \* walker: state, piped request, page table word, slot
  next_slot,   \* allocator of each partition: page_off, node_off, full
  page_table,  \* <<engine, kind, index>> -> slot, for valid entries
  rr_priority, \* walker preferred at a nearly full bank queue
  bank_fifo,   \* queue of each bank
  va_fifo,     \* tracking FIFO: engines whose access the bank has
  bank,        \* bank: state, latched access, words read, output registers
  ram,         \* contents: bank -> <<page, node>> -> three words
  resp_buf,    \* answer of each bank: valid, engine, data
  written,     \* ghost: what each engine last wrote, by answered requests
  clk          \* parity of the cycle

vars == <<port, ip, rr_pointer, fifo_in, ptw, next_slot, page_table, rr_priority,
          bank_fifo, va_fifo, bank, ram, resp_buf, written, clk>>

Request(e) ==
  LET p == Program[e][ip[e]]
  IN  [key |-> <<e, p.k, p.idx>>, wr |-> p.wr, data |-> p.data]

Keys == UNION {{<<e, Program[e][i].k, Program[e][i].idx>> : i \in 1 .. Len(Program[e])} : e \in Engines}
NoRequest == [key |-> << >>, wr |-> FALSE, data |-> 0]
NoSlot == << >>

IdleWalker == [st |-> "IDLE", req |-> NoRequest, rdata |-> NoSlot, pa |-> NoSlot]
IdleBank == [st |-> "IDLE", wr |-> FALSE, at |-> NoSlot, data |-> 0, read |-> << >>,
             valid |-> FALSE, wdone |-> FALSE, rdata |-> << >>]
NoAnswer == [valid |-> FALSE, e |-> 0, data |-> << >>]

\* The registers as reset leaves them, the RAMs as configuration does.  What a
\* later reset does to the page table and the slots is in VirtualMemory.
Init ==
  /\ port = [e \in Engines |-> "idle"]
  /\ ip = [e \in Engines |-> 1]
  /\ rr_pointer = 0
  /\ fifo_in = [w \in Walkers |-> << >>]
  /\ ptw = [w \in Walkers |-> IdleWalker]
  /\ next_slot = [p \in Partitions |-> [page |-> 0, node |-> 0, full |-> FALSE]]
  /\ rr_priority = 0
  /\ bank_fifo = [b \in Banks |-> << >>]
  /\ va_fifo = [b \in Banks |-> << >>]
  /\ bank = [b \in Banks |-> IdleBank]
  /\ resp_buf = [b \in Banks |-> NoAnswer]
  /\ page_table = << >>
  /\ ram = [b \in Banks |-> [a \in (0 .. PagesPerBank - 1) \X (0 .. NodesPerPage - 1) |->
              [w \in Words |-> 0]]]
  /\ written = [k \in Keys |-> 0]
  /\ clk = 0

-----------------------------------------------------------------------------
(* Allocator and walkers.                                                   *)

Partition(key) == 2 * key[1] + key[2]

\* Mutant: the last page is never used.
AllocAvail_Early(w) == next_slot[Partition(ptw[w].req.key)].page < PagesPerPartition - 1

AllocAvail(w) == ~ next_slot[Partition(ptw[w].req.key)].full

\* partition_base plus the offsets.
AllocSlot(w) ==
  LET p == Partition(ptw[w].req.key)
  IN  <<p * PagesPerPartition + next_slot[p].page, next_slot[p].node>>

Alloc(w) == ptw[w].st = "ALLOCATE" /\ AllocAvail(w)

SameAllocCollision ==
  Alloc(0) /\ Alloc(1) /\ Partition(ptw[0].req.key) = Partition(ptw[1].req.key)

\* Walker 1 loses a collision.
Loses(w) == w = 1 /\ SameAllocCollision

AllocEff(w) == Alloc(w) /\ ~ Loses(w)

\* Mutant: the page stays when its nodes are used up.
Advance_SamePage(s) ==
  IF s.node < NodesPerPage - 1 THEN [s EXCEPT !.node = @ + 1]
  ELSE [s EXCEPT !.node = 0, !.full = (s.page = PagesPerPartition - 1)]

Advance(s) ==
  IF s.node < NodesPerPage - 1 THEN [s EXCEPT !.node = @ + 1]
  ELSE IF s.page = PagesPerPartition - 1 THEN [s EXCEPT !.node = 0, !.full = TRUE]
  ELSE [s EXCEPT !.node = 0, !.page = @ + 1]

NextSlots ==
  [p \in Partitions |->
     IF \E w \in Walkers : AllocEff(w) /\ Partition(ptw[w].req.key) = p
     THEN Advance(next_slot[p]) ELSE next_slot[p]]

NewMappings == {w \in Walkers : AllocEff(w)}

PageTableNext ==
  [k \in DOMAIN page_table \cup {ptw[w].req.key : w \in NewMappings} |->
     IF \E w \in NewMappings : ptw[w].req.key = k
     THEN AllocSlot(CHOOSE w \in NewMappings : ptw[w].req.key = k)
     ELSE page_table[k]]

\* Mutant: a FIFO with one entry counts as empty.
Pop_NotLast(w) == Len(fifo_in[w]) > 1 /\ ptw[w].st = "IDLE"

\* A walker takes the head of its FIFO when it is free.
Pop(w) == fifo_in[w] # << >> /\ ptw[w].st = "IDLE"

\* The page table is read at the edge at which the request is taken.
WalkerNext(w) ==
  LET t == ptw[w]
  IN  CASE Pop(w) ->
             LET r == Head(fifo_in[w])
             IN  [t EXCEPT !.st = "LOOKUP", !.req = r,
                           !.rdata = IF r.key \in DOMAIN page_table THEN page_table[r.key]
                                     ELSE NoSlot]
        [] t.st = "LOOKUP" ->
             IF t.rdata # NoSlot THEN [t EXCEPT !.st = "DONE", !.pa = t.rdata]
             ELSE [t EXCEPT !.st = "ALLOCATE"]
        [] t.st = "ALLOCATE" ->
             IF AllocAvail(w) THEN [t EXCEPT !.st = "DONE", !.pa = AllocSlot(w)]
             ELSE [t EXCEPT !.st = "FAULT"]
        [] t.st \in {"DONE", "FAULT"} -> IdleWalker
        [] OTHER -> t

PaValid(w) == ptw[w].st = "DONE" /\ ~ Loses(w)

Fault(w) == ptw[w].st = "FAULT" \/ Loses(w)

-----------------------------------------------------------------------------
(* The arbiter in front of the banks.                                       *)

BankId(w) == LET b == ptw[w].pa[1] \div PagesPerBank
             IN  IF b < NumBanks THEN b ELSE NumBanks - 1

SameBankCollision == PaValid(0) /\ PaValid(1) /\ BankId(0) = BankId(1)

BankFull(b) == Len(bank_fifo[b]) = BankDepth

AlmostFull(b) == Len(bank_fifo[b]) = BankDepth - 1

CanEnqueue(w) ==
  /\ PaValid(w)
  /\ ~ BankFull(BankId(w))
  /\ SameBankCollision /\ AlmostFull(BankId(w)) => rr_priority = w

PriorityNext ==
  IF SameBankCollision /\ AlmostFull(BankId(0)) THEN 1 - rr_priority ELSE rr_priority

Rejected(w) == PaValid(w) /\ ~ CanEnqueue(w)

Dispatch(b) ==
  /\ bank_fifo[b] # << >> /\ bank[b].st = "IDLE"
  /\ ~ resp_buf[b].valid /\ Len(va_fifo[b]) < TrackDepth

\* dual_write_fifo: walker 0's entry first; what does not fit is dropped.
BankFifoNext(b) ==
  LET entry(w) == IF CanEnqueue(w) /\ BankId(w) = b
                  THEN <<[req |-> ptw[w].req, pa |-> ptw[w].pa]>> ELSE << >>
      both == entry(0) \o entry(1)
      room == BankDepth - Len(bank_fifo[b])
      kept == IF Dispatch(b) THEN Tail(bank_fifo[b]) ELSE bank_fifo[b]
  IN  kept \o SubSeq(both, 1, IF Len(both) > room THEN room ELSE Len(both))

-----------------------------------------------------------------------------
(* The banks, one word per phase, and the answers.                          *)

LocalSlot(b, pa) == <<pa[1] - b * PagesPerBank, pa[2]>>

Phase(st) == CASE st = "PHASE_0" -> 0 [] st = "PHASE_1" -> 1 [] st = "PHASE_2" -> 2

InPhase(b) == bank[b].st \in {"PHASE_0", "PHASE_1", "PHASE_2"}

AfterPhase(s) ==
  CASE s.st = "PHASE_0" -> "PHASE_1"
    [] s.st = "PHASE_1" -> "PHASE_2"
    [] s.st = "PHASE_2" -> IF s.wr THEN "IDLE" ELSE "DONE_READ"

BankNext(b) ==
  LET s   == bank[b]
      out == [s EXCEPT !.valid = (s.st = "DONE_READ"),
                       !.wdone = (s.st = "PHASE_2" /\ s.wr),
                       !.rdata = IF s.st = "DONE_READ" THEN s.read ELSE << >>]
  IN  CASE Dispatch(b) ->
             LET h == Head(bank_fifo[b])
             IN  [out EXCEPT !.st = "PHASE_0", !.wr = h.req.wr, !.at = LocalSlot(b, h.pa),
                             !.data = h.req.data, !.read = << >>]
        [] InPhase(b) /\ ~ s.wr ->
             [out EXCEPT !.st = AfterPhase(s), !.read = Append(@, ram[b][s.at][Phase(s.st)])]
        [] InPhase(b) /\ s.wr -> [out EXCEPT !.st = AfterPhase(s)]
        [] OTHER -> [IdleBank EXCEPT !.valid = out.valid, !.wdone = out.wdone, !.rdata = out.rdata]

\* A node's words are equal here: a word that differs shows a torn node.
RamNext(b) ==
  IF InPhase(b) /\ bank[b].wr
  THEN [ram[b] EXCEPT ![bank[b].at][Phase(bank[b].st)] = bank[b].data]
  ELSE ram[b]

Completes(b) == bank[b].valid \/ bank[b].wdone

\* The answer is held for one cycle; one that comes while another is held is lost.
RespNext(b) ==
  IF Completes(b) /\ ~ resp_buf[b].valid
  THEN [valid |-> TRUE, e |-> IF va_fifo[b] = << >> THEN 0 ELSE Head(va_fifo[b]),
        data |-> IF bank[b].valid THEN bank[b].rdata ELSE << >>]
  ELSE NoAnswer

VaFifoNext(b) ==
  LET popped == IF Completes(b) /\ ~ resp_buf[b].valid /\ va_fifo[b] # << >>
                THEN Tail(va_fifo[b]) ELSE va_fifo[b]
  IN  IF Dispatch(b) THEN Append(popped, Head(bank_fifo[b]).req.key[1]) ELSE popped

RespValid(e) == \E b \in Banks : resp_buf[b].valid /\ resp_buf[b].e = e

RespReject(e) == \E w \in Walkers : Fault(w) /\ ptw[w].req.key[1] = e

-----------------------------------------------------------------------------
(* Request arbitration: up to two engines, one per input FIFO.              *)

Asking == {e \in Engines : port[e] = "req"}

NextFrom(r, S) == CHOOSE e \in S : \A f \in S : (e - r) % NumEngines <= (f - r) % NumEngines

First == NextFrom(rr_pointer, Asking)

Second == NextFrom(rr_pointer, Asking \ {First})

\* The shorter FIFO gets the first winner.
FirstTo == IF Len(fifo_in[1]) < Len(fifo_in[0]) THEN 1 ELSE 0

\* Mutant: a request that comes back does not keep new ones out.
HasSpace_NoRequeue(q) == Len(fifo_in[q]) < InDepth - 1

\* One place is kept for a request that comes back; such a request goes first.
HasSpace(q) == Len(fifo_in[q]) < InDepth - 1 /\ ~ Rejected(q)

AcceptFirst == Asking # {} /\ HasSpace(FirstTo)

AcceptSecond == Cardinality(Asking) > 1 /\ HasSpace(1 - FirstTo) /\ AcceptFirst

Ready(e) == (AcceptFirst /\ e = First) \/ (AcceptSecond /\ e = Second)

PointerNext ==
  IF AcceptSecond THEN (Second + 1) % NumEngines
  ELSE IF AcceptFirst THEN (First + 1) % NumEngines ELSE rr_pointer

\* What is written to input FIFO q; a full one drops it.
FifoWrite(q) ==
  CASE Rejected(q) -> <<ptw[q].req>>
    [] ~ Rejected(q) /\ AcceptFirst /\ FirstTo = q -> <<Request(First)>>
    [] ~ Rejected(q) /\ AcceptSecond /\ FirstTo # q -> <<Request(Second)>>
    [] OTHER -> << >>

FifoNext(q) ==
  LET kept == IF Pop(q) THEN Tail(fifo_in[q]) ELSE fifo_in[q]
  IN  IF Len(fifo_in[q]) = InDepth THEN kept ELSE kept \o FifoWrite(q)

-----------------------------------------------------------------------------
(* The clock edge.  raise: the engines that ask in the next cycle; one that  *)
(* asked, was not taken and is not among them withdraws a stray read.        *)

Step(e) == (ip[e] % Len(Program[e])) + 1

Answered(e) == port[e] = "wait" /\ (RespValid(e) \/ RespReject(e))

\* A rejected access is tried again; nobody waits for the answer of a stray one.
Over(e) == RespValid(e) \/ Program[e][ip[e]].stray

PortNext(e, raise) ==
  CASE port[e] = "req" /\ Ready(e) -> "wait"
    [] port[e] = "wait" /\ ~ Answered(e) -> "wait"
    [] OTHER -> IF e \in raise THEN "req" ELSE "idle"

Clock(raise) ==
  /\ \A e \in Engines \ raise : port[e] = "req" /\ ~ Ready(e) => Program[e][ip[e]].stray
  /\ \A e \in raise : ~ (port[e] = "wait" /\ ~ Answered(e)) /\ ~ (port[e] = "req" /\ Ready(e))
  /\ port' = [e \in Engines |-> PortNext(e, raise)]
  /\ ip' = [e \in Engines |->
       IF \/ Answered(e) /\ Over(e)
          \/ port[e] = "req" /\ ~ Ready(e) /\ e \notin raise
       THEN Step(e) ELSE ip[e]]
  /\ written' = [k \in Keys |->
       LET e == k[1] IN
       IF Answered(e) /\ RespValid(e) /\ Request(e).wr /\ Request(e).key = k
       THEN Request(e).data ELSE written[k]]
  /\ rr_pointer' = PointerNext
  /\ fifo_in' = [w \in Walkers |-> FifoNext(w)]
  /\ ptw' = [w \in Walkers |-> WalkerNext(w)]
  /\ next_slot' = NextSlots
  /\ page_table' = PageTableNext
  /\ rr_priority' = PriorityNext
  /\ bank_fifo' = [b \in Banks |-> BankFifoNext(b)]
  /\ va_fifo' = [b \in Banks |-> VaFifoNext(b)]
  /\ bank' = [b \in Banks |-> BankNext(b)]
  /\ ram' = [b \in Banks |-> RamNext(b)]
  /\ resp_buf' = [b \in Banks |-> RespNext(b)]
  /\ clk' = 1 - clk

Next == \E raise \in SUBSET Engines : Clock(raise)

\* The clock runs: an edge is possible in every state, so this is weak fairness
\* of Next.
ClockRuns == []<>(clk = 0) /\ []<>(clk = 1)

Spec == Init /\ [][Next]_vars /\ ClockRuns

-----------------------------------------------------------------------------
(* Properties.                                                              *)

\* No queue holds more than it has room for, and every slot a walker computes
\* lies in its bank.
TypeOK ==
  /\ port \in [Engines -> {"idle", "req", "wait"}]
  /\ rr_pointer \in Engines /\ rr_priority \in Walkers
  /\ \A w \in Walkers : Len(fifo_in[w]) <= InDepth
  /\ \A b \in Banks : /\ Len(bank_fifo[b]) <= BankDepth
                      /\ Len(va_fifo[b]) <= TrackDepth
                      /\ bank[b].at # NoSlot => bank[b].at \in DOMAIN ram[b]
  /\ \A p \in Partitions : /\ next_slot[p].page \in 0 .. PagesPerPartition - 1
                           /\ next_slot[p].node \in 0 .. NodesPerPage - 1

\* Where the request of engine e is: in an input FIFO, a walker, a bank queue, a
\* bank or an answer buffer.
Places(e) ==
  LET at(stage, x, S) == {<<stage, x, i>> : i \in S}
  IN  (UNION {at("input", w, {i \in DOMAIN fifo_in[w] : fifo_in[w][i].key[1] = e})
                 : w \in Walkers})
      \cup at("walker", 0, {w \in Walkers : ptw[w].st # "IDLE" /\ ptw[w].req.key[1] = e})
      \cup (UNION {at("queue", b, {i \in DOMAIN bank_fifo[b] : bank_fifo[b][i].req.key[1] = e})
                      : b \in Banks})
      \cup (UNION {at("bank", b, {i \in DOMAIN va_fifo[b] : va_fifo[b][i] = e}) : b \in Banks})
      \cup at("answer", 0, {b \in Banks : resp_buf[b].valid /\ resp_buf[b].e = e})

\* A request that was taken is in exactly one place until it is answered, and none
\* is left behind for an engine that waits for nothing: the requeue of a rejected
\* one, the FIFOs at their limits, the untagged banks lose, double or misdirect
\* nothing.
RequestsKept ==
  \A e \in Engines : Cardinality(Places(e)) = IF port[e] = "wait" THEN 1 ELSE 0

\* With one request in flight per engine two walkers never allocate for the same
\* partition; the loser would be rejected and served as well.
NoAllocCollision == ~ SameAllocCollision

\* Queues keep within their room, requests are kept, and the case the allocator
\* cannot handle does not happen.
RequestsInv == TypeOK /\ RequestsKept /\ NoAllocCollision

\* An answer to a read is what the engine wrote there last, whole, whatever the
\* other engines do to the banks in between.
ReadsLastWrite ==
  \A b \in Banks : resp_buf[b].valid =>
    LET r == Request(resp_buf[b].e)
    IN  r.wr \/ resp_buf[b].data = [w \in 1 .. 3 |-> written[r.key]]

\* An access is rejected only when its partition has no slot left and it has none,
\* as VirtualMemory has it.
RejectedWhenFull ==
  \A w \in Walkers : Fault(w) =>
    next_slot[Partition(ptw[w].req.key)].full /\ ptw[w].req.key \notin DOMAIN page_table

\* Every request is taken and answered, although the arbiter may send it back to
\* the end of its FIFO each time: an engine is idle or answered again and again.
RequestsServed == \A e \in Engines : []<>(port[e] = "idle" \/ Answered(e))
=============================================================================
