--------------------------- MODULE OrderDispatcher ---------------------------
(***************************************************************************)
(* order_dispatcher.sv and its lanes (dispatch_fifo_bram.sv): orders are   *)
(* written into one FIFO per symbol, then dispatched to the symbols'       *)
(* engines until every FIFO is empty.                                      *)
(*                                                                         *)
(* The hardware is synchronous: one step is one clock edge of the          *)
(* dispatcher and all its FIFOs.  A one-bit register of a FIFO is 0 or 1.  *)
(* An engine is ready until it takes an order and again when it is done    *)
(* with it.                                                                *)
(***************************************************************************)
EXTENDS Integers, Sequences

CONSTANTS
  Lanes,     \* one lane per symbol (8)
  Orders,    \* the order words
  NoOrder,   \* the contents of a cleared register
  Depth      \* FIFO_SZ (1210)

ASSUME DispatcherAssumption ==
  /\ Depth \in Nat \ {0}
  /\ NoOrder \notin Orders

VARIABLES
  state,     \* DISPATCH_STATE
  fifo,      \* the registers of each lane's dispatch_fifo_bram
  busy,      \* lanes whose engine is not ready
  written,   \* ghost: what each lane stored since it was cleared
  taken      \* ghost: what each lane's engine took since then

dispVars == <<state, fifo, busy, written, taken>>

Words == Orders \cup {NoOrder}

ClearedFifo(mem) ==
  [mem |-> mem, wr_ptr |-> 0, rd_ptr |-> 0, mem_count |-> 0,
   rd_pending |-> 0, out_valid |-> 0, out_data |-> NoOrder]

DispInit ==
  /\ state = "IDLE"
  /\ fifo = [s \in Lanes |-> ClearedFifo([i \in 0 .. Depth - 1 |-> NoOrder])]
  /\ busy = {}
  /\ written = [s \in Lanes |-> <<>>]
  /\ taken = [s \in Lanes |-> <<>>]

-----------------------------------------------------------------------------
(* dispatch_fifo_bram.                                                      *)

Occupancy(f) == f.mem_count + f.out_valid + f.rd_pending
Empty(f) == Occupancy(f) = 0
Full(f)  == Occupancy(f) = Depth

DoWrite(f, wr_en) == wr_en /\ ~Full(f)
DoConsume(f, dispatch_en, out_ready) == dispatch_en /\ f.out_valid = 1 /\ out_ready

\* Mutant: a read is launched though the output register still holds a word
\* the engine has not taken.
DoLaunchRead_OverOutput(f, dispatch_en, out_ready) ==
  dispatch_en /\ f.rd_pending = 0 /\ f.mem_count # 0

\* Mutant: the last word stays in the RAM.
DoLaunchRead_NotLast(f, dispatch_en, out_ready) ==
  /\ dispatch_en /\ f.rd_pending = 0 /\ f.mem_count > 1
  /\ f.out_valid = 0 \/ out_ready

DoLaunchRead(f, dispatch_en, out_ready) ==
  /\ dispatch_en /\ f.rd_pending = 0 /\ f.mem_count # 0
  /\ f.out_valid = 0 \/ out_ready

\* One clock edge of a lane.  The pointers are not reduced modulo Depth: they
\* only start again at a clear (see WritesFit).
FifoNext(f, wr_en, wr_data, dispatch_en, out_ready) ==
  LET w == DoWrite(f, wr_en)
      l == DoLaunchRead(f, dispatch_en, out_ready)
      c == DoConsume(f, dispatch_en, out_ready)
  IN  [mem        |-> IF w THEN [f.mem EXCEPT ![f.wr_ptr] = wr_data] ELSE f.mem,
       wr_ptr     |-> IF w THEN f.wr_ptr + 1 ELSE f.wr_ptr,
       rd_ptr     |-> IF l THEN f.rd_ptr + 1 ELSE f.rd_ptr,
       mem_count  |-> (f.mem_count + (IF w THEN 1 ELSE 0)) - (IF l THEN 1 ELSE 0),
       rd_pending |-> IF l THEN 1 ELSE 0,
       out_valid  |-> IF c THEN 0 ELSE IF f.rd_pending = 1 THEN 1 ELSE f.out_valid,
       out_data   |-> IF l THEN f.mem[f.rd_ptr] ELSE f.out_data]

-----------------------------------------------------------------------------
(* order_dispatcher.                                                        *)

AllEmpty == \A s \in Lanes : Empty(fifo[s])

\* Mutant: the phase ends when the RAMs are empty.
NextState_RamEmpty(begin_write, begin_dispatch, clear_done) ==
  CASE state = "IDLE"     -> IF begin_write THEN "WRITE" ELSE "IDLE"
    [] state = "WRITE"    -> IF begin_dispatch THEN "DISPATCH" ELSE "WRITE"
    [] state = "DISPATCH" -> IF \A s \in Lanes : fifo[s].mem_count = 0
                             THEN "DONE" ELSE "DISPATCH"
    [] state = "DONE"     -> IF clear_done THEN "IDLE" ELSE "DONE"

\* Mutant: a new session may begin without clearing the lanes.
NextState_NoClear(begin_write, begin_dispatch, clear_done) ==
  CASE state = "IDLE"     -> IF begin_write THEN "WRITE" ELSE "IDLE"
    [] state = "WRITE"    -> IF begin_dispatch THEN "DISPATCH" ELSE "WRITE"
    [] state = "DISPATCH" -> IF AllEmpty THEN "DONE" ELSE "DISPATCH"
    [] state = "DONE"     -> IF begin_write THEN "WRITE"
                             ELSE IF clear_done THEN "IDLE" ELSE "DONE"

NextState(begin_write, begin_dispatch, clear_done) ==
  CASE state = "IDLE"     -> IF begin_write THEN "WRITE" ELSE "IDLE"
    [] state = "WRITE"    -> IF begin_dispatch THEN "DISPATCH" ELSE "WRITE"
    [] state = "DISPATCH" -> IF AllEmpty THEN "DONE" ELSE "DISPATCH"
    [] state = "DONE"     -> IF clear_done THEN "IDLE" ELSE "DONE"

\* sw_wr_ready, order_out_valid and the handshake with the engines.
WrReady(s)  == state = "WRITE" /\ ~Full(fifo[s])
OutValid(s) == state = "DISPATCH" /\ fifo[s].out_valid = 1
Takes(s)    == OutValid(s) /\ s \notin busy

\* Lanes whose FIFO stores a word at this edge; a FIFO that is cleared stores none.
Stores(wr_en) == {s \in Lanes : state = "WRITE" /\ s \in wr_en /\ ~Full(fifo[s])}

\* One clock edge.  wr_en are the lanes with a write request, wr_data their
\* words; the engines in finished end their order.
Clock(begin_write, begin_dispatch, clear_done, wr_en, wr_data, finished) ==
  /\ state' = NextState(begin_write, begin_dispatch, clear_done)
  /\ IF state = "DONE" /\ clear_done
     THEN /\ fifo' = [s \in Lanes |-> ClearedFifo(fifo[s].mem)]
          /\ written' = [s \in Lanes |-> <<>>]
          /\ taken' = [s \in Lanes |-> <<>>]
     ELSE /\ fifo' = [s \in Lanes |->
               FifoNext(fifo[s], state = "WRITE" /\ s \in wr_en, wr_data[s],
                        state = "DISPATCH", state = "DISPATCH" /\ s \notin busy)]
          /\ written' = [s \in Lanes |->
               IF s \in Stores(wr_en) THEN Append(written[s], wr_data[s]) ELSE written[s]]
          /\ taken' = [s \in Lanes |->
               IF Takes(s) THEN Append(taken[s], fifo[s].out_data) ELSE taken[s]]
  /\ busy' = (busy \ finished) \cup {s \in Lanes : Takes(s)}

\* rst_n (KEY0): everything but the RAMs.
DispReset ==
  /\ state' = "IDLE"
  /\ fifo' = [s \in Lanes |-> ClearedFifo(fifo[s].mem)]
  /\ busy' = {}
  /\ written' = [s \in Lanes |-> <<>>]
  /\ taken' = [s \in Lanes |-> <<>>]

-----------------------------------------------------------------------------
(* The dispatcher on its own, under every input its pins allow: any pulses, *)
(* any write requests, in any state and any cycle.                          *)

\* A clock edge at which the engines in finished end their orders.
PinEdge(finished) ==
  \E begin_write, begin_dispatch, clear_done \in {0, 1},
     wr_en \in SUBSET Lanes, wr_data \in [Lanes -> Orders] :
    Clock(begin_write = 1, begin_dispatch = 1, clear_done = 1, wr_en, wr_data, finished)

DispNext == DispReset \/ \E finished \in SUBSET busy : PinEdge(finished)

DispSpec == DispInit /\ [][DispNext]_dispVars

\* The clock runs, and not every edge brings an input; an engine that has taken
\* an order is ready again in the end (OrderCompletes of SymbolEngine).
QuietEdge == Clock(FALSE, FALSE, FALSE, {}, [s \in Lanes |-> NoOrder], {})
DispFairSpec == DispSpec /\ WF_dispVars(QuietEdge) /\ \A s \in Lanes : []<>(s \notin busy)

-----------------------------------------------------------------------------
(* Properties.                                                              *)

\* The registers keep their types; no counter leaves 0 .. Depth.
DispTypeOK ==
  /\ state \in {"IDLE", "WRITE", "DISPATCH", "DONE"}
  /\ fifo \in [Lanes -> [mem : [0 .. Depth - 1 -> Words],
                         wr_ptr : 0 .. Depth, rd_ptr : 0 .. Depth,
                         mem_count : 0 .. Depth,
                         rd_pending : {0, 1}, out_valid : {0, 1},
                         out_data : Words]]
  /\ busy \subseteq Lanes
  /\ written \in [Lanes -> Seq(Orders)] /\ taken \in [Lanes -> Seq(Words)]

\* A lane that takes a write has room behind wr_ptr, though the pointer is
\* never reduced modulo Depth and "full" only counts what is still queued:
\* the phases never let a lane be written after it was read.
WritesFit == \A s \in Lanes : WrReady(s) => fifo[s].wr_ptr < Depth

\* Each engine gets the orders of its lane in the order they were written,
\* none skipped, doubled or made up by the prefetch from the RAM.
TakenInOrder ==
  \A s \in Lanes :
    /\ Len(taken[s]) <= Len(written[s])
    /\ \A i \in 1 .. Len(taken[s]) : taken[s][i] = written[s][i]

\* DONE, on which the harness starts to read the log, means that every order
\* of every lane was taken, words in the prefetch registers included.
DoneMeansDispatched == state = "DONE" => taken = written

\* An order offered to an engine that is not ready stays as it is.
OfferStable ==
  [][\A s \in Lanes : OutValid(s) /\ s \in busy /\ state' # "IDLE"
       => OutValid(s)' /\ fifo'[s].out_data = fifo[s].out_data]_dispVars

\* A dispatch ends: no lane is left waiting on its prefetch for ever.
DispatchEnds == state = "DISPATCH" ~> state # "DISPATCH"
=============================================================================
