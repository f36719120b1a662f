---------------------------- MODULE SymbolEngine -----------------------------
(***************************************************************************)
(* symbol_engine.sv: the trade controller of one symbol, its bid heap and  *)
(* its ask heap, their shared private BRAM and their shared MMU port.      *)
(*                                                                         *)
(* The controller gives one heap at a time a command in a T_x_ISSUE state  *)
(* and stands in T_x_WAIT until that heap is in S_DONE.  Both are one      *)
(* clock edge for the two machines and one step here.                      *)
(***************************************************************************)
EXTENDS Integers

CONSTANTS
  PrivateNodes, VaSpan, Slots, NoNode, IdxSpan,   \* see HeapFsm
  Prices, Amounts,  \* prices and amounts of the orders dispatched
  MaxOrders,        \* bound: orders dispatched in one behaviour
  TsSpan,           \* 2^32: the clock counter now_ts starts again after this
  Starts,           \* cycles the counter may have run before the orders come
  Gaps              \* cycles from one order of the engine to its next

ASSUME EngineAssumption ==
  /\ PrivateNodes \in Nat /\ VaSpan \in Nat \ {0} /\ Slots \in Nat
  /\ NoNode \notin [price : Nat, ts : Nat, amount : Nat]
  /\ IdxSpan \in Nat /\ IdxSpan > 2
  /\ PrivateNodes >= 3     \* the cached indices are private
  /\ Prices \subseteq Nat /\ Amounts \subseteq Nat
  /\ MaxOrders \in Nat /\ TsSpan \in Nat \ {0}
  /\ Starts \subseteq Nat /\ Gaps \subseteq Nat \ {0}

VARIABLES
  mmu_owner, mmu_req, page_table, alloc_ptr, bank,
  bid_state, bid_phase, bid_size, bid_target_idx, bid_cur_node,
  bid_parent_node, bid_left_node, bid_right_node, bid_has_right,
  bid_node_cache, bid_saved_op, bid_saved_op_data, bid_popped_root, bid_priv,
  ask_state, ask_phase, ask_size, ask_target_idx, ask_cur_node,
  ask_parent_node, ask_left_node, ask_right_node, ask_has_right,
  ask_node_cache, ask_saved_op, ask_saved_op_data, ask_popped_root, ask_priv,
  tstate,                                     \* controller state
  pending_order, pending_is_ask,              \* the order being entered
  bid_root_snap, ask_root_snap,               \* roots at the last peek
  trade_event_data, trade_event_pending,      \* the trade to emit
  latched_partial_bid, latched_partial_ask,   \* which side keeps a rest
  orders,                                     \* orders taken so far
  now,                                        \* clock cycle of the last order
  arrival                                     \* ghost: when a timestamp was given

Bid == INSTANCE HeapFsm WITH
  Kind <- "bid", state <- bid_state, phase <- bid_phase, size <- bid_size,
  target_idx <- bid_target_idx, cur_node <- bid_cur_node,
  parent_node <- bid_parent_node, left_node <- bid_left_node,
  right_node <- bid_right_node, has_right <- bid_has_right,
  node_cache <- bid_node_cache, saved_op <- bid_saved_op,
  saved_op_data <- bid_saved_op_data, popped_root <- bid_popped_root,
  priv <- bid_priv

Ask == INSTANCE HeapFsm WITH
  Kind <- "ask", state <- ask_state, phase <- ask_phase, size <- ask_size,
  target_idx <- ask_target_idx, cur_node <- ask_cur_node,
  parent_node <- ask_parent_node, left_node <- ask_left_node,
  right_node <- ask_right_node, has_right <- ask_has_right,
  node_cache <- ask_node_cache, saved_op <- ask_saved_op,
  saved_op_data <- ask_saved_op_data, popped_root <- ask_popped_root,
  priv <- ask_priv

memVars   == <<mmu_owner, mmu_req, page_table, alloc_ptr, bank>>
bidVars   == <<bid_state, bid_phase, bid_size, bid_target_idx, bid_cur_node,
               bid_parent_node, bid_left_node, bid_right_node, bid_has_right,
               bid_node_cache, bid_saved_op, bid_saved_op_data,
               bid_popped_root, bid_priv>>
askVars   == <<ask_state, ask_phase, ask_size, ask_target_idx, ask_cur_node,
               ask_parent_node, ask_left_node, ask_right_node, ask_has_right,
               ask_node_cache, ask_saved_op, ask_saved_op_data,
               ask_popped_root, ask_priv>>
heapsVars == <<memVars, bidVars, askVars>>
snapVars  == <<bid_root_snap, ask_root_snap>>
tradeVars == <<trade_event_data, trade_event_pending,
               latched_partial_bid, latched_partial_ask>>
orderVars == <<pending_order, pending_is_ask, orders, now, arrival>>
ctrlVars  == <<tstate, orderVars, snapVars, tradeVars>>
vars      == <<heapsVars, ctrlVars>>

TradeStates ==
  {"T_POP_BID_ISSUE", "T_POP_BID_WAIT", "T_POP_ASK_ISSUE", "T_POP_ASK_WAIT",
   "T_UPDATE_BID_ISSUE", "T_UPDATE_BID_WAIT", "T_UPDATE_ASK_ISSUE",
   "T_UPDATE_ASK_WAIT", "T_EMIT_TRADE"}
TStates ==
  {"T_IDLE", "T_PUSH_ISSUE", "T_PUSH_WAIT", "T_PEEK_BID_ISSUE", "T_PEEK_BID_WAIT",
   "T_PEEK_ASK_ISSUE", "T_PEEK_ASK_WAIT", "T_DECIDE"} \cup TradeStates

Init ==
  /\ Bid!HeapInit /\ Ask!HeapInit /\ Bid!MemoryInit
  /\ tstate = "T_IDLE"
  /\ pending_order = Bid!ZeroNode /\ pending_is_ask = FALSE
  /\ bid_root_snap = Bid!ZeroNode /\ ask_root_snap = Bid!ZeroNode
  /\ trade_event_data = Bid!ZeroNode /\ trade_event_pending = FALSE
  /\ latched_partial_bid = FALSE /\ latched_partial_ask = FALSE
  /\ orders = 0 /\ now \in Starts
  /\ arrival = [t \in 0 .. TsSpan - 1 |-> t]

-----------------------------------------------------------------------------
(* The two heaps at work.  The private BRAM has one port, which heap        *)
(* activity selects; see OneHeapAtATime.                                    *)

BidStep == Bid!Busy /\ UNCHANGED <<askVars, ctrlVars>>
AskStep == Ask!Busy /\ UNCHANGED <<bidVars, ctrlVars>>

\* A late answer is for the heap that owns the port and changes no heap.
MmuAnswer ==
  /\ Bid!LateAnswer \/ Ask!LateAnswer
  /\ UNCHANGED <<bidVars, askVars, ctrlVars>>

-----------------------------------------------------------------------------
(* The trade decision, on the snapped roots.                                *)

BothSides == bid_size > 0 /\ ask_size > 0
TradeMatch == BothSides /\ bid_root_snap.price >= ask_root_snap.price
PartialBidRemains == TradeMatch /\ bid_root_snap.amount > ask_root_snap.amount
PartialAskRemains == TradeMatch /\ ask_root_snap.amount > bid_root_snap.amount

\* Mutant: one round per order.
AfterRound_Idle == "T_IDLE"

AfterRound == IF BothSides THEN "T_PEEK_BID_ISSUE" ELSE "T_IDLE"

BidRest == [bid_root_snap EXCEPT !.amount = @ - ask_root_snap.amount]
AskRest == [ask_root_snap EXCEPT !.amount = @ - bid_root_snap.amount]

-----------------------------------------------------------------------------
(* The controller.                                                          *)

\* now_ts in a clock cycle.
StampAt(cycle) == cycle % TsSpan

\* A dispatched order becomes a node stamped with now_ts, which counts clock
\* cycles whether orders come or not.
TakeOrder ==
  /\ tstate = "T_IDLE" /\ orders < MaxOrders
  /\ \E gap \in Gaps : now' = now + gap
  /\ \E p \in Prices, q \in Amounts, is_ask \in BOOLEAN :
       /\ pending_order' = [price |-> p, ts |-> StampAt(now'), amount |-> q]
       /\ pending_is_ask' = is_ask
  /\ orders' = orders + 1
  /\ arrival' = [arrival EXCEPT ![StampAt(now')] = now']
  /\ tstate' = "T_PUSH_ISSUE"
  /\ UNCHANGED <<heapsVars, snapVars, tradeVars>>

PushIssue ==
  /\ tstate = "T_PUSH_ISSUE"
  /\ IF pending_is_ask THEN Ask!CmdPush(pending_order) /\ UNCHANGED bidVars
                       ELSE Bid!CmdPush(pending_order) /\ UNCHANGED askVars
  /\ tstate' = "T_PUSH_WAIT"
  /\ UNCHANGED <<memVars, orderVars, snapVars, tradeVars>>

PushWait ==
  /\ tstate = "T_PUSH_WAIT"
  /\ IF pending_is_ask THEN Ask!Done /\ UNCHANGED bidVars
                       ELSE Bid!Done /\ UNCHANGED askVars
  /\ tstate' = AfterRound
  /\ UNCHANGED <<memVars, orderVars, snapVars, tradeVars>>

PeekBidIssue ==
  /\ tstate = "T_PEEK_BID_ISSUE" /\ Bid!CmdPeek
  /\ tstate' = "T_PEEK_BID_WAIT"
  /\ UNCHANGED <<memVars, askVars, orderVars, snapVars, tradeVars>>

PeekBidWait ==
  /\ tstate = "T_PEEK_BID_WAIT" /\ Bid!Done
  /\ bid_root_snap' = Bid!RootOut
  /\ tstate' = "T_PEEK_ASK_ISSUE"
  /\ UNCHANGED <<memVars, askVars, orderVars, ask_root_snap, tradeVars>>

PeekAskIssue ==
  /\ tstate = "T_PEEK_ASK_ISSUE" /\ Ask!CmdPeek
  /\ tstate' = "T_PEEK_ASK_WAIT"
  /\ UNCHANGED <<memVars, bidVars, orderVars, snapVars, tradeVars>>

PeekAskWait ==
  /\ tstate = "T_PEEK_ASK_WAIT" /\ Ask!Done
  /\ ask_root_snap' = Ask!RootOut
  /\ tstate' = "T_DECIDE"
  /\ UNCHANGED <<memVars, bidVars, orderVars, bid_root_snap, tradeVars>>

\* Mutant: roots that do not match are looked at again.
Choice_LooksAgain ==
  CASE ~TradeMatch -> "T_PEEK_BID_ISSUE"
    [] PartialBidRemains -> "T_POP_ASK_ISSUE"
    [] OTHER -> "T_POP_BID_ISSUE"

\* Where T_DECIDE goes: the smaller root is popped first.
Choice ==
  CASE ~TradeMatch -> "T_IDLE"
    [] PartialBidRemains -> "T_POP_ASK_ISSUE"
    [] OTHER -> "T_POP_BID_ISSUE"

\* The trade carries the bid's price and time.
Decide ==
  /\ tstate = "T_DECIDE"
  /\ tstate' = Choice
  /\ IF TradeMatch
     THEN /\ trade_event_data' =
               [bid_root_snap EXCEPT !.amount =
                  IF @ < ask_root_snap.amount THEN @ ELSE ask_root_snap.amount]
          /\ trade_event_pending' = TRUE
          /\ latched_partial_bid' = PartialBidRemains
          /\ latched_partial_ask' = PartialAskRemains
     ELSE UNCHANGED tradeVars
  /\ UNCHANGED <<heapsVars, orderVars, snapVars>>

\* Mutant: the controller does not wait for the bid heap.
PopBidIssue_NoWait ==
  /\ tstate = "T_POP_BID_ISSUE" /\ Bid!CmdPop
  /\ tstate' = "T_POP_ASK_ISSUE"
  /\ UNCHANGED <<memVars, askVars, orderVars, snapVars, tradeVars>>

PopBidIssue ==
  /\ tstate = "T_POP_BID_ISSUE" /\ Bid!CmdPop
  /\ tstate' = "T_POP_BID_WAIT"
  /\ UNCHANGED <<memVars, askVars, orderVars, snapVars, tradeVars>>

PopBidWait ==
  /\ tstate = "T_POP_BID_WAIT" /\ Bid!Done
  /\ tstate' = IF latched_partial_ask THEN "T_UPDATE_ASK_ISSUE" ELSE "T_POP_ASK_ISSUE"
  /\ UNCHANGED <<memVars, askVars, orderVars, snapVars, tradeVars>>

PopAskIssue ==
  /\ tstate = "T_POP_ASK_ISSUE" /\ Ask!CmdPop
  /\ tstate' = "T_POP_ASK_WAIT"
  /\ UNCHANGED <<memVars, bidVars, orderVars, snapVars, tradeVars>>

\* Mutant: the decision is taken again after the pop, when the ask heap may
\* be empty and nothing matches any more.
PopAskWait_NotLatched ==
  /\ tstate = "T_POP_ASK_WAIT" /\ Ask!Done
  /\ tstate' = IF PartialBidRemains THEN "T_UPDATE_BID_ISSUE" ELSE "T_EMIT_TRADE"
  /\ UNCHANGED <<memVars, bidVars, orderVars, snapVars, tradeVars>>

PopAskWait ==
  /\ tstate = "T_POP_ASK_WAIT" /\ Ask!Done
  /\ tstate' = IF latched_partial_bid THEN "T_UPDATE_BID_ISSUE" ELSE "T_EMIT_TRADE"
  /\ UNCHANGED <<memVars, bidVars, orderVars, snapVars, tradeVars>>

UpdateBidIssue ==
  /\ tstate = "T_UPDATE_BID_ISSUE" /\ Bid!CmdUpdate(BidRest)
  /\ tstate' = "T_UPDATE_BID_WAIT"
  /\ UNCHANGED <<memVars, askVars, orderVars, snapVars, tradeVars>>

UpdateAskIssue ==
  /\ tstate = "T_UPDATE_ASK_ISSUE" /\ Ask!CmdUpdate(AskRest)
  /\ tstate' = "T_UPDATE_ASK_WAIT"
  /\ UNCHANGED <<memVars, bidVars, orderVars, snapVars, tradeVars>>

UpdateWait ==
  /\ \/ tstate = "T_UPDATE_BID_WAIT" /\ Bid!Done /\ UNCHANGED askVars
     \/ tstate = "T_UPDATE_ASK_WAIT" /\ Ask!Done /\ UNCHANGED bidVars
  /\ tstate' = "T_EMIT_TRADE"
  /\ UNCHANGED <<memVars, orderVars, snapVars, tradeVars>>

\* The trade is handed over when trade_out_ready is high.
EmitTrade ==
  /\ tstate = "T_EMIT_TRADE"
  /\ trade_event_pending' = FALSE
  /\ tstate' = AfterRound
  /\ UNCHANGED <<heapsVars, orderVars, snapVars, trade_event_data,
                 latched_partial_bid, latched_partial_ask>>

Control ==
  \/ PushIssue \/ PushWait \/ PeekBidIssue \/ PeekBidWait \/ PeekAskIssue
  \/ PeekAskWait \/ Decide \/ PopBidIssue \/ PopBidWait \/ PopAskIssue
  \/ PopAskWait \/ UpdateBidIssue \/ UpdateAskIssue \/ UpdateWait

\* Every order was entered and nothing is left to match.
Finished ==
  /\ tstate = "T_IDLE" /\ orders = MaxOrders /\ mmu_owner = "idle"
  /\ UNCHANGED vars

Next == TakeOrder \/ Control \/ EmitTrade \/ BidStep \/ AskStep \/ MmuAnswer \/ Finished

Spec == Init /\ [][Next]_vars

\* The clock runs, which moves the controller or a heap; the MMU answers, the
\* trade log takes trades.
Fairness ==
  WF_vars(Control \/ BidStep \/ AskStep) /\ WF_vars(MmuAnswer) /\ WF_vars(EmitTrade)

FairSpec == Spec /\ Fairness

-----------------------------------------------------------------------------
(* Properties.                                                              *)

\* Both heaps' registers and the port's are what their widths allow.
TypeOK ==
  /\ Bid!HeapTypeOK /\ Ask!HeapTypeOK /\ Bid!MemoryTypeOK
  /\ tstate \in TStates
  /\ pending_order \in Bid!Node /\ pending_is_ask \in BOOLEAN
  /\ bid_root_snap \in Bid!Node /\ ask_root_snap \in Bid!Node
  /\ trade_event_data \in Bid!Node /\ trade_event_pending \in BOOLEAN
  /\ latched_partial_bid \in BOOLEAN /\ latched_partial_ask \in BOOLEAN

\* The heaps share one BRAM port (an ask access overrides a bid access) and
\* the controller drives a heap that must be in S_IDLE to notice: at no time
\* are both heaps active, and a command meets an idle heap.
OneHeapAtATime ==
  /\ bid_state = "S_IDLE" \/ ask_state = "S_IDLE"
  /\ tstate \in {"T_PEEK_BID_ISSUE", "T_POP_BID_ISSUE", "T_UPDATE_BID_ISSUE"}
       => bid_state = "S_IDLE"
  /\ tstate \in {"T_PEEK_ASK_ISSUE", "T_POP_ASK_ISSUE", "T_UPDATE_ASK_ISSUE"}
       => ask_state = "S_IDLE"

\* An UPDATE that is due finds a warm cache that still holds the root the
\* decision was made on: heap_fsm never drops it silently, so no share of a
\* partly filled order is invented or lost.
UpdateLands ==
  /\ tstate = "T_UPDATE_BID_ISSUE" => bid_node_cache[0] = bid_root_snap
  /\ tstate = "T_UPDATE_ASK_ISSUE" => ask_node_cache[0] = ask_root_snap

\* The registers keep their widths while the heaps take turns at the shared
\* port and every UPDATE meets the root it was decided for.
ControlInv == TypeOK /\ OneHeapAtATime /\ UpdateLands

\* An engine that takes orders has an uncrossed book: no trade was left out.
UncrossedWhenIdle ==
  tstate = "T_IDLE" =>
    \A b \in Bid!Content, a \in Ask!Content : b.price < a.price

\* The book the engine stands for while a trade is being carried out: the
\* trade is made at T_DECIDE, the pops and the update catch up with it.
AbsBids ==
  IF tstate \in TradeStates
  THEN (Bid!Content \ {bid_root_snap}) \cup (IF latched_partial_bid THEN {BidRest} ELSE {})
  ELSE Bid!Content
AbsAsks ==
  IF tstate \in TradeStates
  THEN (Ask!Content \ {ask_root_snap}) \cup (IF latched_partial_ask THEN {AskRest} ELSE {})
  ELSE Ask!Content

\* An order with the time of its arrival in place of its timestamp.
Dated(o) == [o EXCEPT !.ts = arrival[o.ts]]

Book == INSTANCE OrderBook WITH
          Span <- TsSpan,
          bids <- {Dated(o) : o \in AbsBids}, asks <- {Dated(o) : o \in AbsAsks},
          trade <- IF tstate \in TradeStates THEN Dated(trade_event_data) ELSE NoNode

\* Two heaps, a cache, two memory tiers and a seventeen-state controller
\* behave as one order book matched in price-time priority: every share that
\* leaves the book is in a trade, every trade is between two best orders, and
\* the older of two orders of one price is first unless the counter started
\* again between them.
ImplementsOrderBook == Book!Spec

\* The README's rule, by arrival and not by timestamp: the root on which a
\* trade is decided is the oldest order of the best price.  It fails once the
\* counter has started again.
OldestFirst ==
  tstate = "T_DECIDE" =>
    /\ \A o \in Bid!Content : o.price = bid_root_snap.price
         => arrival[bid_root_snap.ts] <= arrival[o.ts]
    /\ \A o \in Ask!Content : o.price = ask_root_snap.price
         => arrival[ask_root_snap.ts] <= arrival[o.ts]

\* Every order an engine takes is entered, matched as far as it can be, and
\* leaves the engine ready for the next one.
OrderCompletes == tstate # "T_IDLE" ~> tstate = "T_IDLE"
=============================================================================
