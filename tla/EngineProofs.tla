---------------------------- MODULE EngineProofs ------------------------------
(***************************************************************************)
(* Proofs about SymbolEngine, for every size of the tiers, every set of    *)
(* prices and amounts and any number of orders.  What the two heaps do is  *)
(* taken from the proofs about one heap, instantiated for each of them.    *)
(***************************************************************************)
EXTENDS SymbolEngine, TLAPS

B == INSTANCE HeapProofs WITH
  Kind <- "bid", state <- bid_state, phase <- bid_phase, size <- bid_size,
  target_idx <- bid_target_idx, cur_node <- bid_cur_node,
  parent_node <- bid_parent_node, left_node <- bid_left_node,
  right_node <- bid_right_node, has_right <- bid_has_right,
  node_cache <- bid_node_cache, saved_op <- bid_saved_op,
  saved_op_data <- bid_saved_op_data, popped_root <- bid_popped_root,
  priv <- bid_priv, MaxTs <- MaxOrders, MaxResets <- 0, now_ts <- TsSpan, resets <- 0

A == INSTANCE HeapProofs WITH
  Kind <- "ask", state <- ask_state, phase <- ask_phase, size <- ask_size,
  target_idx <- ask_target_idx, cur_node <- ask_cur_node,
  parent_node <- ask_parent_node, left_node <- ask_left_node,
  right_node <- ask_right_node, has_right <- ask_has_right,
  node_cache <- ask_node_cache, saved_op <- ask_saved_op,
  saved_op_data <- ask_saved_op_data, popped_root <- ask_popped_root,
  priv <- ask_priv, MaxTs <- MaxOrders, MaxResets <- 0, now_ts <- TsSpan, resets <- 0

-----------------------------------------------------------------------------
(* The heaps of the engine are the heaps that were proved about.            *)

\* The sizes are those a heap is proved for.
LEMMA BidSizes ==
  /\ PrivateNodes \in Nat /\ VaSpan \in Nat \ {0} /\ Slots \in Nat
  /\ NoNode \notin B!Node
  /\ "bid" \in B!Kinds /\ IdxSpan \in Nat /\ IdxSpan > 2 /\ PrivateNodes >= 3
  /\ Prices \subseteq Nat /\ MaxOrders \in Nat /\ 0 \in Nat
BY EngineAssumption DEF B!Node, B!Kinds

\* The commands and their answers.
LEMMA BidCommands ==
  /\ \A n : Bid!CmdPush(n) <=> B!CmdPush(n)
  /\ Bid!CmdPop <=> B!CmdPop
  /\ Bid!CmdPeek <=> B!CmdPeek
  /\ \A n : Bid!CmdUpdate(n) <=> B!CmdUpdate(n)
  /\ Bid!Done <=> B!Done
  /\ Bid!RootOut = B!RootOut
BY DEF Bid!CmdPush, B!CmdPush, Bid!CmdPop, B!CmdPop, Bid!CmdPeek, B!CmdPeek,
       Bid!CmdUpdate, B!CmdUpdate, Bid!Done, B!Done, Bid!RootOut, B!RootOut,
       Bid!Goto, B!Goto, Bid!CacheHit, B!CacheHit, Bid!UpdateKeysOk, B!UpdateKeysOk,
       Bid!ZeroNode, B!ZeroNode, Bid!idxVars, B!idxVars, Bid!nodeVars, B!nodeVars,
       Bid!opVars, B!opVars

\* A heap at work.
LEMMA BidBusy == Bid!Busy <=> B!Busy
BY DEF Bid!Busy, B!Busy, Bid!Compute, B!Compute, Bid!NoChild, B!NoChild,
  Bid!ReadCached, B!ReadCached, Bid!IssuePriv, B!IssuePriv, Bid!PrivDone, B!PrivDone,
  Bid!IssueVirt, B!IssueVirt, Bid!VirtDone, B!VirtDone, Bid!VirtRetry, B!VirtRetry,
  Bid!PushLaunch, B!PushLaunch, Bid!PushDecide, B!PushDecide, Bid!PopLaunch, B!PopLaunch,
  Bid!SiftDecide, B!SiftDecide, Bid!MissingChild, B!MissingChild,
  Bid!VirtAccept, B!VirtAccept, Bid!VirtServe, B!VirtServe, Bid!VirtReject, B!VirtReject,
  Bid!Complete, B!Complete, Bid!ReadParent, B!ReadParent, Bid!ReadRoot, B!ReadRoot,
  Bid!ReadLast, B!ReadLast, Bid!ReadLeft, B!ReadLeft, Bid!ReadRight, B!ReadRight,
  Bid!ReadPeek, B!ReadPeek, Bid!Written, B!Written, Bid!CacheAfterPop, B!CacheAfterPop,
  Bid!AfterWrDown, B!AfterWrDown, Bid!CacheWrite, B!CacheWrite, Bid!Waits, B!Waits,
  Bid!Wanted, B!Wanted, Bid!ReadStates, B!ReadStates, Bid!WriteStates, B!WriteStates,
  Bid!MemIdx, B!MemIdx, Bid!MemWdata, B!MemWdata, Bid!Best, B!Best, Bid!BestIdx, B!BestIdx,
  Bid!BestNode, B!BestNode, Bid!LeftWinsCur, B!LeftWinsCur, Bid!AWins, B!AWins,
  Bid!Parent, B!Parent, Bid!Left, B!Left, Bid!Right, B!Right,
  Bid!IsPrivate, B!IsPrivate, Bid!MakeVa, B!MakeVa, Bid!Mapped, B!Mapped, Bid!Slot, B!Slot,
  Bid!ServedData, B!ServedData, Bid!AllocNext, B!AllocNext, Bid!NoReq, B!NoReq,
  Bid!Unmapped, B!Unmapped, Bid!memVars, B!memVars,
  Bid!Goto, B!Goto, Bid!CacheHit, B!CacheHit, Bid!ZeroNode, B!ZeroNode,
  Bid!idxVars, B!idxVars, Bid!nodeVars, B!nodeVars, Bid!opVars, B!opVars

\* Its state, its contents, and the answer nobody waits for.
LEMMA BidState ==
  /\ Bid!HeapInit <=> B!HeapInit
  /\ Bid!MemoryInit <=> B!MemoryInit
  /\ Bid!HeapTypeOK <=> B!HeapTypeOK
  /\ Bid!MemoryTypeOK <=> B!MemoryTypeOK
  /\ Bid!Node = B!Node /\ Bid!ZeroNode = B!ZeroNode
  /\ Bid!Content = B!Content
  /\ Bid!LateAnswer <=> B!LateAnswer
BY DEF Bid!HeapInit, B!HeapInit, Bid!MemoryInit, B!MemoryInit, Bid!HeapTypeOK, B!HeapTypeOK,
  Bid!MemoryTypeOK, B!MemoryTypeOK, Bid!Node, B!Node, Bid!ZeroNode, B!ZeroNode,
  Bid!Content, B!Content, Bid!Mem, B!Mem, Bid!IsPrivate, B!IsPrivate, Bid!MakeVa, B!MakeVa,
  Bid!Unmapped, B!Unmapped, Bid!PushStates, B!PushStates, Bid!SiftStates, B!SiftStates,
  Bid!PopStates, B!PopStates, Bid!States, B!States, Bid!Kinds, B!Kinds, Bid!Vas, B!Vas,
  Bid!NoReq, B!NoReq, Bid!LateAnswer, B!LateAnswer, Bid!VirtServe, B!VirtServe,
  Bid!VirtReject, B!VirtReject, Bid!heapVars, B!heapVars, Bid!MemIdx, B!MemIdx,
  Bid!Mapped, B!Mapped, Bid!Slot, B!Slot, Bid!AllocNext, B!AllocNext,
  Bid!Parent, B!Parent, Bid!Left, B!Left, Bid!Right, B!Right,
  Bid!idxVars, B!idxVars, Bid!nodeVars, B!nodeVars, Bid!opVars, B!opVars

LEMMA AskSizes ==
  /\ PrivateNodes \in Nat /\ VaSpan \in Nat \ {0} /\ Slots \in Nat
  /\ NoNode \notin A!Node
  /\ "ask" \in A!Kinds /\ IdxSpan \in Nat /\ IdxSpan > 2 /\ PrivateNodes >= 3
  /\ Prices \subseteq Nat /\ MaxOrders \in Nat /\ 0 \in Nat
BY EngineAssumption DEF A!Node, A!Kinds

\* The same of the ask heap.
LEMMA AskCommands ==
  /\ \A n : Ask!CmdPush(n) <=> A!CmdPush(n)
  /\ Ask!CmdPop <=> A!CmdPop
  /\ Ask!CmdPeek <=> A!CmdPeek
  /\ \A n : Ask!CmdUpdate(n) <=> A!CmdUpdate(n)
  /\ Ask!Done <=> A!Done
  /\ Ask!RootOut = A!RootOut
BY DEF Ask!CmdPush, A!CmdPush, Ask!CmdPop, A!CmdPop, Ask!CmdPeek, A!CmdPeek,
       Ask!CmdUpdate, A!CmdUpdate, Ask!Done, A!Done, Ask!RootOut, A!RootOut,
       Ask!Goto, A!Goto, Ask!CacheHit, A!CacheHit, Ask!UpdateKeysOk, A!UpdateKeysOk,
       Ask!ZeroNode, A!ZeroNode, Ask!idxVars, A!idxVars, Ask!nodeVars, A!nodeVars,
       Ask!opVars, A!opVars

LEMMA AskBusy == Ask!Busy <=> A!Busy
BY DEF Ask!Busy, A!Busy, Ask!Compute, A!Compute, Ask!NoChild, A!NoChild,
  Ask!ReadCached, A!ReadCached, Ask!IssuePriv, A!IssuePriv, Ask!PrivDone, A!PrivDone,
  Ask!IssueVirt, A!IssueVirt, Ask!VirtDone, A!VirtDone, Ask!VirtRetry, A!VirtRetry,
  Ask!PushLaunch, A!PushLaunch, Ask!PushDecide, A!PushDecide, Ask!PopLaunch, A!PopLaunch,
  Ask!SiftDecide, A!SiftDecide, Ask!MissingChild, A!MissingChild,
  Ask!VirtAccept, A!VirtAccept, Ask!VirtServe, A!VirtServe, Ask!VirtReject, A!VirtReject,
  Ask!Complete, A!Complete, Ask!ReadParent, A!ReadParent, Ask!ReadRoot, A!ReadRoot,
  Ask!ReadLast, A!ReadLast, Ask!ReadLeft, A!ReadLeft, Ask!ReadRight, A!ReadRight,
  Ask!ReadPeek, A!ReadPeek, Ask!Written, A!Written, Ask!CacheAfterPop, A!CacheAfterPop,
  Ask!AfterWrDown, A!AfterWrDown, Ask!CacheWrite, A!CacheWrite, Ask!Waits, A!Waits,
  Ask!Wanted, A!Wanted, Ask!ReadStates, A!ReadStates, Ask!WriteStates, A!WriteStates,
  Ask!MemIdx, A!MemIdx, Ask!MemWdata, A!MemWdata, Ask!Best, A!Best, Ask!BestIdx, A!BestIdx,
  Ask!BestNode, A!BestNode, Ask!LeftWinsCur, A!LeftWinsCur, Ask!AWins, A!AWins,
  Ask!Parent, A!Parent, Ask!Left, A!Left, Ask!Right, A!Right,
  Ask!IsPrivate, A!IsPrivate, Ask!MakeVa, A!MakeVa, Ask!Mapped, A!Mapped, Ask!Slot, A!Slot,
  Ask!ServedData, A!ServedData, Ask!AllocNext, A!AllocNext, Ask!NoReq, A!NoReq,
  Ask!Unmapped, A!Unmapped, Ask!memVars, A!memVars,
  Ask!Goto, A!Goto, Ask!CacheHit, A!CacheHit, Ask!ZeroNode, A!ZeroNode,
  Ask!idxVars, A!idxVars, Ask!nodeVars, A!nodeVars, Ask!opVars, A!opVars

LEMMA AskState ==
  /\ Ask!HeapInit <=> A!HeapInit
  /\ Ask!MemoryInit <=> A!MemoryInit
  /\ Ask!HeapTypeOK <=> A!HeapTypeOK
  /\ Ask!MemoryTypeOK <=> A!MemoryTypeOK
  /\ Ask!Node = A!Node /\ Ask!ZeroNode = A!ZeroNode
  /\ Ask!Content = A!Content
  /\ Ask!LateAnswer <=> A!LateAnswer
BY DEF Ask!HeapInit, A!HeapInit, Ask!MemoryInit, A!MemoryInit, Ask!HeapTypeOK, A!HeapTypeOK,
  Ask!MemoryTypeOK, A!MemoryTypeOK, Ask!Node, A!Node, Ask!ZeroNode, A!ZeroNode,
  Ask!Content, A!Content, Ask!Mem, A!Mem, Ask!IsPrivate, A!IsPrivate, Ask!MakeVa, A!MakeVa,
  Ask!Unmapped, A!Unmapped, Ask!PushStates, A!PushStates, Ask!SiftStates, A!SiftStates,
  Ask!PopStates, A!PopStates, Ask!States, A!States, Ask!Kinds, A!Kinds, Ask!Vas, A!Vas,
  Ask!NoReq, A!NoReq, Ask!LateAnswer, A!LateAnswer, Ask!VirtServe, A!VirtServe,
  Ask!VirtReject, A!VirtReject, Ask!heapVars, A!heapVars, Ask!MemIdx, A!MemIdx,
  Ask!Mapped, A!Mapped, Ask!Slot, A!Slot, Ask!AllocNext, A!AllocNext,
  Ask!Parent, A!Parent, Ask!Left, A!Left, Ask!Right, A!Right,
  Ask!idxVars, A!idxVars, Ask!nodeVars, A!nodeVars, Ask!opVars, A!opVars

\* The memory is one.
LEMMA OneMemory ==
  /\ A!MemoryTypeOK <=> B!MemoryTypeOK
  /\ A!memVars = memVars /\ B!memVars = memVars
  /\ A!Node = B!Node
BY DEF A!MemoryTypeOK, B!MemoryTypeOK, A!memVars, B!memVars, memVars, A!Node, B!Node,
       A!Kinds, B!Kinds, A!Vas, B!Vas, A!Unmapped, B!Unmapped

-----------------------------------------------------------------------------
(* The invariant of the controller.                                         *)

CtrlTypeOK ==
  /\ tstate \in TStates /\ orders \in Nat /\ now \in Nat
  /\ pending_order \in B!Node /\ pending_is_ask \in BOOLEAN
  /\ bid_root_snap \in B!Node /\ ask_root_snap \in B!Node
  /\ trade_event_data \in B!Node /\ trade_event_pending \in BOOLEAN
  /\ latched_partial_bid \in BOOLEAN /\ latched_partial_ask \in BOOLEAN

BidAtWork ==
  \/ tstate \in {"T_PEEK_BID_WAIT", "T_POP_BID_WAIT", "T_UPDATE_BID_WAIT"}
  \/ tstate = "T_PUSH_WAIT" /\ ~pending_is_ask
AskAtWork ==
  \/ tstate \in {"T_PEEK_ASK_WAIT", "T_POP_ASK_WAIT", "T_UPDATE_ASK_WAIT"}
  \/ tstate = "T_PUSH_WAIT" /\ pending_is_ask

\* A heap works while the controller waits for it, and at no other time.
TurnInv ==
  /\ bid_state # "S_IDLE" <=> BidAtWork
  /\ ask_state # "S_IDLE" <=> AskAtWork

\* It works on the command the controller gave it.
CommandInv ==
  /\ tstate = "T_PUSH_WAIT" =>
       IF pending_is_ask
       THEN ask_saved_op = "OP_PUSH" /\ ask_saved_op_data = pending_order
       ELSE bid_saved_op = "OP_PUSH" /\ bid_saved_op_data = pending_order
  /\ tstate = "T_PEEK_BID_WAIT" => bid_saved_op = "OP_PEEK"
  /\ tstate = "T_PEEK_ASK_WAIT" => ask_saved_op = "OP_PEEK"
  /\ tstate = "T_POP_BID_WAIT" => bid_saved_op = "OP_POP"
  /\ tstate = "T_POP_ASK_WAIT" => ask_saved_op = "OP_POP"
  /\ tstate = "T_UPDATE_BID_WAIT" => bid_saved_op = "OP_UPDATE" /\ bid_saved_op_data = BidRest
  /\ tstate = "T_UPDATE_ASK_WAIT" => ask_saved_op = "OP_UPDATE" /\ ask_saved_op_data = AskRest

\* The root was looked at and is still in the heap, which is at rest.
BidSnapped ==
  \/ tstate \in {"T_PEEK_ASK_ISSUE", "T_PEEK_ASK_WAIT", "T_DECIDE", "T_POP_BID_ISSUE",
                 "T_UPDATE_BID_ISSUE"}
  \/ tstate \in {"T_POP_ASK_ISSUE", "T_POP_ASK_WAIT"} /\ latched_partial_bid
AskSnapped ==
  tstate \in {"T_DECIDE", "T_POP_BID_ISSUE", "T_POP_BID_WAIT", "T_POP_ASK_ISSUE",
              "T_UPDATE_ASK_ISSUE"}

PeekStates ==
  {"T_PEEK_BID_ISSUE", "T_PEEK_BID_WAIT", "T_PEEK_ASK_ISSUE", "T_PEEK_ASK_WAIT", "T_DECIDE"}

\* Roots are looked at when there are two, a cached root is answered at once,
\* and a snapped root is the cached one.
SnapInv ==
  /\ tstate \in PeekStates => BothSides
  /\ tstate = "T_PEEK_BID_WAIT" => bid_state = "S_DONE"
  /\ tstate = "T_PEEK_ASK_WAIT" => ask_state = "S_DONE"
  /\ BidSnapped => bid_size > 0 /\ bid_node_cache[0] = bid_root_snap
  /\ AskSnapped => ask_size > 0 /\ ask_node_cache[0] = ask_root_snap

\* The latched flags agree with the roots the trade was decided on, and the
\* side that keeps a rest is updated while the other one is popped.
LatchInv ==
  /\ tstate \in {"T_POP_BID_ISSUE", "T_POP_BID_WAIT"} => ~latched_partial_bid
  /\ tstate \in {"T_POP_ASK_ISSUE", "T_POP_ASK_WAIT"} => ~latched_partial_ask
  /\ tstate \in {"T_UPDATE_BID_ISSUE", "T_UPDATE_BID_WAIT"} =>
       latched_partial_bid /\ ~latched_partial_ask
  /\ tstate \in {"T_UPDATE_ASK_ISSUE", "T_UPDATE_ASK_WAIT"} =>
       latched_partial_ask /\ ~latched_partial_bid
  /\ tstate \in TradeStates /\ latched_partial_bid =>
       bid_root_snap.amount > ask_root_snap.amount
  /\ tstate \in TradeStates /\ latched_partial_ask =>
       ask_root_snap.amount > bid_root_snap.amount

HeapsInv == B!IInv /\ A!IInv

EInv == HeapsInv /\ CtrlTypeOK /\ TurnInv /\ CommandInv /\ SnapInv /\ LatchInv

\* What a step of the engine is to one heap.
BidMove ==
  \/ tstate = "T_PUSH_ISSUE" /\ B!PushAny(pending_order)
  \/ tstate = "T_UPDATE_BID_ISSUE" /\ B!UpdateAny(BidRest)
  \/ B!PopCommand \/ B!PeekCommand \/ B!Finish \/ B!Step \/ B!Answer \/ B!Pass
AskMove ==
  \/ tstate = "T_PUSH_ISSUE" /\ A!PushAny(pending_order)
  \/ tstate = "T_UPDATE_ASK_ISSUE" /\ A!UpdateAny(AskRest)
  \/ A!PopCommand \/ A!PeekCommand \/ A!Finish \/ A!Step \/ A!Answer \/ A!Pass

-----------------------------------------------------------------------------
(* Every step of the engine is a use of both heaps.                         *)

\* The rest of an order is an order.
LEMMA RestIsNode ==
  ASSUME EInv
  PROVE  /\ pending_order \in B!Node /\ pending_order \in A!Node
         /\ tstate = "T_UPDATE_BID_ISSUE" => BidRest \in B!Node
         /\ tstate = "T_UPDATE_ASK_ISSUE" => AskRest \in A!Node
<1>1. /\ pending_order \in B!Node /\ bid_root_snap \in B!Node /\ ask_root_snap \in B!Node
      /\ A!Node = B!Node
  BY OneMemory DEF EInv, CtrlTypeOK
<1>2. /\ tstate = "T_UPDATE_BID_ISSUE" => bid_root_snap.amount > ask_root_snap.amount
      /\ tstate = "T_UPDATE_ASK_ISSUE" => ask_root_snap.amount > bid_root_snap.amount
  BY DEF EInv, LatchInv, TradeStates
<1> QED BY <1>1, <1>2 DEF BidRest, AskRest, B!Node

\* A use of a heap by the engine keeps the heap's invariant.
LEMMA MovesKeep ==
  ASSUME EInv
  PROVE  /\ BidMove => B!IInv'
         /\ AskMove => A!IInv'
<1>1. BidMove => B!Use
  BY RestIsNode DEF BidMove, B!Use
<1>2. AskMove => A!Use
  BY RestIsNode DEF AskMove, A!Use
<1>3. B!Use => B!IInv'
  BY B!UseInv, BidSizes DEF EInv, HeapsInv
<1>4. A!Use => A!IInv'
  BY A!UseInv, AskSizes DEF EInv, HeapsInv
<1> QED BY <1>1, <1>2, <1>3, <1>4

\* A heap that is left alone.
LEMMA LeftAlone ==
  ASSUME UNCHANGED memVars
  PROVE  /\ UNCHANGED bidVars => BidMove
         /\ UNCHANGED askVars => AskMove
<1>1. UNCHANGED bidVars => B!Pass
  BY OneMemory, EngineAssumption DEF bidVars, B!Pass, B!heapVars, B!idxVars, B!nodeVars, B!opVars,
                   B!memVars, memVars
<1>2. UNCHANGED askVars => A!Pass
  BY OneMemory, EngineAssumption DEF askVars, A!Pass, A!heapVars, A!idxVars, A!nodeVars, A!opVars,
                   A!memVars, memVars
<1> QED BY <1>1, <1>2 DEF BidMove, AskMove

\* An access of one heap, and its answer, pass the other one by.
LEMMA BidStepMoves ==
  ASSUME EInv, Bid!Busy \/ Bid!LateAnswer, UNCHANGED <<askVars, ctrlVars>>
  PROVE  BidMove /\ AskMove
<1>1. B!Step \/ B!Answer
  BY BidBusy, BidState DEF B!Step, B!Answer
<1>2. BidMove
  BY <1>1 DEF BidMove
<1>3. B!MemoryTypeOK /\ B!MemoryTypeOK'
  BY <1>2, MovesKeep DEF EInv, HeapsInv, B!IInv, B!TypeOK
<1>4. A!MemoryTypeOK'
  BY <1>3 DEF A!MemoryTypeOK, B!MemoryTypeOK, A!Node, B!Node, A!Kinds, B!Kinds, A!Vas, B!Vas,
              A!Unmapped, B!Unmapped
<1>5. \/ UNCHANGED B!memVars
      \/ /\ mmu_owner # "ask" /\ mmu_owner' # "ask"
         /\ page_table'["ask"] = page_table["ask"] /\ alloc_ptr'["ask"] = alloc_ptr["ask"]
         /\ bank'["ask"] = bank["ask"]
  <2>1. B!Busy \/ B!LateAnswer
    BY <1>1 DEF B!Step, B!Answer
  <2>2. "ask" \in B!Kinds /\ "ask" # "bid"
    BY DEF B!Kinds
  <2> QED BY <1>3, <2>1, <2>2, B!OwnPartition, BidSizes
<1>6. UNCHANGED A!memVars \/ A!PortElsewhere
  BY <1>4, <1>5 DEF A!PortElsewhere, A!memVars, B!memVars
<1>7. A!Pass
  BY <1>6, EngineAssumption DEF askVars, A!Pass, A!heapVars, A!idxVars, A!nodeVars, A!opVars
<1> QED BY <1>2, <1>7 DEF AskMove

LEMMA AskStepMoves ==
  ASSUME EInv, Ask!Busy \/ Ask!LateAnswer, UNCHANGED <<bidVars, ctrlVars>>
  PROVE  BidMove /\ AskMove
<1>1. A!Step \/ A!Answer
  BY AskBusy, AskState DEF A!Step, A!Answer
<1>2. AskMove
  BY <1>1 DEF AskMove
<1>3. A!MemoryTypeOK /\ A!MemoryTypeOK'
  BY <1>2, MovesKeep DEF EInv, HeapsInv, A!IInv, A!TypeOK
<1>4. B!MemoryTypeOK'
  BY <1>3 DEF A!MemoryTypeOK, B!MemoryTypeOK, A!Node, B!Node, A!Kinds, B!Kinds, A!Vas, B!Vas,
              A!Unmapped, B!Unmapped
<1>5. \/ UNCHANGED A!memVars
      \/ /\ mmu_owner # "bid" /\ mmu_owner' # "bid"
         /\ page_table'["bid"] = page_table["bid"] /\ alloc_ptr'["bid"] = alloc_ptr["bid"]
         /\ bank'["bid"] = bank["bid"]
  <2>1. A!Busy \/ A!LateAnswer
    BY <1>1 DEF A!Step, A!Answer
  <2>2. "bid" \in A!Kinds /\ "bid" # "ask"
    BY DEF A!Kinds
  <2> QED BY <1>3, <2>1, <2>2, A!OwnPartition, AskSizes
<1>6. UNCHANGED B!memVars \/ B!PortElsewhere
  BY <1>4, <1>5 DEF B!PortElsewhere, A!memVars, B!memVars
<1>7. B!Pass
  BY <1>6, EngineAssumption DEF bidVars, B!Pass, B!heapVars, B!idxVars, B!nodeVars, B!opVars
<1> QED BY <1>2, <1>7 DEF BidMove

\* The commands and their ends: one heap is told, the other one left alone.
LEMMA ControlMoves ==
  ASSUME EInv, TakeOrder \/ Control \/ EmitTrade \/ UNCHANGED vars
  PROVE  BidMove /\ AskMove
<1>0. UNCHANGED memVars /\ TsSpan \in Nat
  BY EngineAssumption
     DEF TakeOrder, EmitTrade, Control, PushIssue, PushWait, PeekBidIssue, PeekBidWait,
         PeekAskIssue, PeekAskWait, Decide, PopBidIssue, PopBidWait, PopAskIssue, PopAskWait,
         UpdateBidIssue, UpdateAskIssue, UpdateWait, heapsVars, vars
<1> USE <1>0
<1>1. CASE TakeOrder \/ EmitTrade \/ Decide \/ UNCHANGED vars
  BY <1>1, LeftAlone DEF TakeOrder, EmitTrade, Decide, vars, heapsVars
<1>2. CASE PushIssue
  <2>1. CASE pending_is_ask
    <3>1. A!PushAny(pending_order)
      BY <1>2, <2>1, AskCommands, OneMemory DEF PushIssue, A!PushAny, A!memVars, memVars
    <3> QED BY <1>2, <2>1, <3>1, LeftAlone DEF PushIssue, AskMove
  <2>2. CASE ~pending_is_ask
    <3>1. B!PushAny(pending_order)
      BY <1>2, <2>2, BidCommands, OneMemory DEF PushIssue, B!PushAny, B!memVars, memVars
    <3> QED BY <1>2, <2>2, <3>1, LeftAlone DEF PushIssue, BidMove
  <2> QED BY <2>1, <2>2
<1>3. ASSUME tstate # "T_PUSH_ISSUE", Bid!CmdPop \/ Bid!CmdPeek \/ Bid!Done, UNCHANGED askVars
      PROVE  BidMove /\ AskMove
  <2>1. B!PopCommand \/ B!PeekCommand \/ B!Finish
    BY <1>3, BidCommands DEF B!PopCommand, B!PeekCommand, B!Finish, B!memVars, memVars
  <2> QED BY <1>3, <2>1, LeftAlone DEF BidMove
<1>4. ASSUME tstate # "T_PUSH_ISSUE", Ask!CmdPop \/ Ask!CmdPeek \/ Ask!Done, UNCHANGED bidVars
      PROVE  BidMove /\ AskMove
  <2>1. A!PopCommand \/ A!PeekCommand \/ A!Finish
    BY <1>4, AskCommands DEF A!PopCommand, A!PeekCommand, A!Finish, A!memVars, memVars
  <2> QED BY <1>4, <2>1, LeftAlone DEF AskMove
<1>5. CASE UpdateBidIssue
  <2>1. B!UpdateAny(BidRest)
    BY <1>5, BidCommands DEF UpdateBidIssue, B!UpdateAny, B!memVars, memVars
  <2> QED BY <1>5, <2>1, LeftAlone DEF UpdateBidIssue, BidMove
<1>6. CASE UpdateAskIssue
  <2>1. A!UpdateAny(AskRest)
    BY <1>6, AskCommands DEF UpdateAskIssue, A!UpdateAny, A!memVars, memVars
  <2> QED BY <1>6, <2>1, LeftAlone DEF UpdateAskIssue, AskMove
<1>7. CASE PushWait \/ UpdateWait
  BY <1>3, <1>4, <1>7 DEF PushWait, UpdateWait
<1>8. CASE PeekBidIssue \/ PeekBidWait \/ PopBidIssue \/ PopBidWait
  BY <1>3, <1>8 DEF PeekBidIssue, PeekBidWait, PopBidIssue, PopBidWait
<1>9. CASE PeekAskIssue \/ PeekAskWait \/ PopAskIssue \/ PopAskWait
  BY <1>4, <1>9 DEF PeekAskIssue, PeekAskWait, PopAskIssue, PopAskWait
<1> QED BY <1>1, <1>2, <1>5, <1>6, <1>7, <1>8, <1>9 DEF Control

\* Together.
LEMMA NextMoves ==
  ASSUME EInv, [Next]_vars
  PROVE  BidMove /\ AskMove
<1>1. CASE BidStep \/ (MmuAnswer /\ Bid!LateAnswer)
  BY <1>1, BidStepMoves DEF BidStep, MmuAnswer
<1>2. CASE AskStep \/ (MmuAnswer /\ Ask!LateAnswer)
  BY <1>2, AskStepMoves DEF AskStep, MmuAnswer
<1>3. CASE TakeOrder \/ Control \/ EmitTrade \/ UNCHANGED vars
  BY <1>3, ControlMoves
<1> QED BY <1>1, <1>2, <1>3 DEF Next, MmuAnswer, Finished

-----------------------------------------------------------------------------
(* The invariant holds.                                                     *)

ControllerInv == CtrlTypeOK /\ TurnInv /\ CommandInv /\ SnapInv /\ LatchInv

\* The state after configuration.
LEMMA HeapsStart == Init => B!Start /\ A!Start
BY BidState, AskState, EngineAssumption
   DEF Init, B!Start, A!Start, B!MemoryInit, A!MemoryInit, A!Unmapped, B!Unmapped,
       A!Kinds, B!Kinds, A!Vas, B!Vas, A!NoReq, B!NoReq

LEMMA InitEInv == Init => EInv
<1> SUFFICES ASSUME Init PROVE EInv
  OBVIOUS
<1>1. B!Start /\ A!Start
  BY HeapsStart
<1>2. HeapsInv
  BY <1>1, B!InitInv, A!InitInv, BidSizes, AskSizes DEF HeapsInv
<1>3. CtrlTypeOK
  BY BidState, EngineAssumption DEF Init, CtrlTypeOK, TStates, B!ZeroNode, B!Node
<1>4. bid_state = "S_IDLE" /\ ask_state = "S_IDLE"
  BY DEF Init, Bid!HeapInit, Ask!HeapInit
<1>5. TurnInv /\ CommandInv /\ SnapInv /\ LatchInv
  BY <1>4 DEF Init, TurnInv, BidAtWork, AskAtWork, CommandInv, SnapInv, BidSnapped, AskSnapped,
              PeekStates, LatchInv, TradeStates
<1> QED BY <1>2, <1>3, <1>5 DEF EInv

\* While a heap works the controller waits for it and has nothing to lose.
LEMMA BidStepKeeps ==
  ASSUME EInv, BidStep
  PROVE  ControllerInv'
<1>1. /\ bid_state \notin {"S_IDLE", "S_DONE"} /\ bid_state' # "S_IDLE"
      /\ bid_saved_op' = bid_saved_op /\ bid_saved_op_data' = bid_saved_op_data
  <2>1. B!Step
    BY BidBusy DEF BidStep, B!Step
  <2> QED BY <2>1, B!StepStays, BidSizes DEF EInv, HeapsInv
<1>2. UNCHANGED <<askVars, ctrlVars>>
  BY DEF BidStep
<1>3. BidAtWork /\ tstate # "T_PEEK_BID_WAIT"
  BY <1>1 DEF EInv, TurnInv, SnapInv
<1>4. CtrlTypeOK' /\ LatchInv'
  BY <1>2 DEF EInv, CtrlTypeOK, LatchInv, ctrlVars, orderVars, snapVars, tradeVars
<1>5. TurnInv' /\ CommandInv'
  BY <1>1, <1>2, <1>3 DEF EInv, TurnInv, CommandInv, BidAtWork, AskAtWork, BidRest, AskRest,
         ctrlVars, orderVars, snapVars, tradeVars, askVars
<1>6. SnapInv'
  BY <1>1, <1>2, <1>3 DEF EInv, SnapInv, BidAtWork, BidSnapped, AskSnapped, PeekStates,
         ctrlVars, orderVars, snapVars, tradeVars, askVars
<1> QED BY <1>4, <1>5, <1>6 DEF ControllerInv

LEMMA AskStepKeeps ==
  ASSUME EInv, AskStep
  PROVE  ControllerInv'
<1>1. /\ ask_state \notin {"S_IDLE", "S_DONE"} /\ ask_state' # "S_IDLE"
      /\ ask_saved_op' = ask_saved_op /\ ask_saved_op_data' = ask_saved_op_data
  <2>1. A!Step
    BY AskBusy DEF AskStep, A!Step
  <2> QED BY <2>1, A!StepStays, AskSizes DEF EInv, HeapsInv
<1>2. UNCHANGED <<bidVars, ctrlVars>>
  BY DEF AskStep
<1>3. AskAtWork /\ tstate # "T_PEEK_ASK_WAIT"
  BY <1>1 DEF EInv, TurnInv, SnapInv
<1>4. CtrlTypeOK' /\ LatchInv'
  BY <1>2 DEF EInv, CtrlTypeOK, LatchInv, ctrlVars, orderVars, snapVars, tradeVars
<1>5. TurnInv' /\ CommandInv'
  BY <1>1, <1>2, <1>3 DEF EInv, TurnInv, CommandInv, BidAtWork, AskAtWork, BidRest, AskRest,
         ctrlVars, orderVars, snapVars, tradeVars, bidVars
<1>6. SnapInv'
  BY <1>1, <1>2, <1>3 DEF EInv, SnapInv, AskAtWork, BidSnapped, AskSnapped, PeekStates,
         ctrlVars, orderVars, snapVars, tradeVars, bidVars
<1> QED BY <1>4, <1>5, <1>6 DEF ControllerInv

\* A late answer changes neither a heap nor the controller.
LEMMA StillKeeps ==
  ASSUME EInv, UNCHANGED <<bidVars, askVars, ctrlVars>>
  PROVE  ControllerInv'
<1>1. CtrlTypeOK' /\ LatchInv'
  BY DEF EInv, CtrlTypeOK, LatchInv, ctrlVars, orderVars, snapVars, tradeVars
<1>2. TurnInv' /\ CommandInv'
  BY DEF EInv, TurnInv, CommandInv, BidAtWork, AskAtWork, BidRest, AskRest,
         ctrlVars, orderVars, snapVars, tradeVars, bidVars, askVars
<1>3. SnapInv'
  BY DEF EInv, SnapInv, BothSides, BidSnapped, AskSnapped, PeekStates,
         ctrlVars, orderVars, snapVars, tradeVars, bidVars, askVars
<1> QED BY <1>1, <1>2, <1>3 DEF ControllerInv

\* A heap at rest that is not empty has its root in the cache.
LEMMA RootsCached ==
  ASSUME EInv
  PROVE  /\ bid_state \in {"S_IDLE", "S_DONE"} /\ bid_size > 0
              => B!CacheHit(0) /\ bid_node_cache[0] \in B!Node
         /\ ask_state \in {"S_IDLE", "S_DONE"} /\ ask_size > 0
              => A!CacheHit(0) /\ ask_node_cache[0] \in B!Node
<1>1. bid_state \in {"S_IDLE", "S_DONE"} /\ bid_size > 0 => B!CacheHit(0)
  BY DEF EInv, HeapsInv, B!IInv, B!RootInv, B!SiftStates
<1>2. ask_state \in {"S_IDLE", "S_DONE"} /\ ask_size > 0 => A!CacheHit(0)
  BY DEF EInv, HeapsInv, A!IInv, A!RootInv, A!SiftStates
<1>3. /\ bid_node_cache[0] \in B!Node \cup {NoNode}
      /\ ask_node_cache[0] \in A!Node \cup {NoNode}
  BY DEF EInv, HeapsInv, B!IInv, A!IInv, B!TypeOK, A!TypeOK, B!HeapTypeOK, A!HeapTypeOK
<1> QED BY <1>1, <1>2, <1>3, OneMemory DEF B!CacheHit, A!CacheHit

\* A timestamp is the time modulo its span.
LEMMA StampIs ==
  ASSUME NEW c \in Nat
  PROVE  StampAt(c) \in 0 .. TsSpan - 1 /\ StampAt(c) \in Nat /\ c % TsSpan = StampAt(c)
BY EngineAssumption DEF StampAt

\* An order is taken and entered.
LEMMA EntryKeeps ==
  ASSUME EInv, TakeOrder \/ PushIssue \/ PushWait
  PROVE  ControllerInv'
<1> USE DEF EInv, ControllerInv, ctrlVars, orderVars, snapVars, tradeVars, heapsVars
<1>1. CASE TakeOrder
  <2>1. UNCHANGED <<bidVars, askVars>> /\ tstate = "T_IDLE" /\ tstate' = "T_PUSH_ISSUE"
    BY <1>1 DEF TakeOrder
  <2>2. pending_order' \in B!Node /\ now' \in Nat
    <3>1. now' \in Nat
      BY <1>1, EngineAssumption DEF TakeOrder, CtrlTypeOK
    <3>2. StampAt(now') \in Nat
      BY <3>1, StampIs
    <3> QED BY <1>1, <3>1, <3>2, EngineAssumption DEF TakeOrder, B!Node
  <2>3. CtrlTypeOK'
    BY <1>1, <2>2 DEF TakeOrder, CtrlTypeOK, TStates
  <2> QED BY <2>1, <2>3 DEF TurnInv, BidAtWork, AskAtWork, CommandInv, SnapInv, BidSnapped,
                 AskSnapped, PeekStates, LatchInv, TradeStates, bidVars, askVars
<1>2. CASE PushIssue
  <2>1. /\ tstate = "T_PUSH_ISSUE" /\ tstate' = "T_PUSH_WAIT"
        /\ UNCHANGED <<orderVars, snapVars, tradeVars>>
    BY <1>2 DEF PushIssue
  <2>2. CtrlTypeOK' /\ SnapInv' /\ LatchInv'
    BY <2>1 DEF CtrlTypeOK, TStates, SnapInv, BidSnapped, AskSnapped, PeekStates, LatchInv,
                TradeStates
  <2>3. CASE pending_is_ask
    <3>1. Ask!CmdPush(pending_order) /\ UNCHANGED bidVars
      BY <1>2, <2>3 DEF PushIssue
    <3> QED BY <2>1, <2>2, <2>3, <3>1 DEF TurnInv, BidAtWork, AskAtWork, CommandInv,
                   Ask!CmdPush, Ask!Goto, bidVars
  <2>4. CASE ~pending_is_ask
    <3>1. Bid!CmdPush(pending_order) /\ UNCHANGED askVars
      BY <1>2, <2>4 DEF PushIssue
    <3> QED BY <2>1, <2>2, <2>4, <3>1 DEF TurnInv, BidAtWork, AskAtWork, CommandInv,
                   Bid!CmdPush, Bid!Goto, askVars
  <2> QED BY <2>3, <2>4
<1>3. CASE PushWait
  <2>1. /\ tstate = "T_PUSH_WAIT" /\ tstate' = AfterRound
        /\ UNCHANGED <<orderVars, snapVars, tradeVars>>
    BY <1>3 DEF PushWait
  <2>2. /\ bid_state' = "S_IDLE" /\ ask_state' = "S_IDLE"
        /\ bid_size' = bid_size /\ ask_size' = ask_size
    BY <1>3, <2>1 DEF PushWait, TurnInv, BidAtWork, AskAtWork, Bid!Done, Ask!Done, Bid!Goto,
           Ask!Goto, Bid!idxVars, Ask!idxVars, bidVars, askVars
  <2> QED BY <2>1, <2>2 DEF CtrlTypeOK, TStates, TurnInv, BidAtWork, AskAtWork, CommandInv,
                 SnapInv, BidSnapped, AskSnapped, PeekStates, LatchInv, TradeStates, AfterRound,
                 BothSides
<1> QED BY <1>1, <1>2, <1>3

\* The roots are looked at.
LEMMA PeekKeeps ==
  ASSUME EInv, PeekBidIssue \/ PeekBidWait \/ PeekAskIssue \/ PeekAskWait
  PROVE  ControllerInv'
<1> USE DEF EInv, ControllerInv, orderVars, snapVars, tradeVars
<1>1. CASE PeekBidIssue
  <2>1. /\ tstate = "T_PEEK_BID_ISSUE" /\ tstate' = "T_PEEK_BID_WAIT"
        /\ UNCHANGED <<askVars, orderVars, snapVars, tradeVars>>
    BY <1>1 DEF PeekBidIssue
  <2>2. B!CmdPeek
    BY <1>1, BidCommands DEF PeekBidIssue
  <2>3. B!CacheHit(0) /\ BothSides
    BY <2>1, <2>2, RootsCached DEF SnapInv, PeekStates, BothSides, B!CmdPeek
  <2>4. bid_state' = "S_DONE" /\ bid_saved_op' = "OP_PEEK" /\ bid_size' = bid_size
    BY <2>2, <2>3 DEF B!CmdPeek, B!Goto, B!idxVars
  <2> QED BY <2>1, <2>3, <2>4 DEF CtrlTypeOK, TStates, TurnInv, BidAtWork, AskAtWork, CommandInv,
                 SnapInv, BidSnapped, AskSnapped, PeekStates, LatchInv, TradeStates, BothSides,
                 askVars
<1>2. CASE PeekBidWait
  <2>1. /\ tstate = "T_PEEK_BID_WAIT" /\ tstate' = "T_PEEK_ASK_ISSUE"
        /\ bid_root_snap' = B!RootOut /\ B!Done
        /\ UNCHANGED <<askVars, orderVars, ask_root_snap, tradeVars>>
    BY <1>2, BidCommands DEF PeekBidWait
  <2>2. B!CacheHit(0) /\ BothSides /\ bid_node_cache[0] \in B!Node
    BY <2>1, RootsCached DEF SnapInv, PeekStates, BothSides
  <2>3. bid_root_snap' = bid_node_cache[0]
    BY <2>1, <2>2 DEF CommandInv, B!RootOut
  <2>4. bid_state' = "S_IDLE" /\ bid_size' = bid_size /\ bid_node_cache' = bid_node_cache
    BY <2>1 DEF B!Done, B!Goto, B!idxVars
  <2> QED BY <2>1, <2>2, <2>3, <2>4 DEF CtrlTypeOK, TStates, TurnInv, BidAtWork, AskAtWork,
                 CommandInv, SnapInv, BidSnapped, AskSnapped, PeekStates, LatchInv, TradeStates,
                 BothSides, askVars
<1>3. CASE PeekAskIssue
  <2>1. /\ tstate = "T_PEEK_ASK_ISSUE" /\ tstate' = "T_PEEK_ASK_WAIT"
        /\ UNCHANGED <<bidVars, orderVars, snapVars, tradeVars>>
    BY <1>3 DEF PeekAskIssue
  <2>2. A!CmdPeek
    BY <1>3, AskCommands DEF PeekAskIssue
  <2>3. A!CacheHit(0) /\ BothSides
    BY <2>1, <2>2, RootsCached DEF SnapInv, PeekStates, BothSides, A!CmdPeek
  <2>4. ask_state' = "S_DONE" /\ ask_saved_op' = "OP_PEEK" /\ ask_size' = ask_size
    BY <2>2, <2>3 DEF A!CmdPeek, A!Goto, A!idxVars
  <2> QED BY <2>1, <2>3, <2>4 DEF CtrlTypeOK, TStates, TurnInv, BidAtWork, AskAtWork, CommandInv,
                 SnapInv, BidSnapped, AskSnapped, PeekStates, LatchInv, TradeStates, BothSides,
                 bidVars
<1>4. CASE PeekAskWait
  <2>1. /\ tstate = "T_PEEK_ASK_WAIT" /\ tstate' = "T_DECIDE"
        /\ ask_root_snap' = A!RootOut /\ A!Done
        /\ UNCHANGED <<bidVars, orderVars, bid_root_snap, tradeVars>>
    BY <1>4, AskCommands DEF PeekAskWait
  <2>2. A!CacheHit(0) /\ BothSides /\ ask_node_cache[0] \in B!Node
    BY <2>1, RootsCached DEF SnapInv, PeekStates, BothSides
  <2>3. ask_root_snap' = ask_node_cache[0]
    BY <2>1, <2>2 DEF CommandInv, A!RootOut
  <2>4. ask_state' = "S_IDLE" /\ ask_size' = ask_size /\ ask_node_cache' = ask_node_cache
    BY <2>1 DEF A!Done, A!Goto, A!idxVars
  <2> QED BY <2>1, <2>2, <2>3, <2>4 DEF CtrlTypeOK, TStates, TurnInv, BidAtWork, AskAtWork,
                 CommandInv, SnapInv, BidSnapped, AskSnapped, PeekStates, LatchInv, TradeStates,
                 BothSides, bidVars
<1> QED BY <1>1, <1>2, <1>3, <1>4

\* The trade is decided, and reported when it was carried out.
LEMMA DecideKeeps ==
  ASSUME EInv, Decide \/ EmitTrade
  PROVE  ControllerInv'
<1> USE DEF EInv, ControllerInv, heapsVars, orderVars, snapVars, tradeVars
<1>1. CASE Decide
  <2>1. /\ tstate = "T_DECIDE" /\ tstate' = Choice /\ BothSides
        /\ UNCHANGED <<bidVars, askVars, orderVars, snapVars>>
    BY <1>1 DEF Decide, SnapInv, PeekStates
  <2>2. bid_state = "S_IDLE" /\ ask_state = "S_IDLE" /\ UNCHANGED <<bid_state, ask_state>>
    BY <2>1 DEF TurnInv, BidAtWork, AskAtWork, bidVars, askVars
  <2>3. /\ bid_size > 0 /\ bid_node_cache[0] = bid_root_snap
        /\ ask_size > 0 /\ ask_node_cache[0] = ask_root_snap
        /\ UNCHANGED <<bid_size, bid_node_cache, ask_size, ask_node_cache>>
    BY <2>1 DEF SnapInv, BidSnapped, AskSnapped, bidVars, askVars
  <2>4. /\ bid_root_snap \in B!Node /\ ask_root_snap \in B!Node
        /\ bid_root_snap' = bid_root_snap /\ ask_root_snap' = ask_root_snap
    BY <2>1 DEF CtrlTypeOK
  <2>5. CASE TradeMatch
    <3>1. trade_event_data' \in B!Node
      BY <1>1, <2>4, <2>5 DEF Decide, B!Node
    <3>2. /\ latched_partial_bid' = PartialBidRemains
          /\ latched_partial_ask' = PartialAskRemains
          /\ trade_event_pending' = TRUE
          /\ PartialBidRemains <=> bid_root_snap.amount > ask_root_snap.amount
          /\ PartialAskRemains <=> ask_root_snap.amount > bid_root_snap.amount
      BY <1>1, <2>5 DEF Decide, PartialBidRemains, PartialAskRemains
    <3>3. /\ tstate' \in {"T_POP_ASK_ISSUE", "T_POP_BID_ISSUE"}
          /\ tstate' = "T_POP_ASK_ISSUE" <=> PartialBidRemains
      BY <2>1, <2>5 DEF Choice
    <3>4. CtrlTypeOK'
      BY <2>1, <2>4, <3>1, <3>2, <3>3 DEF CtrlTypeOK, TStates, TradeStates, PartialBidRemains,
             PartialAskRemains, TradeMatch, BothSides
    <3>5. TurnInv' /\ CommandInv' /\ SnapInv'
      BY <2>2, <2>3, <2>4, <3>2, <3>3 DEF TurnInv, BidAtWork, AskAtWork, CommandInv, SnapInv,
             BidSnapped, AskSnapped, PeekStates
    <3>6. bid_root_snap.amount \in Nat /\ ask_root_snap.amount \in Nat
      BY <2>4 DEF B!Node
    <3>7. LatchInv'
      BY <2>4, <3>2, <3>3, <3>6 DEF LatchInv, TradeStates
    <3> QED BY <3>4, <3>5, <3>7
  <2>6. CASE ~TradeMatch
    <3>1. tstate' = "T_IDLE" /\ UNCHANGED tradeVars
      BY <1>1, <2>1, <2>6 DEF Decide, Choice, PartialBidRemains
    <3> QED BY <2>1, <2>2, <3>1 DEF CtrlTypeOK, TStates, TurnInv, BidAtWork, AskAtWork,
                   CommandInv, SnapInv, BidSnapped, AskSnapped, PeekStates, LatchInv, TradeStates
  <2> QED BY <2>5, <2>6
<1>2. CASE EmitTrade
  <2>1. /\ tstate = "T_EMIT_TRADE" /\ tstate' = AfterRound
        /\ UNCHANGED <<bidVars, askVars, orderVars, snapVars, trade_event_data,
                       latched_partial_bid, latched_partial_ask>>
        /\ trade_event_pending' = FALSE
    BY <1>2 DEF EmitTrade
  <2>2. /\ bid_state' = "S_IDLE" /\ ask_state' = "S_IDLE"
        /\ bid_size' = bid_size /\ ask_size' = ask_size
    BY <2>1 DEF TurnInv, BidAtWork, AskAtWork, bidVars, askVars
  <2> QED BY <2>1, <2>2 DEF CtrlTypeOK, TStates, TurnInv, BidAtWork, AskAtWork, CommandInv,
                 SnapInv, BidSnapped, AskSnapped, PeekStates, LatchInv, TradeStates, AfterRound,
                 BothSides
<1> QED BY <1>1, <1>2

\* A root is popped.
LEMMA PopKeeps ==
  ASSUME EInv, PopBidIssue \/ PopBidWait \/ PopAskIssue \/ PopAskWait
  PROVE  ControllerInv'
<1> USE DEF EInv, ControllerInv, orderVars, snapVars, tradeVars
<1>1. CASE PopBidIssue
  <2>1. /\ tstate = "T_POP_BID_ISSUE" /\ tstate' = "T_POP_BID_WAIT"
        /\ UNCHANGED <<askVars, orderVars, snapVars, tradeVars>>
        /\ bid_state' = "S_POP_LAUNCH" /\ bid_saved_op' = "OP_POP"
    BY <1>1 DEF PopBidIssue, Bid!CmdPop, Bid!Goto
  <2> QED BY <2>1 DEF CtrlTypeOK, TStates, TurnInv, BidAtWork, AskAtWork, CommandInv, SnapInv,
                 BidSnapped, AskSnapped, PeekStates, LatchInv, TradeStates, askVars
<1>2. CASE PopBidWait
  <2>1. /\ tstate = "T_POP_BID_WAIT"
        /\ tstate' = IF latched_partial_ask THEN "T_UPDATE_ASK_ISSUE" ELSE "T_POP_ASK_ISSUE"
        /\ UNCHANGED <<askVars, orderVars, snapVars, tradeVars>>
        /\ bid_state' = "S_IDLE"
    BY <1>2 DEF PopBidWait, Bid!Done, Bid!Goto
  <2> QED BY <2>1 DEF CtrlTypeOK, TStates, TurnInv, BidAtWork, AskAtWork, CommandInv, SnapInv,
                 BidSnapped, AskSnapped, PeekStates, LatchInv, TradeStates, askVars
<1>3. CASE PopAskIssue
  <2>1. /\ tstate = "T_POP_ASK_ISSUE" /\ tstate' = "T_POP_ASK_WAIT"
        /\ UNCHANGED <<bidVars, orderVars, snapVars, tradeVars>>
        /\ ask_state' = "S_POP_LAUNCH" /\ ask_saved_op' = "OP_POP"
    BY <1>3 DEF PopAskIssue, Ask!CmdPop, Ask!Goto
  <2> QED BY <2>1 DEF CtrlTypeOK, TStates, TurnInv, BidAtWork, AskAtWork, CommandInv, SnapInv,
                 BidSnapped, AskSnapped, PeekStates, LatchInv, TradeStates, bidVars
<1>4. CASE PopAskWait
  <2>1. /\ tstate = "T_POP_ASK_WAIT"
        /\ tstate' = IF latched_partial_bid THEN "T_UPDATE_BID_ISSUE" ELSE "T_EMIT_TRADE"
        /\ UNCHANGED <<bidVars, orderVars, snapVars, tradeVars>>
        /\ ask_state' = "S_IDLE"
    BY <1>4 DEF PopAskWait, Ask!Done, Ask!Goto
  <2> QED BY <2>1 DEF CtrlTypeOK, TStates, TurnInv, BidAtWork, AskAtWork, CommandInv, SnapInv,
                 BidSnapped, AskSnapped, PeekStates, LatchInv, TradeStates, bidVars
<1> QED BY <1>1, <1>2, <1>3, <1>4

\* The other root keeps its rest.
LEMMA UpdateKeeps ==
  ASSUME EInv, UpdateBidIssue \/ UpdateAskIssue \/ UpdateWait
  PROVE  ControllerInv'
<1> USE DEF EInv, ControllerInv, orderVars, snapVars, tradeVars
<1>1. CASE UpdateBidIssue
  <2>1. /\ tstate = "T_UPDATE_BID_ISSUE" /\ tstate' = "T_UPDATE_BID_WAIT"
        /\ UNCHANGED <<askVars, orderVars, snapVars, tradeVars>>
        /\ bid_state' # "S_IDLE" /\ bid_saved_op' = "OP_UPDATE" /\ bid_saved_op_data' = BidRest
    BY <1>1 DEF UpdateBidIssue, Bid!CmdUpdate, Bid!Goto
  <2>2. BidRest' = BidRest
    BY <2>1 DEF BidRest
  <2> QED BY <2>1, <2>2 DEF CtrlTypeOK, TStates, TurnInv, BidAtWork, AskAtWork, CommandInv,
                 SnapInv, BidSnapped, AskSnapped, PeekStates, LatchInv, TradeStates, askVars
<1>2. CASE UpdateAskIssue
  <2>1. /\ tstate = "T_UPDATE_ASK_ISSUE" /\ tstate' = "T_UPDATE_ASK_WAIT"
        /\ UNCHANGED <<bidVars, orderVars, snapVars, tradeVars>>
        /\ ask_state' # "S_IDLE" /\ ask_saved_op' = "OP_UPDATE" /\ ask_saved_op_data' = AskRest
    BY <1>2 DEF UpdateAskIssue, Ask!CmdUpdate, Ask!Goto
  <2>2. AskRest' = AskRest
    BY <2>1 DEF AskRest
  <2> QED BY <2>1, <2>2 DEF CtrlTypeOK, TStates, TurnInv, BidAtWork, AskAtWork, CommandInv,
                 SnapInv, BidSnapped, AskSnapped, PeekStates, LatchInv, TradeStates, bidVars
<1>3. CASE UpdateWait
  <2>1. /\ tstate \in {"T_UPDATE_BID_WAIT", "T_UPDATE_ASK_WAIT"} /\ tstate' = "T_EMIT_TRADE"
        /\ UNCHANGED <<orderVars, snapVars, tradeVars>>
        /\ bid_state' = "S_IDLE" /\ ask_state' = "S_IDLE"
    BY <1>3 DEF UpdateWait, Bid!Done, Bid!Goto, Ask!Done, Ask!Goto, TurnInv, BidAtWork, AskAtWork,
                bidVars, askVars
  <2> QED BY <2>1 DEF CtrlTypeOK, TStates, TurnInv, BidAtWork, AskAtWork, CommandInv, SnapInv,
                 BidSnapped, AskSnapped, PeekStates, LatchInv, TradeStates
<1> QED BY <1>1, <1>2, <1>3

\* Together with what the heaps keep.
LEMMA NextEInv == EInv /\ [Next]_vars => EInv'
<1> SUFFICES ASSUME EInv, [Next]_vars PROVE EInv'
  OBVIOUS
<1>1. HeapsInv'
  BY NextMoves, MovesKeep DEF HeapsInv
<1>2. ASSUME TakeOrder \/ Control \/ EmitTrade PROVE ControllerInv'
  BY <1>2, EntryKeeps, PeekKeeps, DecideKeeps, PopKeeps, UpdateKeeps DEF Control
<1>3. ASSUME BidStep \/ AskStep PROVE ControllerInv'
  BY <1>3, BidStepKeeps, AskStepKeeps
<1>4. ASSUME MmuAnswer \/ UNCHANGED vars PROVE ControllerInv'
  BY <1>4, StillKeeps DEF MmuAnswer, vars, heapsVars
<1>5. ControllerInv'
  BY <1>2, <1>3, <1>4 DEF Next, Finished
<1> QED BY <1>1, <1>5 DEF EInv, ControllerInv

\* In every behaviour of the engine the registers keep their widths, the two
\* heaps take turns at the shared BRAM port and a command meets an idle heap,
\* and an UPDATE finds the root it was decided for in a warm cache.
THEOREM EngineInControl == Spec => []ControlInv
<1>1. EInv => ControlInv
  <2> SUFFICES ASSUME EInv PROVE ControlInv
    OBVIOUS
  <2>1. TypeOK
    BY BidState, AskState, OneMemory
       DEF EInv, HeapsInv, B!IInv, A!IInv, B!TypeOK, A!TypeOK, CtrlTypeOK, TypeOK
  <2>2. OneHeapAtATime
    BY DEF EInv, TurnInv, BidAtWork, AskAtWork, OneHeapAtATime
  <2>3. UpdateLands
    BY DEF EInv, SnapInv, BidSnapped, AskSnapped, UpdateLands
  <2> QED BY <2>1, <2>2, <2>3 DEF ControlInv
<1> QED BY <1>1, InitEInv, NextEInv, PTL DEF Spec

-----------------------------------------------------------------------------
(* The order of the book.  The heaps' limits must fit their registers:      *)
(* params_pkg.sv has 1024 virtual addresses for 960 slots, and 2048 indices *)
(* for 64 + 960 nodes.  The counter of clock cycles may start again.        *)

EngineFits ==
  /\ VaSpan > Slots
  /\ 2 * (PrivateNodes + Slots) <= IdxSpan

\* No order rests in the book until the counter shows its timestamp again: an
\* order that is about to be pushed has a timestamp of its own.
StampsFresh ==
  tstate = "T_PUSH_ISSUE" =>
    \A o \in Bid!Content \cup Ask!Content : o.ts # pending_order.ts

\* The heaps are ordered, without a node twice.
OrdersInv == B!OInv /\ A!OInv

Stamps == 0 .. TsSpan - 1

\* A timestamp is what is left of the time it was given at.
TimeInv ==
  /\ pending_order.ts \in Stamps /\ trade_event_data.ts \in Stamps
  /\ arrival \in [Stamps -> Nat]
  /\ \A t \in Stamps : arrival[t] % TsSpan = t

\* Both heaps' proofs ask for the same sizes.
LEMMA FitsBoth ==
  ASSUME EngineFits
  PROVE  B!SizesFit /\ A!SizesFit
BY DEF EngineFits, B!SizesFit, A!SizesFit

\* The engine pushes nodes with timestamps of their own, and updates a heap
\* that is not empty.
LEMMA TimelyMoves ==
  ASSUME EInv, TimeInv, StampsFresh
  PROVE  /\ BidMove => B!TimelyUse
         /\ AskMove => A!TimelyUse
<1>1. /\ pending_order \in B!Node /\ pending_order \in A!Node
      /\ tstate = "T_UPDATE_BID_ISSUE" => BidRest \in B!Node
      /\ tstate = "T_UPDATE_ASK_ISSUE" => AskRest \in A!Node
  BY RestIsNode
<1>2. /\ pending_order.ts < TsSpan /\ TsSpan \in Nat /\ TsSpan >= TsSpan
      /\ tstate = "T_PUSH_ISSUE" =>
           /\ \A m \in B!Content : m.ts # pending_order.ts
           /\ \A m \in A!Content : m.ts # pending_order.ts
  BY BidState, AskState, EngineAssumption DEF TimeInv, Stamps, StampsFresh
<1>3. /\ tstate = "T_UPDATE_BID_ISSUE" => bid_size > 0
      /\ tstate = "T_UPDATE_ASK_ISSUE" => ask_size > 0
  BY DEF EInv, SnapInv, BidSnapped, AskSnapped
<1>4. BidMove => B!TimelyUse
  BY <1>1, <1>2, <1>3 DEF BidMove, B!TimelyUse, B!TimelyPush, B!RootUpdate, B!TimelyPass
<1>5. AskMove => A!TimelyUse
  BY <1>1, <1>2, <1>3 DEF AskMove, A!TimelyUse, A!TimelyPush, A!RootUpdate, A!TimelyPass
<1> QED BY <1>4, <1>5

\* The heaps stay ordered.
LEMMA OrdersNext ==
  ASSUME EngineFits, EInv, TimeInv, StampsFresh, OrdersInv, [Next]_vars
  PROVE  OrdersInv'
<1>1. B!TimelyUse /\ A!TimelyUse
  BY NextMoves, TimelyMoves
<1>2. B!OInv'
  BY <1>1, FitsBoth, B!UseOrder, BidSizes DEF OrdersInv
<1>3. A!OInv'
  BY <1>1, FitsBoth, A!UseOrder, AskSizes DEF OrdersInv
<1> QED BY <1>2, <1>3 DEF OrdersInv

-----------------------------------------------------------------------------
(* What the steps do to the two books.                                      *)

Good == EInv /\ TimeInv /\ StampsFresh /\ OrdersInv

\* A heap that is at rest, or that a step leaves alone, keeps its nodes.
LEMMA BidKept ==
  ASSUME EngineFits, Good, OrdersInv', BidMove,
         UNCHANGED bidVars \/ bid_state \in {"S_IDLE", "S_DONE"}
  PROVE  B!Content' = B!Content
<1>0. B!SizesFit /\ B!OInv /\ B!OInv' /\ B!TimelyUse
  BY FitsBoth, TimelyMoves DEF Good, OrdersInv
<1>1. CASE \/ B!PopCommand \/ B!PeekCommand \/ B!Finish
           \/ \E n \in B!Node : B!TimelyPush(n) \/ B!RootUpdate(n)
  BY <1>0, <1>1, B!CommandKeeps, BidSizes
<1>2. CASE B!Answer
  BY <1>0, <1>2, B!AnswerKeeps, BidSizes
<1>3. CASE B!TimelyPass
  BY <1>0, <1>3, B!PassOrder, BidSizes
<1>4. CASE B!Step
  <2>1. bid_state \notin {"S_IDLE", "S_DONE"}
    BY <1>0, <1>4, B!StepStays, BidSizes DEF B!OInv
  <2>2. B!AbsPending' = B!AbsPending
    <3>1. UNCHANGED B!heapVars
      BY <2>1 DEF bidVars, B!heapVars, B!idxVars, B!nodeVars, B!opVars
    <3> QED BY <3>1, B!Called, BidSizes
  <2>3. bid_saved_op # "done"
    BY <1>0 DEF B!OInv, B!IInv, B!TypeOK, B!HeapTypeOK
  <2> QED BY <1>0, <1>4, <2>2, <2>3, B!StepEffect, BidSizes
<1> QED BY <1>0, <1>1, <1>2, <1>3, <1>4 DEF B!TimelyUse

LEMMA AskKept ==
  ASSUME EngineFits, Good, OrdersInv', AskMove,
         UNCHANGED askVars \/ ask_state \in {"S_IDLE", "S_DONE"}
  PROVE  A!Content' = A!Content
<1>0. A!SizesFit /\ A!OInv /\ A!OInv' /\ A!TimelyUse
  BY FitsBoth, TimelyMoves DEF Good, OrdersInv
<1>1. CASE \/ A!PopCommand \/ A!PeekCommand \/ A!Finish
           \/ \E n \in A!Node : A!TimelyPush(n) \/ A!RootUpdate(n)
  BY <1>0, <1>1, A!CommandKeeps, AskSizes
<1>2. CASE A!Answer
  BY <1>0, <1>2, A!AnswerKeeps, AskSizes
<1>3. CASE A!TimelyPass
  BY <1>0, <1>3, A!PassOrder, AskSizes
<1>4. CASE A!Step
  <2>1. ask_state \notin {"S_IDLE", "S_DONE"}
    BY <1>0, <1>4, A!StepStays, AskSizes DEF A!OInv
  <2>2. A!AbsPending' = A!AbsPending
    <3>1. UNCHANGED A!heapVars
      BY <2>1 DEF askVars, A!heapVars, A!idxVars, A!nodeVars, A!opVars
    <3> QED BY <3>1, A!Called, AskSizes
  <2>3. ask_saved_op # "done"
    BY <1>0 DEF A!OInv, A!IInv, A!TypeOK, A!HeapTypeOK
  <2> QED BY <1>0, <1>4, <2>2, <2>3, A!StepEffect, AskSizes
<1> QED BY <1>0, <1>1, <1>2, <1>3, <1>4 DEF A!TimelyUse

\* The commands in the terms of the queue.
LEMMA PendingFacts ==
  /\ UNCHANGED bidVars => B!AbsPending' = B!AbsPending
  /\ UNCHANGED askVars => A!AbsPending' = A!AbsPending
  /\ Bid!Done => B!AbsPending = "done"
  /\ Ask!Done => A!AbsPending = "done"
<1>1. UNCHANGED bidVars => UNCHANGED B!heapVars
  BY DEF bidVars, B!heapVars, B!idxVars, B!nodeVars, B!opVars
<1>2. UNCHANGED askVars => UNCHANGED A!heapVars
  BY DEF askVars, A!heapVars, A!idxVars, A!nodeVars, A!opVars
<1>3. UNCHANGED B!heapVars => B!AbsPending' = B!AbsPending
  BY B!Called, BidSizes
<1>4. UNCHANGED A!heapVars => A!AbsPending' = A!AbsPending
  BY A!Called, AskSizes
<1>5. B!Done => B!AbsPending = "done"
  BY B!Called, BidSizes
<1>6. A!Done => A!AbsPending = "done"
  BY A!Called, AskSizes
<1> QED BY <1>1, <1>2, <1>3, <1>4, <1>5, <1>6, BidCommands, AskCommands

\* No step of the controller changes a node of either heap.
LEMMA ControlStill ==
  ASSUME EngineFits, Good, OrdersInv', [Next]_vars, ~BidStep, ~AskStep
  PROVE  B!Content' = B!Content /\ A!Content' = A!Content
<1>1. BidMove /\ AskMove
  BY NextMoves DEF Good
<1>2. UNCHANGED bidVars \/ bid_state \in {"S_IDLE", "S_DONE"}
  BY DEF Next, Control, TakeOrder, PushIssue, PushWait, PeekBidIssue, PeekBidWait, PeekAskIssue,
         PeekAskWait, Decide, PopBidIssue, PopBidWait, PopAskIssue, PopAskWait, UpdateBidIssue,
         UpdateAskIssue, UpdateWait, EmitTrade, MmuAnswer, Finished, vars, heapsVars,
         Bid!CmdPush, Bid!CmdPeek, Bid!CmdPop, Bid!CmdUpdate, Bid!Done
<1>3. UNCHANGED askVars \/ ask_state \in {"S_IDLE", "S_DONE"}
  BY DEF Next, Control, TakeOrder, PushIssue, PushWait, PeekBidIssue, PeekBidWait, PeekAskIssue,
         PeekAskWait, Decide, PopBidIssue, PopBidWait, PopAskIssue, PopAskWait, UpdateBidIssue,
         UpdateAskIssue, UpdateWait, EmitTrade, MmuAnswer, Finished, vars, heapsVars,
         Ask!CmdPush, Ask!CmdPeek, Ask!CmdPop, Ask!CmdUpdate, Ask!Done
<1> QED BY <1>1, <1>2, <1>3, BidKept, AskKept

\* A step of a heap has no effect, or the whole effect of the command the
\* controller waits for.
BidEffect ==
  \/ /\ tstate = "T_PUSH_WAIT" /\ ~pending_is_ask /\ B!AbsPending = "OP_PUSH"
     /\ \A m \in B!Content : m.ts # pending_order.ts
     /\ B!Content' = B!Content \cup {pending_order}
  \/ /\ tstate = "T_POP_BID_WAIT" /\ B!AbsPending = "OP_POP"
     /\ \A n : B!Leads(n) => B!Content' = B!Content \ {n}
  \/ /\ tstate = "T_UPDATE_BID_WAIT" /\ B!AbsPending = "OP_UPDATE"
     /\ \A n : B!Leads(n) => B!Content' = (B!Content \ {n}) \cup {BidRest}
AskEffect ==
  \/ /\ tstate = "T_PUSH_WAIT" /\ pending_is_ask /\ A!AbsPending = "OP_PUSH"
     /\ \A m \in A!Content : m.ts # pending_order.ts
     /\ A!Content' = A!Content \cup {pending_order}
  \/ /\ tstate = "T_POP_ASK_WAIT" /\ A!AbsPending = "OP_POP"
     /\ \A n : A!Leads(n) => A!Content' = A!Content \ {n}
  \/ /\ tstate = "T_UPDATE_ASK_WAIT" /\ A!AbsPending = "OP_UPDATE"
     /\ \A n : A!Leads(n) => A!Content' = (A!Content \ {n}) \cup {AskRest}

LEMMA BidStepEffect ==
  ASSUME EngineFits, Good, OrdersInv', BidStep
  PROVE  /\ UNCHANGED ctrlVars /\ BidAtWork
         /\ A!Content' = A!Content /\ A!AbsPending' = A!AbsPending
         /\ \/ B!Content' = B!Content /\ B!AbsPending' = B!AbsPending
            \/ B!AbsPending' = "done" /\ BidEffect
<1>0. B!SizesFit /\ B!OInv /\ B!OInv' /\ EInv
  BY FitsBoth DEF Good, OrdersInv
<1>1. UNCHANGED <<askVars, ctrlVars>> /\ BidMove /\ AskMove
  BY NextMoves DEF Good, BidStep, Next
<1>2. A!Content' = A!Content /\ A!AbsPending' = A!AbsPending
  BY <1>1, AskKept, PendingFacts
<1>3. B!Step
  BY BidBusy DEF BidStep, B!Step
<1>4. /\ bid_state \notin {"S_IDLE", "S_DONE"}
      /\ BidAtWork /\ tstate # "T_PEEK_BID_WAIT"
  <2>1. bid_state \notin {"S_IDLE", "S_DONE"}
    BY <1>0, <1>3, B!StepStays, BidSizes DEF B!OInv
  <2> QED BY <1>0, <2>1 DEF EInv, TurnInv, SnapInv
<1>5. \/ B!Content' = B!Content /\ B!AbsPending' = B!AbsPending
      \/ B!AbsPending = bid_saved_op /\ B!AbsPending' = "done" /\ B!Effect
  BY <1>0, <1>3, B!StepEffect, BidSizes
<1>6. ASSUME B!AbsPending = bid_saved_op, B!AbsPending' = "done", B!Effect
      PROVE  BidEffect
  <2>1. CASE tstate = "T_PUSH_WAIT"
    <3>1. bid_saved_op = "OP_PUSH" /\ bid_saved_op_data = pending_order /\ ~pending_is_ask
      BY <1>0, <1>4, <2>1 DEF EInv, CommandInv, BidAtWork
    <3>2. bid_state \in B!PushStates
      BY <1>0, <1>4, <1>6, <3>1 DEF B!OInv, B!CommandInv, B!IInv, B!TypeOK, B!HeapTypeOK,
             B!States, B!PushStates, B!SiftStates, B!PopStates, B!AbsPending
    <3>3. \A m \in B!Content : m.ts # pending_order.ts
      BY <1>0, <3>1, <3>2, B!ContentKeys, BidSizes
    <3> QED BY <1>6, <2>1, <3>1, <3>3 DEF BidEffect, B!Effect
  <2>2. CASE tstate = "T_POP_BID_WAIT"
    BY <1>0, <1>6, <2>2 DEF EInv, CommandInv, BidEffect, B!Effect
  <2>3. CASE tstate = "T_UPDATE_BID_WAIT"
    BY <1>0, <1>6, <2>3 DEF EInv, CommandInv, BidEffect, B!Effect
  <2> QED BY <1>4, <2>1, <2>2, <2>3 DEF BidAtWork
<1> QED BY <1>1, <1>2, <1>4, <1>5, <1>6

LEMMA AskStepEffect ==
  ASSUME EngineFits, Good, OrdersInv', AskStep
  PROVE  /\ UNCHANGED ctrlVars /\ AskAtWork
         /\ B!Content' = B!Content /\ B!AbsPending' = B!AbsPending
         /\ \/ A!Content' = A!Content /\ A!AbsPending' = A!AbsPending
            \/ A!AbsPending' = "done" /\ AskEffect
<1>0. A!SizesFit /\ A!OInv /\ A!OInv' /\ EInv
  BY FitsBoth DEF Good, OrdersInv
<1>1. UNCHANGED <<bidVars, ctrlVars>> /\ BidMove /\ AskMove
  BY NextMoves DEF Good, AskStep, Next
<1>2. B!Content' = B!Content /\ B!AbsPending' = B!AbsPending
  BY <1>1, BidKept, PendingFacts
<1>3. A!Step
  BY AskBusy DEF AskStep, A!Step
<1>4. /\ ask_state \notin {"S_IDLE", "S_DONE"}
      /\ AskAtWork /\ tstate # "T_PEEK_ASK_WAIT"
  <2>1. ask_state \notin {"S_IDLE", "S_DONE"}
    BY <1>0, <1>3, A!StepStays, AskSizes DEF A!OInv
  <2> QED BY <1>0, <2>1 DEF EInv, TurnInv, SnapInv
<1>5. \/ A!Content' = A!Content /\ A!AbsPending' = A!AbsPending
      \/ A!AbsPending = ask_saved_op /\ A!AbsPending' = "done" /\ A!Effect
  BY <1>0, <1>3, A!StepEffect, AskSizes
<1>6. ASSUME A!AbsPending = ask_saved_op, A!AbsPending' = "done", A!Effect
      PROVE  AskEffect
  <2>1. CASE tstate = "T_PUSH_WAIT"
    <3>1. ask_saved_op = "OP_PUSH" /\ ask_saved_op_data = pending_order /\ pending_is_ask
      BY <1>0, <1>4, <2>1 DEF EInv, CommandInv, AskAtWork
    <3>2. ask_state \in A!PushStates
      BY <1>0, <1>4, <1>6, <3>1 DEF A!OInv, A!CommandInv, A!IInv, A!TypeOK, A!HeapTypeOK,
             A!States, A!PushStates, A!SiftStates, A!PopStates, A!AbsPending
    <3>3. \A m \in A!Content : m.ts # pending_order.ts
      BY <1>0, <3>1, <3>2, A!ContentKeys, AskSizes
    <3> QED BY <1>6, <2>1, <3>1, <3>3 DEF AskEffect, A!Effect
  <2>2. CASE tstate = "T_POP_ASK_WAIT"
    BY <1>0, <1>6, <2>2 DEF EInv, CommandInv, AskEffect, A!Effect
  <2>3. CASE tstate = "T_UPDATE_ASK_WAIT"
    BY <1>0, <1>6, <2>3 DEF EInv, CommandInv, AskEffect, A!Effect
  <2> QED BY <1>4, <2>1, <2>2, <2>3 DEF AskAtWork
<1> QED BY <1>1, <1>2, <1>4, <1>5, <1>6

-----------------------------------------------------------------------------
(* The book.                                                                *)

\* Until a pop or an update has its effect the snapped root leads its heap.
LeadInv ==
  /\ tstate = "T_POP_BID_WAIT" /\ B!AbsPending = "OP_POP" => B!Leads(bid_root_snap)
  /\ tstate = "T_UPDATE_BID_WAIT" /\ B!AbsPending = "OP_UPDATE" => B!Leads(bid_root_snap)
  /\ tstate = "T_POP_ASK_WAIT" /\ A!AbsPending = "OP_POP" => A!Leads(ask_root_snap)
  /\ tstate = "T_UPDATE_ASK_WAIT" /\ A!AbsPending = "OP_UPDATE" => A!Leads(ask_root_snap)

\* The trade has been carried out on one side.
BidDone ==
  \/ tstate \in {"T_UPDATE_ASK_ISSUE", "T_UPDATE_ASK_WAIT", "T_EMIT_TRADE"}
  \/ tstate \in {"T_POP_ASK_ISSUE", "T_POP_ASK_WAIT"} /\ ~latched_partial_bid
  \/ tstate \in {"T_POP_BID_WAIT", "T_UPDATE_BID_WAIT"} /\ B!AbsPending = "done"
AskDone ==
  \/ tstate \in {"T_UPDATE_BID_ISSUE", "T_UPDATE_BID_WAIT", "T_EMIT_TRADE"}
  \/ tstate \in {"T_POP_ASK_WAIT", "T_UPDATE_ASK_WAIT"} /\ A!AbsPending = "done"

DoneInv ==
  /\ BidDone => AbsBids = B!Content
  /\ AskDone => AbsAsks = A!Content

\* An order that is being entered has not reached the book yet.
PushDue == IF pending_is_ask THEN A!AbsPending = "OP_PUSH" ELSE B!AbsPending = "OP_PUSH"
Entering == tstate = "T_PUSH_WAIT" /\ PushDue

Uncrossed == \A b \in B!Content, a \in A!Content : b.price < a.price

\* Nothing is left to match when an order is taken, nor until it is in the book.
QuietInv == tstate \in {"T_IDLE", "T_PUSH_ISSUE"} \/ Entering => Uncrossed

BookInv == LeadInv /\ DoneInv /\ QuietInv

\* The contents are those the engine's properties speak of.
LEMMA Contents ==
  /\ Bid!Content = B!Content /\ Ask!Content = A!Content
  /\ Bid!Content' = B!Content' /\ Ask!Content' = A!Content'
<1>1. Bid!Content = B!Content /\ Ask!Content = A!Content
  BY BidState, AskState
<1>2. (Bid!Content = B!Content)' /\ (Ask!Content = A!Content)'
  BY <1>1, PTL
<1> QED BY <1>1, <1>2

\* The orders of the book are told apart by their timestamps.
LEMMA Stamped ==
  ASSUME EngineFits, Good
  PROVE  /\ \A n \in B!Content : n \in B!Node /\ n.ts \in Stamps
         /\ \A n \in A!Content : n \in B!Node /\ n.ts \in Stamps
         /\ \A m, n \in B!Content : m.ts = n.ts => m = n
         /\ \A m, n \in A!Content : m.ts = n.ts => m = n
<1>1. /\ \A n \in B!Content : n \in B!Node /\ n.ts < TsSpan
      /\ \A m, n \in B!Content : m.ts = n.ts => m = n
  BY FitsBoth, B!ContentKeys, BidSizes DEF Good, OrdersInv
<1>2. /\ \A n \in A!Content : n \in A!Node /\ n.ts < TsSpan
      /\ \A m, n \in A!Content : m.ts = n.ts => m = n
  BY FitsBoth, A!ContentKeys, AskSizes DEF Good, OrdersInv
<1>3. \A n \in B!Node : n.ts \in Nat
  BY DEF B!Node
<1>4. \A k \in Nat : k < TsSpan => k \in Stamps
  BY EngineAssumption DEF Stamps
<1> QED BY <1>1, <1>2, <1>3, <1>4, OneMemory

\* The heaps at rest: an empty one is empty, the root of the other one leads.
LEMMA RootsLead ==
  ASSUME EngineFits, Good
  PROVE  /\ bid_state \in {"S_IDLE", "S_DONE"} =>
              /\ bid_size = 0 <=> B!Content = {}
              /\ bid_size > 0 => B!CacheHit(0) /\ B!Leads(bid_node_cache[0])
         /\ ask_state \in {"S_IDLE", "S_DONE"} =>
              /\ ask_size = 0 <=> A!Content = {}
              /\ ask_size > 0 => A!CacheHit(0) /\ A!Leads(ask_node_cache[0])
<1>0. bid_size \in Nat /\ ask_size \in Nat
  BY EngineAssumption DEF Good, OrdersInv, B!OInv, A!OInv, B!IInv, A!IInv, B!TypeOK, A!TypeOK,
         B!HeapTypeOK, A!HeapTypeOK
<1>1. ASSUME bid_state \in {"S_IDLE", "S_DONE"}
      PROVE  /\ bid_size = 0 <=> B!Content = {}
             /\ bid_size > 0 => B!CacheHit(0) /\ B!Leads(bid_node_cache[0])
  BY <1>1, FitsBoth, B!RestLeads, BidSizes DEF Good, OrdersInv
<1>2. ASSUME ask_state \in {"S_IDLE", "S_DONE"}
      PROVE  /\ ask_size = 0 <=> A!Content = {}
             /\ ask_size > 0 => A!CacheHit(0) /\ A!Leads(ask_node_cache[0])
  BY <1>2, FitsBoth, A!RestLeads, AskSizes DEF Good, OrdersInv
<1> QED BY <1>0, <1>1, <1>2

\* The snapped roots lead their heaps while they are still in them.
LEMMA SnapsLead ==
  ASSUME EngineFits, Good
  PROVE  /\ BidSnapped => B!Leads(bid_root_snap)
         /\ AskSnapped => A!Leads(ask_root_snap)
<1>1. BidSnapped => bid_state = "S_IDLE" /\ bid_size > 0 /\ bid_node_cache[0] = bid_root_snap
  BY DEF Good, EInv, TurnInv, SnapInv, BidAtWork, BidSnapped
<1>2. AskSnapped => ask_state = "S_IDLE" /\ ask_size > 0 /\ ask_node_cache[0] = ask_root_snap
  BY DEF Good, EInv, TurnInv, SnapInv, AskAtWork, AskSnapped
<1> QED BY <1>1, <1>2, RootsLead

\* Timestamps stay what is left of the time.
LEMMA TimeNext ==
  ASSUME EngineFits, Good, [Next]_vars
  PROVE  TimeInv'
<1>0. TimeInv /\ TsSpan \in Nat \ {0}
  BY EngineAssumption DEF Good
<1>1. CASE TakeOrder
  <2>1. PICK gap \in Gaps : now' = now + gap
    BY <1>1 DEF TakeOrder
  <2>2. now' \in Nat
    BY <2>1, EngineAssumption DEF Good, EInv, CtrlTypeOK
  <2>3. StampAt(now') \in Stamps /\ now' % TsSpan = StampAt(now')
    BY <2>2, StampIs DEF Stamps
  <2>4. /\ arrival' = [arrival EXCEPT ![StampAt(now')] = now']
        /\ trade_event_data' = trade_event_data
    BY <1>1 DEF TakeOrder, tradeVars
  <2>5. pending_order'.ts = StampAt(now')
    <3>1. PICK p, q : pending_order' = [price |-> p, ts |-> StampAt(now'), amount |-> q]
      BY <1>1 DEF TakeOrder
    <3> QED BY <3>1
  <2>6. arrival' \in [Stamps -> Nat]
    BY <1>0, <2>2, <2>3, <2>4 DEF TimeInv
  <2>7. ASSUME NEW t \in Stamps PROVE arrival'[t] % TsSpan = t
    <3>1. CASE t = StampAt(now')
      BY <1>0, <2>3, <2>4, <3>1 DEF TimeInv
    <3>2. CASE t # StampAt(now')
      BY <1>0, <2>4, <3>2 DEF TimeInv
    <3> QED BY <3>1, <3>2
  <2> QED BY <1>0, <2>3, <2>4, <2>5, <2>6, <2>7 DEF TimeInv, Stamps
<1>2. CASE Decide
  <2>1. UNCHANGED <<arrival, pending_order>> /\ tstate = "T_DECIDE"
    BY <1>2 DEF Decide, orderVars
  <2>2. bid_root_snap \in B!Node /\ bid_root_snap.ts \in Stamps
    <3>1. bid_root_snap \in B!Content
      BY <2>1, SnapsLead DEF BidSnapped, B!Leads
    <3> QED BY <3>1, Stamped
  <2>3. trade_event_data'.ts \in {bid_root_snap.ts, trade_event_data.ts}
    BY <1>2, <2>2 DEF Decide, tradeVars, B!Node
  <2> QED BY <1>0, <2>1, <2>2, <2>3 DEF TimeInv, Stamps
<1>3. CASE ~TakeOrder /\ ~Decide
  <2>1. UNCHANGED <<arrival, pending_order, trade_event_data>>
    BY <1>3 DEF Next, Control, PushIssue, PushWait, PeekBidIssue, PeekBidWait, PeekAskIssue,
           PeekAskWait, PopBidIssue, PopBidWait, PopAskIssue, PopAskWait, UpdateBidIssue,
           UpdateAskIssue, UpdateWait, EmitTrade, BidStep, AskStep, MmuAnswer, Finished,
           vars, ctrlVars, orderVars, tradeVars
  <2> QED BY <1>0, <2>1 DEF TimeInv, Stamps
<1> QED BY <1>1, <1>2, <1>3

\* Books that stay the same.
LEMMA LeadsStill ==
  /\ B!Content' = B!Content => \A n : B!Leads(n)' <=> B!Leads(n)
  /\ A!Content' = A!Content => \A n : A!Leads(n)' <=> A!Leads(n)
  /\ B!Content' = B!Content /\ A!Content' = A!Content => (Uncrossed' <=> Uncrossed)
<1>1. ASSUME B!Content' = B!Content, NEW n PROVE B!Leads(n)' <=> B!Leads(n)
  BY <1>1 DEF B!Leads, B!Precedes
<1>2. ASSUME A!Content' = A!Content, NEW n PROVE A!Leads(n)' <=> A!Leads(n)
  BY <1>2 DEF A!Leads, A!Precedes
<1>3. B!Content' = B!Content /\ A!Content' = A!Content => (Uncrossed' <=> Uncrossed)
  BY DEF Uncrossed
<1> QED BY <1>1, <1>2, <1>3

-----------------------------------------------------------------------------
(* The engine in the terms of OrderBook.                                    *)

BookStep == [Book!Next]_(Book!bookVars)
AbsTrade == IF tstate \in TradeStates THEN Dated(trade_event_data) ELSE NoNode

Dates(C) == {Dated(o) : o \in C}
DatedBids == {Dated(o) : o \in AbsBids}
DatedAsks == {Dated(o) : o \in AbsAsks}

\* No order of the book gets another date.
DatesKept == \A o \in AbsBids \cup AbsAsks : arrival'[o.ts] = arrival[o.ts]

\* The book outside a trade, and within one.
LEMMA BookIs ==
  /\ tstate \notin TradeStates =>
       AbsBids = B!Content /\ AbsAsks = A!Content /\ AbsTrade = NoNode
  /\ tstate \in TradeStates =>
       /\ AbsBids = (B!Content \ {bid_root_snap}) \cup (IF latched_partial_bid THEN {BidRest} ELSE {})
       /\ AbsAsks = (A!Content \ {ask_root_snap}) \cup (IF latched_partial_ask THEN {AskRest} ELSE {})
       /\ AbsTrade = Dated(trade_event_data)
BY Contents DEF AbsBids, AbsAsks, AbsTrade

\* The same after a step.
LEMMA BookNext ==
  /\ tstate' \notin TradeStates =>
       AbsBids' = B!Content' /\ AbsAsks' = A!Content' /\ AbsTrade' = NoNode
  /\ tstate' \in TradeStates =>
       /\ AbsBids' = (B!Content' \ {bid_root_snap'})
                       \cup (IF latched_partial_bid' THEN {BidRest'} ELSE {})
       /\ AbsAsks' = (A!Content' \ {ask_root_snap'})
                       \cup (IF latched_partial_ask' THEN {AskRest'} ELSE {})
       /\ AbsTrade' = Dated(trade_event_data)'
BY Contents DEF AbsBids, AbsAsks, AbsTrade, TradeStates, Dated

\* Steps the book does not notice.
LEMMA BookStutters ==
  ASSUME DatesKept, AbsBids' = AbsBids, AbsAsks' = AbsAsks, AbsTrade' = AbsTrade
  PROVE  BookStep
<1>1. \A o \in AbsBids \cup AbsAsks : Dated(o)' = Dated(o)
  BY DEF DatesKept, Dated
<1>2. DatedBids' = DatedBids /\ DatedAsks' = DatedAsks
  BY <1>1 DEF DatedBids, DatedAsks
<1> QED BY <1>2 DEF BookStep, Book!bookVars, AbsTrade, DatedBids, DatedAsks

\* Nothing is dated anew while no order is taken.
LEMMA DatesStill ==
  ASSUME UNCHANGED arrival
  PROVE  DatesKept /\ \A o : Dated(o)' = Dated(o)
BY DEF DatesKept, Dated

\* Dates are told apart by their timestamps, and among the dates of one turn
\* of the counter the timestamps are in order.
LEMMA DatesApart ==
  ASSUME TimeInv, NEW s \in Stamps, NEW t \in Stamps
  PROVE  /\ arrival[s] \in Nat /\ arrival[t] \in Nat
         /\ arrival[s] = arrival[t] => s = t
         /\ arrival[s] \div TsSpan = arrival[t] \div TsSpan
              => (arrival[s] < arrival[t] <=> s < t)
<1>1. /\ arrival[s] \in Nat /\ arrival[t] \in Nat /\ TsSpan \in Nat \ {0}
      /\ arrival[s] % TsSpan = s /\ arrival[t] % TsSpan = t
  BY EngineAssumption DEF TimeInv
<1>2. \A x, y \in Nat : x \div TsSpan = y \div TsSpan
        => (x < y <=> x % TsSpan < y % TsSpan)
  BY <1>1
<1> QED BY <1>1, <1>2

\* An order keeps its price and amount when it is dated.
LEMMA DatedIs ==
  ASSUME TimeInv, NEW n \in B!Node, n.ts \in Stamps
  PROVE  /\ Dated(n) \in B!Node
         /\ Dated(n).price = n.price /\ Dated(n).amount = n.amount
         /\ Dated(n).ts = arrival[n.ts]
BY DatesApart DEF Dated, B!Node

\* Orders with timestamps of their own stay apart when they are dated.
LEMMA DatedApart ==
  ASSUME TimeInv, NEW C, \A n \in C : n \in B!Node /\ n.ts \in Stamps,
         NEW r \in B!Node, r.ts \in Stamps, \A n \in C : n.ts = r.ts => n = r
  PROVE  \A n \in C : Dated(n) = Dated(r) => n = r
<1> SUFFICES ASSUME NEW n \in C, Dated(n) = Dated(r) PROVE n = r
  OBVIOUS
<1>1. arrival[n.ts] = arrival[r.ts]
  BY DatedIs
<1> QED BY <1>1, DatesApart

\* A book from which r is taken, and to which R is added.
LEMMA DatedSet ==
  ASSUME TimeInv, NEW C, \A n \in C : n \in B!Node /\ n.ts \in Stamps,
         NEW r \in C, \A n \in C : n.ts = r.ts => n = r, NEW R
  PROVE  Dates((C \ {r}) \cup R) = (Dates(C) \ {Dated(r)}) \cup Dates(R)
<1>1. \A n \in C : Dated(n) = Dated(r) => n = r
  BY DatedApart
<1> QED BY <1>1 DEF Dates

\* An order that leads is one of the best.
LEMMA BestIs ==
  ASSUME EngineFits, Good, tstate \notin TradeStates
  PROVE  /\ \A n : B!Leads(n) =>
              Dated(n) \in Book!BestBids /\ n \in B!Content /\ n \in B!Node /\ n.ts \in Stamps
         /\ \A n : A!Leads(n) =>
              Dated(n) \in Book!BestAsks /\ n \in A!Content /\ n \in B!Node /\ n.ts \in Stamps
<1>0. TimeInv /\ AbsBids = B!Content /\ AbsAsks = A!Content
  BY BookIs DEF Good
<1>1. ASSUME NEW n, B!Leads(n)
      PROVE  Dated(n) \in Book!BestBids /\ n \in B!Content /\ n \in B!Node /\ n.ts \in Stamps
  <2>1. n \in B!Content /\ n \in B!Node /\ n.ts \in Stamps
    BY <1>1, Stamped DEF B!Leads
  <2>2. ASSUME NEW m \in B!Content PROVE ~Book!BidFirst(Dated(m), Dated(n))
    <3>1. m \in B!Node /\ m.ts \in Stamps
      BY Stamped
    <3>2. /\ m.price \in Nat /\ n.price \in Nat /\ m.ts \in Nat /\ n.ts \in Nat
      BY <2>1, <3>1 DEF B!Node
    <3>3. m = n \/ n.price > m.price \/ (n.price = m.price /\ n.ts < m.ts)
      BY <1>1 DEF B!Leads, B!Precedes
    <3>4. Book!Older(Dated(m), Dated(n)) => m.ts < n.ts
      BY <1>0, <2>1, <3>1, DatedIs, DatesApart DEF Book!Older
    <3>5. Dated(m).price = m.price /\ Dated(n).price = n.price
      BY <1>0, <2>1, <3>1, DatedIs
    <3> QED BY <3>2, <3>3, <3>4, <3>5 DEF Book!BidFirst
  <2>3. Dated(n) \in DatedBids /\ \A d \in DatedBids : ~Book!BidFirst(d, Dated(n))
    BY <1>0, <2>1, <2>2 DEF DatedBids
  <2> QED BY <2>1, <2>3 DEF Book!BestBids, DatedBids
<1>2. ASSUME NEW n, A!Leads(n)
      PROVE  Dated(n) \in Book!BestAsks /\ n \in A!Content /\ n \in B!Node /\ n.ts \in Stamps
  <2>1. n \in A!Content /\ n \in B!Node /\ n.ts \in Stamps
    BY <1>2, Stamped DEF A!Leads
  <2>2. ASSUME NEW m \in A!Content PROVE ~Book!AskFirst(Dated(m), Dated(n))
    <3>1. m \in B!Node /\ m.ts \in Stamps
      BY Stamped
    <3>2. /\ m.price \in Nat /\ n.price \in Nat /\ m.ts \in Nat /\ n.ts \in Nat
      BY <2>1, <3>1 DEF B!Node
    <3>3. m = n \/ n.price < m.price \/ (n.price = m.price /\ n.ts < m.ts)
      BY <1>2 DEF A!Leads, A!Precedes
    <3>4. Book!Older(Dated(m), Dated(n)) => m.ts < n.ts
      BY <1>0, <2>1, <3>1, DatedIs, DatesApart DEF Book!Older
    <3>5. Dated(m).price = m.price /\ Dated(n).price = n.price
      BY <1>0, <2>1, <3>1, DatedIs
    <3> QED BY <3>2, <3>3, <3>4, <3>5 DEF Book!AskFirst
  <2>3. Dated(n) \in DatedAsks /\ \A d \in DatedAsks : ~Book!AskFirst(d, Dated(n))
    BY <1>0, <2>1, <2>2 DEF DatedAsks
  <2> QED BY <2>1, <2>3 DEF Book!BestAsks, DatedAsks
<1> QED BY <1>1, <1>2

\* A book of heaps that do not cross is not crossed.
LEMMA NotCrossed ==
  ASSUME EngineFits, Good, Uncrossed, tstate \notin TradeStates
  PROVE  ~Book!Crossed
<1>0. TimeInv /\ AbsBids = B!Content /\ AbsAsks = A!Content
  BY BookIs DEF Good
<1>1. SUFFICES ASSUME Book!Crossed PROVE FALSE
  OBVIOUS
<1>2. PICK d \in DatedBids : \E e \in DatedAsks : d.price >= e.price
  BY <1>1 DEF Book!Crossed, DatedBids, DatedAsks
<1>3. PICK e \in DatedAsks : d.price >= e.price
  BY <1>2
<1>4. PICK b \in B!Content : d = Dated(b)
  BY <1>0 DEF DatedBids
<1>5. PICK a \in A!Content : e = Dated(a)
  BY <1>0 DEF DatedAsks
<1>6. b \in B!Node /\ a \in B!Node /\ d.price = b.price /\ e.price = a.price
  BY <1>0, <1>4, <1>5, Stamped, DatedIs
<1>7. b.price < a.price
  BY DEF Uncrossed
<1> QED BY <1>3, <1>6, <1>7 DEF B!Node

-----------------------------------------------------------------------------
(* Every step keeps the book's invariant and is a step of the book.         *)

\* A heap at work.
LEMMA BidStepBook ==
  ASSUME EngineFits, Good, OrdersInv', BookInv, BidStep
  PROVE  BookInv' /\ BookStep
<1>1. /\ UNCHANGED ctrlVars /\ BidAtWork
      /\ A!Content' = A!Content /\ A!AbsPending' = A!AbsPending
  BY BidStepEffect
<1>2. /\ UNCHANGED <<tstate, bid_root_snap, ask_root_snap, trade_event_data, latched_partial_bid,
                     latched_partial_ask, pending_is_ask, pending_order, arrival>>
      /\ BidRest' = BidRest /\ AskRest' = AskRest
  BY <1>1 DEF ctrlVars, orderVars, snapVars, tradeVars, BidRest, AskRest
<1>3. AbsAsks' = AbsAsks /\ AbsTrade' = AbsTrade
  BY <1>1, <1>2, BookIs, BookNext, DatesStill
<1>4. CASE B!Content' = B!Content /\ B!AbsPending' = B!AbsPending
  <2>1. AbsBids' = AbsBids
    BY <1>2, <1>4, BookIs, BookNext
  <2>2. LeadInv'
    BY <1>1, <1>2, <1>4, LeadsStill DEF BookInv, LeadInv
  <2>3. DoneInv'
    BY <1>1, <1>2, <1>3, <1>4, <2>1 DEF BookInv, DoneInv, BidDone, AskDone
  <2>4. QuietInv'
    BY <1>1, <1>2, <1>4, LeadsStill DEF BookInv, QuietInv, Entering, PushDue
  <2> QED BY <1>2, <1>3, <2>1, <2>2, <2>3, <2>4, BookStutters, DatesStill DEF BookInv
<1>5. ASSUME B!AbsPending' = "done", BidEffect PROVE BookInv' /\ BookStep
  <2>1. CASE tstate = "T_PUSH_WAIT"
    <3>1. /\ ~pending_is_ask /\ B!AbsPending = "OP_PUSH"
          /\ \A m \in B!Content : m.ts # pending_order.ts
          /\ B!Content' = B!Content \cup {pending_order}
      BY <1>5, <2>1 DEF BidEffect
    <3>2. BookInv'
      BY <1>2, <1>5, <2>1, <3>1 DEF BookInv, LeadInv, DoneInv, BidDone, AskDone, QuietInv,
             Entering, PushDue
    <3>3. tstate \notin TradeStates /\ tstate' \notin TradeStates
      BY <1>2, <2>1 DEF TradeStates
    <3>4. ~Book!Crossed
      BY <2>1, <3>1, <3>3, NotCrossed DEF BookInv, QuietInv, Entering, PushDue
    <3>5. AbsTrade = NoNode /\ AbsTrade' = NoNode /\ AbsBids = B!Content /\ AbsBids' = B!Content'
      BY <3>3, BookIs, BookNext
    <3>6. /\ DatedBids' = DatedBids \cup {Dated(pending_order)}
          /\ Dated(pending_order) \notin DatedBids
          /\ DatedAsks' = DatedAsks
      <4>1. \A n \in B!Content : n \in B!Node /\ n.ts \in Stamps
        BY Stamped
      <4>2. pending_order \in B!Node /\ pending_order.ts \in Stamps /\ TimeInv
        BY DEF Good, EInv, CtrlTypeOK, TimeInv
      <4>3. \A n \in B!Content : Dated(n) # Dated(pending_order)
        BY <3>1, <4>1, <4>2, DatedApart
      <4>4. \A o : Dated(o)' = Dated(o)
        BY <1>2, DatesStill
      <4> QED BY <1>3, <3>1, <3>5, <4>3, <4>4 DEF DatedBids, DatedAsks
    <3>7. Book!Submit
      BY <3>4, <3>5, <3>6 DEF Book!Submit, AbsTrade, DatedBids, DatedAsks
    <3> QED BY <3>2, <3>7 DEF BookStep, Book!Next
  <2>2. CASE tstate \in {"T_POP_BID_WAIT", "T_UPDATE_BID_WAIT"}
    <3>1. B!Leads(bid_root_snap)
      BY <1>5, <2>2 DEF BidEffect, BookInv, LeadInv
    <3>2. tstate \in TradeStates /\ tstate' \in TradeStates
      BY <1>2, <2>2 DEF TradeStates
    <3>3. B!Content' = (B!Content \ {bid_root_snap})
                         \cup (IF latched_partial_bid THEN {BidRest} ELSE {})
      BY <1>5, <2>2, <3>1 DEF BidEffect, Good, EInv, LatchInv
    <3>4. AbsBids' = AbsBids /\ AbsBids' = B!Content'
      BY <1>2, <3>2, <3>3, BookIs, BookNext
    <3>5. BookInv'
      BY <1>2, <1>3, <1>1, <1>5, <2>2, <3>4 DEF BookInv, LeadInv, DoneInv, BidDone, AskDone,
             QuietInv, Entering
    <3> QED BY <1>2, <1>3, <3>4, <3>5, BookStutters, DatesStill
  <2> QED BY <1>5, <2>1, <2>2 DEF BidEffect
<1> QED BY <1>4, <1>5, BidStepEffect

LEMMA AskStepBook ==
  ASSUME EngineFits, Good, OrdersInv', BookInv, AskStep
  PROVE  BookInv' /\ BookStep
<1>1. /\ UNCHANGED ctrlVars /\ AskAtWork
      /\ B!Content' = B!Content /\ B!AbsPending' = B!AbsPending
  BY AskStepEffect
<1>2. /\ UNCHANGED <<tstate, bid_root_snap, ask_root_snap, trade_event_data, latched_partial_bid,
                     latched_partial_ask, pending_is_ask, pending_order, arrival>>
      /\ BidRest' = BidRest /\ AskRest' = AskRest
  BY <1>1 DEF ctrlVars, orderVars, snapVars, tradeVars, BidRest, AskRest
<1>3. AbsBids' = AbsBids /\ AbsTrade' = AbsTrade
  BY <1>1, <1>2, BookIs, BookNext, DatesStill
<1>4. CASE A!Content' = A!Content /\ A!AbsPending' = A!AbsPending
  <2>1. AbsAsks' = AbsAsks
    BY <1>2, <1>4, BookIs, BookNext
  <2>2. LeadInv'
    BY <1>1, <1>2, <1>4, LeadsStill DEF BookInv, LeadInv
  <2>3. DoneInv'
    BY <1>1, <1>2, <1>3, <1>4, <2>1 DEF BookInv, DoneInv, BidDone, AskDone
  <2>4. QuietInv'
    BY <1>1, <1>2, <1>4, LeadsStill DEF BookInv, QuietInv, Entering, PushDue
  <2> QED BY <1>2, <1>3, <2>1, <2>2, <2>3, <2>4, BookStutters, DatesStill DEF BookInv
<1>5. ASSUME A!AbsPending' = "done", AskEffect PROVE BookInv' /\ BookStep
  <2>1. CASE tstate = "T_PUSH_WAIT"
    <3>1. /\ pending_is_ask /\ A!AbsPending = "OP_PUSH"
          /\ \A m \in A!Content : m.ts # pending_order.ts
          /\ A!Content' = A!Content \cup {pending_order}
      BY <1>5, <2>1 DEF AskEffect
    <3>2. BookInv'
      BY <1>2, <1>5, <2>1, <3>1 DEF BookInv, LeadInv, DoneInv, BidDone, AskDone, QuietInv,
             Entering, PushDue
    <3>3. tstate \notin TradeStates /\ tstate' \notin TradeStates
      BY <1>2, <2>1 DEF TradeStates
    <3>4. ~Book!Crossed
      BY <2>1, <3>1, <3>3, NotCrossed DEF BookInv, QuietInv, Entering, PushDue
    <3>5. AbsTrade = NoNode /\ AbsTrade' = NoNode /\ AbsAsks = A!Content /\ AbsAsks' = A!Content'
      BY <3>3, BookIs, BookNext
    <3>6. /\ DatedAsks' = DatedAsks \cup {Dated(pending_order)}
          /\ Dated(pending_order) \notin DatedAsks
          /\ DatedBids' = DatedBids
      <4>1. \A n \in A!Content : n \in B!Node /\ n.ts \in Stamps
        BY Stamped
      <4>2. pending_order \in B!Node /\ pending_order.ts \in Stamps /\ TimeInv
        BY DEF Good, EInv, CtrlTypeOK, TimeInv
      <4>3. \A n \in A!Content : Dated(n) # Dated(pending_order)
        BY <3>1, <4>1, <4>2, DatedApart
      <4>4. \A o : Dated(o)' = Dated(o)
        BY <1>2, DatesStill
      <4> QED BY <1>3, <3>1, <3>5, <4>3, <4>4 DEF DatedBids, DatedAsks
    <3>7. Book!Submit
      BY <3>4, <3>5, <3>6 DEF Book!Submit, AbsTrade, DatedBids, DatedAsks
    <3> QED BY <3>2, <3>7 DEF BookStep, Book!Next
  <2>2. CASE tstate \in {"T_POP_ASK_WAIT", "T_UPDATE_ASK_WAIT"}
    <3>1. A!Leads(ask_root_snap)
      BY <1>5, <2>2 DEF AskEffect, BookInv, LeadInv
    <3>2. tstate \in TradeStates /\ tstate' \in TradeStates
      BY <1>2, <2>2 DEF TradeStates
    <3>3. A!Content' = (A!Content \ {ask_root_snap})
                         \cup (IF latched_partial_ask THEN {AskRest} ELSE {})
      BY <1>5, <2>2, <3>1 DEF AskEffect, Good, EInv, LatchInv
    <3>4. AbsAsks' = AbsAsks /\ AbsAsks' = A!Content'
      BY <1>2, <3>2, <3>3, BookIs, BookNext
    <3>5. BookInv'
      BY <1>2, <1>3, <1>1, <1>5, <2>2, <3>4 DEF BookInv, LeadInv, DoneInv, BidDone, AskDone,
             QuietInv, Entering
    <3> QED BY <1>2, <1>3, <3>4, <3>5, BookStutters, DatesStill
  <2> QED BY <1>5, <2>1, <2>2 DEF AskEffect
<1> QED BY <1>4, <1>5, AskStepEffect

\* A late answer.
LEMMA StillBook ==
  ASSUME EngineFits, Good, OrdersInv', BookInv, MmuAnswer \/ UNCHANGED vars, ~BidStep, ~AskStep
  PROVE  BookInv' /\ BookStep
<1>1. B!Content' = B!Content /\ A!Content' = A!Content
  BY ControlStill DEF Next
<1>2. UNCHANGED <<bidVars, askVars, ctrlVars>>
  BY DEF MmuAnswer, vars, heapsVars
<1>3. B!AbsPending' = B!AbsPending /\ A!AbsPending' = A!AbsPending
  BY <1>2, PendingFacts
<1>4. /\ UNCHANGED <<tstate, bid_root_snap, ask_root_snap, trade_event_data, latched_partial_bid,
                     latched_partial_ask, pending_is_ask, arrival>>
      /\ BidRest' = BidRest /\ AskRest' = AskRest
  BY <1>2 DEF ctrlVars, orderVars, snapVars, tradeVars, BidRest, AskRest
<1>5. AbsBids' = AbsBids /\ AbsAsks' = AbsAsks /\ AbsTrade' = AbsTrade
  BY <1>1, <1>4, BookIs, BookNext, DatesStill
<1>6. LeadInv'
  BY <1>1, <1>3, <1>4, LeadsStill DEF BookInv, LeadInv
<1>7. DoneInv'
  BY <1>1, <1>3, <1>4, <1>5 DEF BookInv, DoneInv, BidDone, AskDone
<1>8. QuietInv'
  BY <1>1, <1>3, <1>4, LeadsStill DEF BookInv, QuietInv, Entering, PushDue
<1> QED BY <1>4, <1>5, <1>6, <1>7, <1>8, BookStutters, DatesStill DEF BookInv

\* A side that is empty crosses nothing.
LEMMA RoundUncrossed ==
  ASSUME EngineFits, Good, AfterRound = "T_IDLE",
         bid_state \in {"S_IDLE", "S_DONE"}, ask_state \in {"S_IDLE", "S_DONE"}
  PROVE  Uncrossed
<1>1. bid_size \in Nat /\ ask_size \in Nat
  BY EngineAssumption DEF Good, OrdersInv, B!OInv, A!OInv, B!IInv, A!IInv, B!TypeOK, A!TypeOK,
         B!HeapTypeOK, A!HeapTypeOK
<1>2. bid_size = 0 \/ ask_size = 0
  BY <1>1 DEF AfterRound, BothSides
<1>3. B!Content = {} \/ A!Content = {}
  BY <1>2, RootsLead
<1> QED BY <1>3 DEF Uncrossed

\* An order is taken and entered, and the roots are looked at.
LEMMA EntryBook ==
  ASSUME EngineFits, Good, OrdersInv', StampsFresh', BookInv, [Next]_vars, ~BidStep, ~AskStep,
         \/ TakeOrder \/ PushIssue \/ PushWait
         \/ PeekBidIssue \/ PeekBidWait \/ PeekAskIssue \/ PeekAskWait
  PROVE  BookInv' /\ BookStep
<1>1. B!Content' = B!Content /\ A!Content' = A!Content
  BY ControlStill
<1>2. tstate \notin TradeStates /\ tstate' \notin TradeStates
  BY DEF TakeOrder, PushIssue, PushWait, PeekBidIssue, PeekBidWait, PeekAskIssue, PeekAskWait,
         AfterRound, TradeStates
<1>3. BookStep
  <2>1. CASE TakeOrder
    <3>1. /\ arrival' = [arrival EXCEPT ![StampAt(now')] = now'] /\ arrival \in [Stamps -> Nat]
          /\ tstate' = "T_PUSH_ISSUE"
      BY <2>1 DEF TakeOrder, Good, TimeInv
    <3>2. pending_order'.ts = StampAt(now')
      <4>1. PICK p, q : pending_order' = [price |-> p, ts |-> StampAt(now'), amount |-> q]
        BY <2>1 DEF TakeOrder
      <4> QED BY <4>1
    <3>3. \A o \in B!Content \cup A!Content : o.ts # StampAt(now')
      BY <1>1, <3>1, <3>2, Contents DEF StampsFresh
    <3>4. \A o \in B!Content \cup A!Content : o.ts \in Stamps
      BY Stamped
    <3>5. DatesKept
      BY <1>2, <3>1, <3>3, <3>4, BookIs DEF DatesKept
    <3> QED BY <1>1, <1>2, <3>5, BookIs, BookNext, BookStutters
  <2>2. CASE ~TakeOrder
    <3>1. UNCHANGED arrival
      BY <2>2 DEF PushIssue, PushWait, PeekBidIssue, PeekBidWait, PeekAskIssue, PeekAskWait,
             orderVars
    <3> QED BY <1>1, <1>2, <3>1, BookIs, BookNext, BookStutters, DatesStill
  <2> QED BY <2>1, <2>2
<1>4. LeadInv' /\ DoneInv'
  BY <1>2 DEF LeadInv, DoneInv, BidDone, AskDone, TradeStates
<1>5. CASE TakeOrder
  BY <1>1, <1>3, <1>4, <1>5, LeadsStill DEF TakeOrder, BookInv, QuietInv, Entering
<1>6. CASE PushIssue
  <2>1. tstate = "T_PUSH_ISSUE" /\ tstate' = "T_PUSH_WAIT"
    BY <1>6 DEF PushIssue
  <2> QED BY <1>1, <1>3, <1>4, <2>1, LeadsStill DEF BookInv, QuietInv
<1>7. CASE PushWait
  <2>1. tstate = "T_PUSH_WAIT" /\ tstate' = AfterRound
    BY <1>7 DEF PushWait
  <2>2. bid_state \in {"S_IDLE", "S_DONE"} /\ ask_state \in {"S_IDLE", "S_DONE"}
    BY <1>7, <2>1 DEF PushWait, Bid!Done, Ask!Done, Good, EInv, TurnInv, BidAtWork, AskAtWork
  <2>3. tstate' = "T_IDLE" => Uncrossed'
    BY <1>1, <2>1, <2>2, RoundUncrossed, LeadsStill
  <2>4. tstate' \in {"T_IDLE", "T_PEEK_BID_ISSUE"}
    BY <2>1 DEF AfterRound
  <2> QED BY <1>3, <1>4, <2>3, <2>4 DEF BookInv, QuietInv, Entering
<1>8. CASE PeekBidIssue \/ PeekBidWait \/ PeekAskIssue \/ PeekAskWait
  BY <1>3, <1>4, <1>8 DEF PeekBidIssue, PeekBidWait, PeekAskIssue, PeekAskWait, BookInv, QuietInv,
         Entering
<1> QED BY <1>3, <1>4, <1>5, <1>6, <1>7, <1>8 DEF BookInv

\* The decision makes the trade.
LEMMA DecideBook ==
  ASSUME EngineFits, Good, OrdersInv', BookInv, [Next]_vars, ~BidStep, ~AskStep, Decide
  PROVE  BookInv' /\ BookStep
<1>1. B!Content' = B!Content /\ A!Content' = A!Content
  BY ControlStill
<1>2. /\ tstate = "T_DECIDE" /\ tstate' = Choice /\ tstate \notin TradeStates /\ BothSides
      /\ bid_root_snap' = bid_root_snap /\ ask_root_snap' = ask_root_snap
      /\ BidRest' = BidRest /\ AskRest' = AskRest /\ arrival' = arrival
  BY DEF Decide, TradeStates, snapVars, orderVars, BidRest, AskRest, Good, EInv, SnapInv,
         PeekStates
<1>3. B!Leads(bid_root_snap) /\ A!Leads(ask_root_snap)
  BY <1>2, SnapsLead DEF BidSnapped, AskSnapped
<1>4. /\ Dated(bid_root_snap) \in Book!BestBids /\ bid_root_snap \in B!Content
      /\ bid_root_snap \in B!Node /\ bid_root_snap.ts \in Stamps
      /\ Dated(ask_root_snap) \in Book!BestAsks /\ ask_root_snap \in A!Content
      /\ ask_root_snap \in B!Node /\ ask_root_snap.ts \in Stamps
      /\ TimeInv
  BY <1>2, <1>3, BestIs DEF Good
<1>5. CASE TradeMatch
  <2>1. /\ trade_event_data' =
             [bid_root_snap EXCEPT !.amount =
                IF @ < ask_root_snap.amount THEN @ ELSE ask_root_snap.amount]
        /\ latched_partial_bid' = PartialBidRemains /\ latched_partial_ask' = PartialAskRemains
        /\ PartialBidRemains <=> bid_root_snap.amount > ask_root_snap.amount
        /\ PartialAskRemains <=> ask_root_snap.amount > bid_root_snap.amount
        /\ bid_root_snap.price >= ask_root_snap.price
    BY <1>5 DEF Decide, PartialBidRemains, PartialAskRemains, TradeMatch
  <2>2. /\ tstate' \in {"T_POP_ASK_ISSUE", "T_POP_BID_ISSUE"} /\ tstate' \in TradeStates
        /\ tstate' = "T_POP_ASK_ISSUE" => latched_partial_bid'
    BY <1>2, <1>5, <2>1 DEF Choice, TradeStates
  <2>3. BookInv'
    BY <2>2 DEF BookInv, LeadInv, DoneInv, BidDone, AskDone, QuietInv, Entering
  <2>4. /\ AbsBids = B!Content /\ AbsAsks = A!Content /\ AbsTrade = NoNode
        /\ AbsBids' = (B!Content \ {bid_root_snap})
                        \cup (IF latched_partial_bid' THEN {BidRest} ELSE {})
        /\ AbsAsks' = (A!Content \ {ask_root_snap})
                        \cup (IF latched_partial_ask' THEN {AskRest} ELSE {})
        /\ AbsTrade' = Dated(trade_event_data)'
    BY <1>1, <1>2, <2>2, BookIs, BookNext
  <2> DEFINE b == Dated(bid_root_snap)
             a == Dated(ask_root_snap)
             q == IF b.amount < a.amount THEN b.amount ELSE a.amount
             KeptBids == IF latched_partial_bid' THEN {BidRest} ELSE {}
             KeptAsks == IF latched_partial_ask' THEN {AskRest} ELSE {}
  <2>5. /\ b.amount = bid_root_snap.amount /\ b.price = bid_root_snap.price
        /\ a.amount = ask_root_snap.amount /\ a.price = ask_root_snap.price
        /\ bid_root_snap.amount \in Nat /\ ask_root_snap.amount \in Nat
        /\ b \in B!Node /\ a \in B!Node
    BY <1>4, DatedIs DEF B!Node
  <2>6. Book!Rest(b, q) = {Dated(o) : o \in KeptBids}
    <3>1. CASE bid_root_snap.amount > ask_root_snap.amount
      <4>1. q = ask_root_snap.amount /\ latched_partial_bid'
        BY <2>1, <2>5, <3>1
      <4>2. Book!Rest(b, q) = {[b EXCEPT !.amount = @ - q]}
        BY <2>5, <3>1, <4>1 DEF Book!Rest
      <4>3. [b EXCEPT !.amount = @ - q] = Dated(BidRest)
        BY <1>4, <4>1 DEF BidRest, Dated, B!Node
      <4> QED BY <4>1, <4>2, <4>3
    <3>2. CASE ~(bid_root_snap.amount > ask_root_snap.amount)
      <4>1. q = bid_root_snap.amount /\ ~latched_partial_bid'
        BY <2>1, <2>5, <3>2
      <4> QED BY <2>5, <4>1 DEF Book!Rest
    <3> QED BY <3>1, <3>2
  <2>7. Book!Rest(a, q) = {Dated(o) : o \in KeptAsks}
    <3>1. CASE ask_root_snap.amount > bid_root_snap.amount
      <4>1. q = bid_root_snap.amount /\ latched_partial_ask'
        BY <2>1, <2>5, <3>1
      <4>2. Book!Rest(a, q) = {[a EXCEPT !.amount = @ - q]}
        BY <2>5, <3>1, <4>1 DEF Book!Rest
      <4>3. [a EXCEPT !.amount = @ - q] = Dated(AskRest)
        BY <1>4, <4>1 DEF AskRest, Dated, B!Node
      <4> QED BY <4>1, <4>2, <4>3
    <3>2. CASE ~(ask_root_snap.amount > bid_root_snap.amount)
      <4>1. q = ask_root_snap.amount /\ ~latched_partial_ask'
        BY <2>1, <2>5, <3>2
      <4> QED BY <2>5, <4>1 DEF Book!Rest
    <3> QED BY <3>1, <3>2
  <2>8. Dated(trade_event_data)' = [b EXCEPT !.amount = q]
    BY <1>2, <1>4, <2>1, <2>5 DEF Dated, B!Node
  <2>9. /\ DatedBids' = (DatedBids \ {b}) \cup Book!Rest(b, q)
        /\ DatedAsks' = (DatedAsks \ {a}) \cup Book!Rest(a, q)
    <3>1. \A o : Dated(o)' = Dated(o)
      BY <1>2, DatesStill
    <3>2. DatedBids' = (DatedBids \ {b}) \cup {Dated(o) : o \in KeptBids}
      <4>1. DatedBids' = {Dated(o) : o \in (B!Content \ {bid_root_snap}) \cup KeptBids}
        BY <2>4, <3>1 DEF DatedBids
      <4>2. DatedBids = {Dated(o) : o \in B!Content}
        BY <2>4 DEF DatedBids
      <4>3. /\ \A n \in B!Content : n \in B!Node /\ n.ts \in Stamps
            /\ \A n \in B!Content : n.ts = bid_root_snap.ts => n = bid_root_snap
        BY <1>4, Stamped
      <4> HIDE DEF KeptBids
      <4>4. Dates((B!Content \ {bid_root_snap}) \cup KeptBids)
              = (Dates(B!Content) \ {Dated(bid_root_snap)}) \cup Dates(KeptBids)
        BY <1>4, <4>3, DatedSet
      <4> QED BY <4>1, <4>2, <4>4 DEF Dates
    <3>3. DatedAsks' = (DatedAsks \ {a}) \cup {Dated(o) : o \in KeptAsks}
      <4>1. DatedAsks' = {Dated(o) : o \in (A!Content \ {ask_root_snap}) \cup KeptAsks}
        BY <2>4, <3>1 DEF DatedAsks
      <4>2. DatedAsks = {Dated(o) : o \in A!Content}
        BY <2>4 DEF DatedAsks
      <4>3. /\ \A n \in A!Content : n \in B!Node /\ n.ts \in Stamps
            /\ \A n \in A!Content : n.ts = ask_root_snap.ts => n = ask_root_snap
        BY <1>4, Stamped
      <4> HIDE DEF KeptAsks
      <4>4. Dates((A!Content \ {ask_root_snap}) \cup KeptAsks)
              = (Dates(A!Content) \ {Dated(ask_root_snap)}) \cup Dates(KeptAsks)
        BY <1>4, <4>3, DatedSet
      <4> QED BY <4>1, <4>2, <4>4 DEF Dates
    <3> QED BY <2>6, <2>7, <3>2, <3>3
  <2>10. Book!Match
    <3> HIDE DEF b, a, q
    <3>1. b.price >= a.price
      BY <2>1, <2>5
    <3>2. b \in Book!BestBids /\ a \in Book!BestAsks
      BY <1>4 DEF b, a
    <3>3. AbsTrade = NoNode /\ AbsTrade' = [b EXCEPT !.amount = q]
      BY <2>4, <2>8
    <3> QED BY <2>9, <3>1, <3>2, <3>3 DEF Book!Match, AbsTrade, DatedBids, DatedAsks, q
  <2> QED BY <2>3, <2>10 DEF BookStep, Book!Next
<1>6. CASE ~TradeMatch
  <2>1. tstate' = "T_IDLE" /\ tstate' \notin TradeStates
    BY <1>2, <1>6 DEF Choice, PartialBidRemains, TradeStates
  <2>2. BookStep
    BY <1>1, <1>2, <2>1, BookIs, BookNext, BookStutters, DatesStill
  <2>3. bid_root_snap.price < ask_root_snap.price
    BY <1>2, <1>4, <1>6 DEF TradeMatch, B!Node
  <2>4. Uncrossed
    <3> SUFFICES ASSUME NEW b \in B!Content, NEW a \in A!Content PROVE b.price < a.price
      BY DEF Uncrossed
    <3>1. b \in B!Node /\ a \in B!Node
      BY Stamped
    <3>2. b.price \in Nat /\ a.price \in Nat
          /\ bid_root_snap.price \in Nat /\ ask_root_snap.price \in Nat
      BY <1>4, <3>1 DEF B!Node
    <3>3. b.price <= bid_root_snap.price
      BY <1>3, <3>2 DEF B!Leads, B!Precedes
    <3>4. a.price >= ask_root_snap.price
      BY <1>3, <3>2 DEF A!Leads, A!Precedes
    <3> QED BY <2>3, <3>2, <3>3, <3>4
  <2>5. BookInv'
    BY <1>1, <2>1, <2>4, LeadsStill DEF BookInv, LeadInv, DoneInv, BidDone, AskDone, QuietInv,
           Entering
  <2> QED BY <2>2, <2>5
<1> QED BY <1>5, <1>6

\* The trade is reported when both heaps have carried it out.
LEMMA EmitBook ==
  ASSUME EngineFits, Good, OrdersInv', BookInv, [Next]_vars, ~BidStep, ~AskStep, EmitTrade
  PROVE  BookInv' /\ BookStep
<1>1. B!Content' = B!Content /\ A!Content' = A!Content
  BY ControlStill
<1>2. /\ tstate = "T_EMIT_TRADE" /\ tstate' = AfterRound
      /\ tstate \in TradeStates /\ tstate' \notin TradeStates
      /\ tstate' \in {"T_IDLE", "T_PEEK_BID_ISSUE"}
  BY DEF EmitTrade, TradeStates, AfterRound
<1>3. AbsBids = B!Content /\ AbsAsks = A!Content
  BY <1>2 DEF BookInv, DoneInv, BidDone, AskDone
<1>4. /\ DatedBids' = DatedBids /\ DatedAsks' = DatedAsks /\ AbsTrade' = NoNode
  <2>1. AbsBids' = AbsBids /\ AbsAsks' = AbsAsks /\ AbsTrade' = NoNode
    BY <1>1, <1>2, <1>3, BookNext
  <2>2. \A o : Dated(o)' = Dated(o)
    BY DatesStill DEF EmitTrade, orderVars
  <2> QED BY <2>1, <2>2 DEF DatedBids, DatedAsks
<1>5. AbsTrade # NoNode
  <2>1. Dated(trade_event_data) \in B!Node
    BY DatedIs DEF Good, EInv, CtrlTypeOK, TimeInv
  <2> QED BY <1>2, <2>1, BookIs, BidSizes
<1>6. Book!Report
  BY <1>4, <1>5 DEF Book!Report, AbsTrade, DatedBids, DatedAsks
<1>7. bid_state = "S_IDLE" /\ ask_state = "S_IDLE"
  BY <1>2 DEF Good, EInv, TurnInv, BidAtWork, AskAtWork
<1>8. tstate' = "T_IDLE" => Uncrossed'
  BY <1>1, <1>2, <1>7, RoundUncrossed, LeadsStill
<1>9. BookInv'
  BY <1>2, <1>8 DEF BookInv, LeadInv, DoneInv, BidDone, AskDone, QuietInv, Entering
<1> QED BY <1>6, <1>9 DEF BookStep, Book!Next

\* The heaps catch up with the trade, which the book has made already.
LEMMA CarryOutBook ==
  ASSUME EngineFits, Good, OrdersInv', BookInv, [Next]_vars, ~BidStep, ~AskStep,
         \/ PopBidIssue \/ PopBidWait \/ PopAskIssue \/ PopAskWait
         \/ UpdateBidIssue \/ UpdateAskIssue \/ UpdateWait
  PROVE  BookInv' /\ BookStep
<1>1. B!Content' = B!Content /\ A!Content' = A!Content
  BY ControlStill
<1>2. /\ tstate \in TradeStates /\ tstate' \in TradeStates
      /\ UNCHANGED <<bid_root_snap, ask_root_snap, trade_event_data, latched_partial_bid,
                     latched_partial_ask, arrival>>
      /\ BidRest' = BidRest /\ AskRest' = AskRest
  BY DEF PopBidIssue, PopBidWait, PopAskIssue, PopAskWait, UpdateBidIssue, UpdateAskIssue,
         UpdateWait, TradeStates, snapVars, tradeVars, orderVars, BidRest, AskRest
<1>3. AbsBids' = AbsBids /\ AbsAsks' = AbsAsks /\ AbsTrade' = AbsTrade
  BY <1>1, <1>2, BookIs, BookNext, DatesStill
<1>4. BookStep
  BY <1>2, <1>3, BookStutters, DatesStill
<1>5. QuietInv'
  BY <1>2 DEF QuietInv, Entering, TradeStates
<1>6. /\ BidSnapped => B!Leads(bid_root_snap)'
      /\ AskSnapped => A!Leads(ask_root_snap)'
  BY <1>1, <1>2, SnapsLead, LeadsStill
<1>7. LatchInv /\ BookInv
  BY DEF Good, EInv
<1> SUFFICES LeadInv' /\ DoneInv'
  BY <1>4, <1>5 DEF BookInv
<1>8. CASE PopBidIssue
  <2>1. tstate = "T_POP_BID_ISSUE" /\ tstate' = "T_POP_BID_WAIT" /\ B!CmdPop
    BY <1>8, BidCommands DEF PopBidIssue
  <2>2. B!AbsPending' = "OP_POP"
    BY <2>1, B!Called, BidSizes
  <2> QED BY <1>6, <2>1, <2>2 DEF LeadInv, DoneInv, BidDone, AskDone, BidSnapped
<1>9. CASE PopBidWait
  <2>1. /\ tstate = "T_POP_BID_WAIT" /\ B!AbsPending = "done"
        /\ tstate' \in {"T_UPDATE_ASK_ISSUE", "T_POP_ASK_ISSUE"}
    BY <1>9, PendingFacts DEF PopBidWait
  <2> QED BY <1>1, <1>3, <1>7, <2>1 DEF BookInv, LeadInv, DoneInv, BidDone, AskDone
<1>10. CASE PopAskIssue
  <2>1. /\ tstate = "T_POP_ASK_ISSUE" /\ tstate' = "T_POP_ASK_WAIT" /\ A!CmdPop
    BY <1>10, AskCommands DEF PopAskIssue
  <2>2. A!AbsPending' = "OP_POP"
    BY <2>1, A!Called, AskSizes
  <2> QED BY <1>1, <1>2, <1>3, <1>6, <1>7, <2>1, <2>2 DEF BookInv, LeadInv, DoneInv, BidDone,
                 AskDone, AskSnapped
<1>11. CASE PopAskWait
  <2>1. /\ tstate = "T_POP_ASK_WAIT" /\ A!AbsPending = "done"
        /\ tstate' = IF latched_partial_bid THEN "T_UPDATE_BID_ISSUE" ELSE "T_EMIT_TRADE"
    BY <1>11, PendingFacts DEF PopAskWait
  <2> QED BY <1>1, <1>3, <1>7, <2>1 DEF BookInv, LeadInv, DoneInv, BidDone, AskDone
<1>12. CASE UpdateBidIssue
  <2>1. tstate = "T_UPDATE_BID_ISSUE" /\ tstate' = "T_UPDATE_BID_WAIT" /\ B!CmdUpdate(BidRest)
    BY <1>12, BidCommands DEF UpdateBidIssue
  <2>2. B!CacheHit(0) /\ bid_node_cache[0] = bid_root_snap /\ bid_root_snap \in B!Node
    BY <2>1, RootsCached DEF Good, EInv, TurnInv, BidAtWork, SnapInv, BidSnapped, CtrlTypeOK
  <2>3. B!UpdateKeysOk(BidRest)
    BY <2>2 DEF B!UpdateKeysOk, BidRest, B!Node
  <2>4. B!AbsPending' = "OP_UPDATE"
    BY <2>1, <2>2, <2>3, B!Called, BidSizes
  <2> QED BY <1>1, <1>3, <1>6, <1>7, <2>1, <2>4 DEF BookInv, LeadInv, DoneInv, BidDone, AskDone,
                 BidSnapped
<1>13. CASE UpdateAskIssue
  <2>1. tstate = "T_UPDATE_ASK_ISSUE" /\ tstate' = "T_UPDATE_ASK_WAIT" /\ A!CmdUpdate(AskRest)
    BY <1>13, AskCommands DEF UpdateAskIssue
  <2>2. A!CacheHit(0) /\ ask_node_cache[0] = ask_root_snap /\ ask_root_snap \in B!Node
    BY <2>1, RootsCached DEF Good, EInv, TurnInv, AskAtWork, SnapInv, AskSnapped, CtrlTypeOK
  <2>3. A!UpdateKeysOk(AskRest)
    BY <2>2 DEF A!UpdateKeysOk, AskRest, B!Node
  <2>4. A!AbsPending' = "OP_UPDATE"
    BY <2>1, <2>2, <2>3, A!Called, AskSizes
  <2> QED BY <1>1, <1>3, <1>6, <1>7, <2>1, <2>4 DEF BookInv, LeadInv, DoneInv, BidDone, AskDone,
                 AskSnapped
<1>14. CASE UpdateWait
  <2>1. /\ \/ tstate = "T_UPDATE_BID_WAIT" /\ B!AbsPending = "done"
           \/ tstate = "T_UPDATE_ASK_WAIT" /\ A!AbsPending = "done"
        /\ tstate' = "T_EMIT_TRADE"
    BY <1>14, PendingFacts DEF UpdateWait
  <2> QED BY <1>1, <1>3, <1>7, <2>1 DEF BookInv, LeadInv, DoneInv, BidDone, AskDone
<1> QED BY <1>8, <1>9, <1>10, <1>11, <1>12, <1>13, <1>14

\* The inductive invariant of the engine.
EngineInv == Good /\ BookInv

LEMMA InitBook ==
  ASSUME EngineFits
  PROVE  Init => EngineInv /\ Book!Init
<1> SUFFICES ASSUME Init PROVE EngineInv /\ Book!Init
  OBVIOUS
<1>1. EInv /\ tstate = "T_IDLE" /\ tstate \notin TradeStates
  BY InitEInv DEF Init, TradeStates
<1>2. TimeInv
  BY EngineAssumption DEF Init, TimeInv, Stamps, Bid!ZeroNode
<1>3. OrdersInv
  <2>1. B!Start /\ A!Start
    BY HeapsStart
  <2>2. B!OInv
    BY <2>1, B!InitOrder, BidSizes
  <2>3. A!OInv
    BY <2>1, A!InitOrder, AskSizes
  <2> QED BY <2>2, <2>3 DEF OrdersInv
<1>4. Good
  BY <1>1, <1>2, <1>3 DEF Good, StampsFresh
<1>5. B!Content = {} /\ A!Content = {}
  <2>1. bid_size = 0 /\ ask_size = 0 /\ bid_state = "S_IDLE" /\ ask_state = "S_IDLE"
    BY DEF Init, Bid!HeapInit, Ask!HeapInit
  <2> QED BY <1>4, <2>1, RootsLead
<1>6. BookInv
  BY <1>1, <1>5 DEF BookInv, LeadInv, DoneInv, BidDone, AskDone, QuietInv, Entering, Uncrossed
<1>7. Book!Init
  BY <1>1, <1>5, BookIs DEF Book!Init, AbsTrade
<1> QED BY <1>4, <1>6, <1>7 DEF EngineInv

LEMMA NextBook ==
  ASSUME EngineFits
  PROVE  EngineInv /\ StampsFresh' /\ [Next]_vars => EngineInv' /\ BookStep
<1> SUFFICES ASSUME EngineInv, StampsFresh', [Next]_vars PROVE EngineInv' /\ BookStep
  OBVIOUS
<1>1. Good /\ BookInv
  BY DEF EngineInv
<1>2. OrdersInv'
  BY <1>1, OrdersNext DEF Good
<1>3. Good'
  BY <1>1, <1>2, NextEInv, TimeNext DEF Good
<1>4. ASSUME BidStep PROVE BookInv' /\ BookStep
  BY <1>1, <1>2, <1>4, BidStepBook
<1>5. ASSUME AskStep PROVE BookInv' /\ BookStep
  BY <1>1, <1>2, <1>5, AskStepBook
<1>6. ASSUME ~BidStep, ~AskStep PROVE BookInv' /\ BookStep
  <2>1. CASE MmuAnswer \/ UNCHANGED vars
    BY <1>1, <1>2, <1>6, <2>1, StillBook
  <2>2. CASE TakeOrder \/ Control \/ EmitTrade
    BY <1>1, <1>2, <1>6, <2>2, EntryBook, DecideBook, EmitBook, CarryOutBook DEF Control
  <2> QED BY <1>6, <2>1, <2>2 DEF Next, Finished
<1> QED BY <1>3, <1>4, <1>5, <1>6 DEF EngineInv

LEMMA AlwaysEngineInv ==
  ASSUME EngineFits
  PROVE  Spec /\ []StampsFresh => []EngineInv
BY InitBook, NextBook, PTL DEF Spec

-----------------------------------------------------------------------------
(* The theorems.                                                            *)

\* An engine that takes orders has an uncrossed book, whatever was entered and
\* however often the counter started again: the controller never returns to
\* T_IDLE with a trade left out.
THEOREM IdleBookUncrossed ==
  ASSUME EngineFits
  PROVE  Spec /\ []StampsFresh => []UncrossedWhenIdle
<1>1. EngineInv => UncrossedWhenIdle
  BY Contents DEF EngineInv, BookInv, QuietInv, Uncrossed, UncrossedWhenIdle
<1> QED BY <1>1, AlwaysEngineInv, PTL

\* Two orders that came between the same two starts of the counter.
SameTurn(o, n) == arrival[o.ts] \div TsSpan = arrival[n.ts] \div TsSpan

\* The root on which T_DECIDE decides is, by arrival, the oldest of the orders
\* of its price that came in its turn of the counter.
OldestOfTurnFirst ==
  tstate = "T_DECIDE" =>
    /\ \A o \in Bid!Content : o.price = bid_root_snap.price /\ SameTurn(o, bid_root_snap)
         => arrival[bid_root_snap.ts] <= arrival[o.ts]
    /\ \A o \in Ask!Content : o.price = ask_root_snap.price /\ SameTurn(o, ask_root_snap)
         => arrival[ask_root_snap.ts] <= arrival[o.ts]

\* What is true of the README's oldest-first rule: it holds between the orders
\* of one turn of the 32-bit counter, across any number of turns.  Between the
\* orders of two turns it does not: SymbolEngine's OldestFirst is refuted by TLC.
THEOREM OldestOrderFirst ==
  ASSUME EngineFits
  PROVE  Spec /\ []StampsFresh => []OldestOfTurnFirst
<1>1. EngineInv => OldestOfTurnFirst
  <2> SUFFICES ASSUME EngineInv, tstate = "T_DECIDE" PROVE OldestOfTurnFirst
    BY DEF OldestOfTurnFirst
  <2>1. Good /\ TimeInv
    BY DEF EngineInv, Good
  <2>2. B!Leads(bid_root_snap) /\ A!Leads(ask_root_snap)
    BY <2>1, SnapsLead DEF BidSnapped, AskSnapped
  <2>3. ASSUME NEW o \in B!Content, o.price = bid_root_snap.price, SameTurn(o, bid_root_snap)
        PROVE  arrival[bid_root_snap.ts] <= arrival[o.ts]
    <3>1. /\ bid_root_snap \in B!Node /\ bid_root_snap.ts \in Stamps
          /\ o \in B!Node /\ o.ts \in Stamps
      BY <2>1, <2>2, Stamped DEF B!Leads
    <3>2. o = bid_root_snap \/ bid_root_snap.ts < o.ts
      BY <2>2, <2>3, <3>1 DEF B!Leads, B!Precedes, B!Node
    <3> QED BY <2>1, <2>3, <3>1, <3>2, DatesApart DEF SameTurn
  <2>4. ASSUME NEW o \in A!Content, o.price = ask_root_snap.price, SameTurn(o, ask_root_snap)
        PROVE  arrival[ask_root_snap.ts] <= arrival[o.ts]
    <3>1. /\ ask_root_snap \in B!Node /\ ask_root_snap.ts \in Stamps
          /\ o \in B!Node /\ o.ts \in Stamps
      BY <2>1, <2>2, Stamped DEF A!Leads
    <3>2. o = ask_root_snap \/ ask_root_snap.ts < o.ts
      BY <2>2, <2>4, <3>1 DEF A!Leads, A!Precedes, B!Node
    <3> QED BY <2>1, <2>4, <3>1, <3>2, DatesApart DEF SameTurn
  <2> QED BY <2>3, <2>4, Contents DEF OldestOfTurnFirst
<1> QED BY <1>1, AlwaysEngineInv, PTL

\* Two heaps, a cache, two memory tiers, a shared MMU port and the controller
\* behave as one order book matched in price-time priority, across any number
\* of turns of the counter: every step of the engine is a step of OrderBook or
\* none.
THEOREM EngineImplementsBook ==
  ASSUME EngineFits
  PROVE  Spec /\ []StampsFresh => ImplementsOrderBook
BY InitBook, NextBook, PTL DEF Spec, ImplementsOrderBook, Book!Spec, BookStep
=============================================================================
