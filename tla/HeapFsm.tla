------------------------------- MODULE HeapFsm -------------------------------
(***************************************************************************)
(* heap_fsm.sv: one priority-ordered heap of a symbol engine, a max-heap   *)
(* of bids or a min-heap of asks.  Indices below PrivateNodes are in a     *)
(* private BRAM, the others in virtual memory; indices 0..2 are also kept  *)
(* in a register cache.                                                    *)
(*                                                                         *)
(* Each S_x_ISSUE / S_x_WAIT pair of the source is the state "S_x" here,   *)
(* its phase being "ISSUE" or "WAIT" (other states stay in "ISSUE").  One  *)
(* action is one transition of the state machine.  parent_idx is up to     *)
(* date in every state of a push that reads it, left_idx and right_idx in  *)
(* every state of a pop that reads them: they are computed from            *)
(* target_idx.  A cache slot and its valid bit are one value, NoNode when  *)
(* the bit is clear.                                                       *)
(***************************************************************************)
EXTENDS VirtualMemory

CONSTANTS
  Kind,     \* HEAP_KIND: "bid" (max-heap) or "ask" (min-heap)
  IdxSpan   \* 2^IDX_WIDTH (2048)

ASSUME HeapAssumption ==
  /\ Kind \in Kinds
  /\ IdxSpan \in Nat /\ IdxSpan > 2
  /\ PrivateNodes >= 3     \* the cached indices are private

VARIABLES
  state, phase,       \* FSM state and its ISSUE/WAIT phase
  size,               \* nodes in the heap
  target_idx,         \* the hole being filled
  cur_node,           \* node being placed
  parent_node, left_node, right_node, has_right,  \* operands of the compare
  node_cache,         \* indices 0..2
  saved_op, saved_op_data, popped_root,
  priv                \* private BRAM

idxVars  == <<size, target_idx>>
nodeVars == <<cur_node, parent_node, left_node, right_node, has_right>>
opVars   == <<saved_op, saved_op_data, popped_root>>
heapVars == <<state, phase, idxVars, nodeVars, node_cache, opVars, priv>>

ZeroNode == [price |-> 0, ts |-> 0, amount |-> 0]

PushStates == {"S_PUSH_LAUNCH", "S_PUSH_RD_PARENT", "S_PUSH_DECIDE",
               "S_PUSH_WR_DOWN", "S_PUSH_WR_FINAL"}
SiftStates == {"S_POP_SIFT_RD_LEFT", "S_POP_SIFT_RD_RIGHT", "S_POP_SIFT_DECIDE",
               "S_POP_SIFT_WR_UP", "S_POP_SIFT_WR_FINAL"}
PopStates  == {"S_POP_LAUNCH", "S_POP_RD_ROOT", "S_POP_RD_LAST"}
States == PushStates \cup SiftStates \cup PopStates
            \cup {"S_IDLE", "S_PEEK_RD", "S_UPDATE_WR", "S_DONE"}

\* States whose ISSUE phase drives a memory read, or a write.
ReadStates  == {"S_PUSH_RD_PARENT", "S_POP_RD_ROOT", "S_POP_RD_LAST",
                "S_POP_SIFT_RD_LEFT", "S_POP_SIFT_RD_RIGHT", "S_PEEK_RD"}
WriteStates == {"S_PUSH_WR_DOWN", "S_PUSH_WR_FINAL", "S_POP_SIFT_WR_UP",
                "S_POP_SIFT_WR_FINAL", "S_UPDATE_WR"}

HeapTypeOK ==
  /\ state \in States /\ phase \in {"ISSUE", "WAIT"}
  /\ size \in 0 .. IdxSpan - 1 /\ target_idx \in 0 .. IdxSpan - 1
  /\ cur_node \in Node /\ parent_node \in Node
  /\ left_node \in Node /\ right_node \in Node /\ has_right \in {0, 1}
  /\ node_cache \in [0 .. 2 -> Node \cup {NoNode}]
  /\ saved_op \in {"OP_PUSH", "OP_POP", "OP_PEEK", "OP_UPDATE"}
  /\ saved_op_data \in Node /\ popped_root \in Node
  /\ priv \in [0 .. PrivateNodes - 1 -> Node]

HeapInit ==
  /\ state = "S_IDLE" /\ phase = "ISSUE"
  /\ size = 0 /\ target_idx = 0
  /\ cur_node = ZeroNode /\ parent_node = ZeroNode
  /\ left_node = ZeroNode /\ right_node = ZeroNode /\ has_right = 0
  /\ node_cache = [i \in 0 .. 2 |-> NoNode]
  /\ saved_op = "OP_PUSH" /\ saved_op_data = ZeroNode /\ popped_root = ZeroNode
  /\ priv = [i \in 0 .. PrivateNodes - 1 |-> ZeroNode]

-----------------------------------------------------------------------------
(* Comparator, index arithmetic, the memory-issue decode, the cache.        *)

Parent(i) == IF i = 0 THEN 0 ELSE (i - 1) \div 2
Left(i)   == (2 * i + 1) % IdxSpan
Right(i)  == (2 * i + 2) % IdxSpan

\* Mutant: a newer order wins a tie.
AWins_NewestFirst(a, b) ==
  IF a.price # b.price
  THEN IF Kind = "bid" THEN a.price > b.price ELSE a.price < b.price
  ELSE a.ts > b.ts

\* a_wins_fields: a belongs closer to the root than b.
AWins(a, b) ==
  IF a.price # b.price
  THEN IF Kind = "bid" THEN a.price > b.price ELSE a.price < b.price
  ELSE a.ts < b.ts

LeftWinsCur == AWins(left_node, cur_node)

\* Mutant: the right child is compared with the node being placed only.
Best_RightBeatsCur ==
  CASE has_right = 1 /\ Right(target_idx) < size /\ AWins(right_node, cur_node) -> "RIGHT"
    [] Left(target_idx) < size /\ LeftWinsCur -> "LEFT"
    [] OTHER -> "CUR"

\* The sift-down child selector.
Best ==
  LET RightWins == AWins(right_node, IF LeftWinsCur THEN left_node ELSE cur_node)
  IN  IF has_right = 1 /\ Right(target_idx) < size /\ RightWins THEN "RIGHT"
      ELSE IF Left(target_idx) < size /\ LeftWinsCur THEN "LEFT"
      ELSE "CUR"

BestIdx  == IF Best = "LEFT" THEN Left(target_idx) ELSE Right(target_idx)
BestNode == IF Best = "LEFT" THEN left_node ELSE right_node

\* The index the current state reads or writes, and what it writes.
MemIdx ==
  CASE state = "S_PUSH_RD_PARENT"    -> Parent(target_idx)
    [] state = "S_POP_RD_LAST"       -> size - 1
    [] state = "S_POP_SIFT_RD_LEFT"  -> Left(target_idx)
    [] state = "S_POP_SIFT_RD_RIGHT" -> Right(target_idx)
    [] state \in {"S_PUSH_WR_DOWN", "S_PUSH_WR_FINAL", "S_POP_SIFT_WR_UP",
                  "S_POP_SIFT_WR_FINAL"} -> target_idx
    [] OTHER -> 0

MemWdata ==
  CASE state = "S_PUSH_WR_DOWN"   -> parent_node
    [] state = "S_POP_SIFT_WR_UP" -> BestNode
    [] state = "S_UPDATE_WR"      -> saved_op_data
    [] OTHER -> cur_node

CacheHit(i) == i \in 0 .. 2 /\ node_cache[i] # NoNode

\* Mutant: a write fills an empty slot and leaves a valid one as it is.
CacheWrite_FillOnly(i, n) ==
  node_cache' = IF i < 3 /\ node_cache[i] = NoNode
                THEN [node_cache EXCEPT ![i] = n] ELSE node_cache

\* Writing through to the top-3 cache.
CacheWrite(i, n) ==
  node_cache' = IF i < 3 THEN [node_cache EXCEPT ![i] = n] ELSE node_cache

Goto(s) == state' = s /\ phase' = "ISSUE"

-----------------------------------------------------------------------------
(* S_IDLE: the four commands.  POP and PEEK come with data '0.              *)

CmdPush(n) ==
  /\ state = "S_IDLE"
  /\ Goto("S_PUSH_LAUNCH")
  /\ saved_op' = "OP_PUSH" /\ saved_op_data' = n
  /\ cur_node' = n
  /\ target_idx' = size
  /\ UNCHANGED <<size, parent_node, left_node, right_node, has_right,
                 node_cache, popped_root, priv>>

CmdPop ==
  /\ state = "S_IDLE"
  /\ Goto("S_POP_LAUNCH")
  /\ saved_op' = "OP_POP" /\ saved_op_data' = ZeroNode
  /\ target_idx' = 0
  /\ popped_root' = IF CacheHit(0) THEN node_cache[0] ELSE popped_root
  /\ UNCHANGED <<size, nodeVars, node_cache, priv>>

CmdPeek ==
  /\ state = "S_IDLE"
  /\ Goto(IF CacheHit(0) THEN "S_DONE" ELSE "S_PEEK_RD")
  /\ saved_op' = "OP_PEEK" /\ saved_op_data' = ZeroNode
  /\ UNCHANGED <<idxVars, nodeVars, node_cache, popped_root, priv>>

\* update_keys_ok: the new node keeps the root's price and timestamp.
UpdateKeysOk(n) == n.price = node_cache[0].price /\ n.ts = node_cache[0].ts

\* A cold root or other keys: the command ends without a write.
CmdUpdate(n) ==
  /\ state = "S_IDLE"
  /\ Goto(IF CacheHit(0) /\ UpdateKeysOk(n) THEN "S_UPDATE_WR" ELSE "S_DONE")
  /\ saved_op' = "OP_UPDATE" /\ saved_op_data' = n
  /\ UNCHANGED <<idxVars, nodeVars, node_cache, popped_root, priv>>

Done ==
  /\ state = "S_DONE"
  /\ Goto("S_IDLE")
  /\ UNCHANGED <<idxVars, nodeVars, node_cache, opVars, priv>>

-----------------------------------------------------------------------------
(* States that compute.                                                     *)

PushLaunch ==
  /\ state = "S_PUSH_LAUNCH"
  /\ Goto(IF size = 0 THEN "S_PUSH_WR_FINAL" ELSE "S_PUSH_RD_PARENT")
  /\ UNCHANGED <<idxVars, nodeVars, node_cache, opVars, priv>>

PushDecide ==
  /\ state = "S_PUSH_DECIDE"
  /\ Goto(IF AWins(cur_node, parent_node) THEN "S_PUSH_WR_DOWN" ELSE "S_PUSH_WR_FINAL")
  /\ UNCHANGED <<idxVars, nodeVars, node_cache, opVars, priv>>

\* An empty heap answers at once; so does the last node when it is cached.
PopLaunch ==
  /\ state = "S_POP_LAUNCH"
  /\ Goto(IF size = 0 \/ (CacheHit(0) /\ size = 1) THEN "S_DONE"
          ELSE IF CacheHit(0) THEN "S_POP_RD_LAST" ELSE "S_POP_RD_ROOT")
  /\ IF size = 1 /\ CacheHit(0)
     THEN size' = 0 /\ node_cache' = [i \in 0 .. 2 |-> NoNode]
     ELSE UNCHANGED <<size, node_cache>>
  /\ UNCHANGED <<target_idx, nodeVars, opVars, priv>>

SiftDecide ==
  /\ state = "S_POP_SIFT_DECIDE"
  /\ Goto(IF Best = "CUR" THEN "S_POP_SIFT_WR_FINAL" ELSE "S_POP_SIFT_WR_UP")
  /\ UNCHANGED <<idxVars, nodeVars, node_cache, opVars, priv>>

\* A missing child ends the sift, or leaves the left one alone.  The read of
\* the missing index is driven all the same, and the MMU may take it when it
\* is a virtual one.
MissingChild ==
  /\ phase = "ISSUE"
  /\ \/ /\ state = "S_POP_SIFT_RD_LEFT"
        /\ Left(target_idx) >= size
        /\ Goto("S_POP_SIFT_WR_FINAL")
        /\ UNCHANGED has_right
     \/ /\ state = "S_POP_SIFT_RD_RIGHT"
        /\ Right(target_idx) >= size
        /\ Goto("S_POP_SIFT_DECIDE")
        /\ has_right' = 0
  /\ UNCHANGED <<idxVars, cur_node, parent_node, left_node, right_node,
                 node_cache, opVars, priv>>

-----------------------------------------------------------------------------
(* What a completed read or write does.                                     *)

ReadParent(n) ==
  /\ state = "S_PUSH_RD_PARENT"
  /\ Goto("S_PUSH_DECIDE")
  /\ parent_node' = n
  /\ UNCHANGED <<idxVars, cur_node, left_node, right_node, has_right,
                 node_cache, opVars>>

ReadRoot(n) ==
  /\ state = "S_POP_RD_ROOT"
  /\ Goto(IF size = 1 THEN "S_DONE" ELSE "S_POP_RD_LAST")
  /\ popped_root' = n
  /\ IF size = 1
     THEN size' = 0 /\ node_cache' = [i \in 0 .. 2 |-> NoNode]
     ELSE UNCHANGED <<size, node_cache>>
  /\ UNCHANGED <<target_idx, nodeVars, saved_op, saved_op_data>>

\* Slots 1 and 2 stay valid only if they remain in the smaller heap.
CacheAfterPop ==
  [i \in 0 .. 2 |-> IF i = 0 \/ size <= i + 1 THEN NoNode ELSE node_cache[i]]

\* The last leaf leaves its place and becomes the node to sift down.
ReadLast(n) ==
  /\ state = "S_POP_RD_LAST"
  /\ Goto("S_POP_SIFT_RD_LEFT")
  /\ cur_node' = n
  /\ target_idx' = 0
  /\ size' = size - 1
  /\ node_cache' = CacheAfterPop
  /\ UNCHANGED <<parent_node, left_node, right_node, has_right, opVars>>

ReadLeft(n) ==
  /\ state = "S_POP_SIFT_RD_LEFT"
  /\ Goto("S_POP_SIFT_RD_RIGHT")
  /\ left_node' = n
  /\ UNCHANGED <<idxVars, cur_node, parent_node, right_node, has_right,
                 node_cache, opVars>>

ReadRight(n) ==
  /\ state = "S_POP_SIFT_RD_RIGHT"
  /\ Goto("S_POP_SIFT_DECIDE")
  /\ right_node' = n /\ has_right' = 1
  /\ UNCHANGED <<idxVars, cur_node, parent_node, left_node, node_cache, opVars>>

ReadPeek(n) ==
  /\ state = "S_PEEK_RD"
  /\ Goto("S_DONE")
  /\ node_cache' = [node_cache EXCEPT ![0] = n]
  /\ UNCHANGED <<idxVars, nodeVars, opVars>>

AfterWrDown == IF Parent(target_idx) = 0 THEN "S_PUSH_WR_FINAL" ELSE "S_PUSH_RD_PARENT"

\* A write enters the cache if its index is one of the top three, and the
\* sift goes on from the place the written node came from.
Written ==
  /\ CacheWrite(MemIdx, MemWdata)
  /\ \/ /\ state = "S_PUSH_WR_DOWN"
        /\ Goto(AfterWrDown)
        /\ target_idx' = Parent(target_idx)
        /\ UNCHANGED size
     \/ /\ state = "S_PUSH_WR_FINAL"
        /\ Goto("S_DONE")
        /\ size' = (size + 1) % IdxSpan
        /\ UNCHANGED target_idx
     \/ /\ state = "S_POP_SIFT_WR_UP"
        /\ Goto("S_POP_SIFT_RD_LEFT")
        /\ target_idx' = BestIdx
        /\ UNCHANGED size
     \/ /\ state \in {"S_POP_SIFT_WR_FINAL", "S_UPDATE_WR"}
        /\ Goto("S_DONE")
        /\ UNCHANGED idxVars
  /\ UNCHANGED <<nodeVars, opVars>>

Complete(n) ==
  \/ ReadParent(n) \/ ReadRoot(n) \/ ReadLast(n) \/ ReadLeft(n)
  \/ ReadRight(n) \/ ReadPeek(n) \/ Written

-----------------------------------------------------------------------------
(* Memory accesses.                                                         *)

\* Mutant: a child is read without looking whether it is there.
Wanted_NoBound == state \in ReadStates \cup WriteStates

\* The read or write the state machine really waits for.
Wanted ==
  /\ state \in ReadStates \cup WriteStates
  /\ (state \in {"S_POP_SIFT_RD_LEFT", "S_POP_SIFT_RD_RIGHT"}) => MemIdx < size

\* A read whose index is in the cache is answered in its ISSUE cycle.  The
\* two reads of the root have no such exit: they are for a cold root.
ReadCached ==
  /\ phase = "ISSUE" /\ Wanted
  /\ state \in ReadStates \ {"S_POP_RD_ROOT", "S_PEEK_RD"}
  /\ CacheHit(MemIdx)
  /\ Complete(node_cache[MemIdx])
  /\ UNCHANGED <<priv, memVars>>

Waits ==
  /\ phase' = "WAIT"
  /\ UNCHANGED <<state, idxVars, nodeVars, node_cache, opVars>>

IssuePriv ==
  /\ phase = "ISSUE" /\ Wanted
  /\ state \in ReadStates => ~CacheHit(MemIdx)
  /\ IsPrivate(MemIdx)
  /\ Waits
  /\ priv' = IF state \in WriteStates THEN [priv EXCEPT ![MemIdx] = MemWdata] ELSE priv
  /\ UNCHANGED memVars

PrivDone ==
  /\ phase = "WAIT" /\ IsPrivate(MemIdx)
  /\ Complete(priv[MemIdx])
  /\ UNCHANGED <<priv, memVars>>

IssueVirt ==
  /\ phase = "ISSUE" /\ Wanted
  /\ ~IsPrivate(MemIdx)
  /\ IF state \in WriteStates
     THEN VirtAccept(Kind, "write", MemIdx, MemWdata)
     ELSE VirtAccept(Kind, "read", MemIdx, NoNode)
  /\ Waits
  /\ UNCHANGED priv

\* No tag ties an answer to its request: any answer for this heap completes
\* the access it waits for.
VirtDone ==
  /\ phase = "WAIT" /\ ~IsPrivate(MemIdx)
  /\ mmu_owner = Kind
  /\ VirtServe
  /\ Complete(ServedData)
  /\ UNCHANGED priv

\* A rejected access goes back to its ISSUE state.
VirtRetry ==
  /\ phase = "WAIT" /\ ~IsPrivate(MemIdx)
  /\ mmu_owner = Kind
  /\ VirtReject
  /\ Goto(state)
  /\ UNCHANGED <<idxVars, nodeVars, node_cache, opVars, priv>>

\* An answer that arrives while the heap waits for nothing virtual is dropped.
LateAnswer ==
  /\ mmu_owner = Kind
  /\ ~(phase = "WAIT" /\ ~IsPrivate(MemIdx))
  /\ VirtServe \/ VirtReject
  /\ UNCHANGED heapVars

NoChild ==
  /\ MissingChild
  /\ \/ UNCHANGED memVars
     \/ /\ ~IsPrivate(MemIdx)
        /\ VirtAccept(Kind, "read", MemIdx, NoNode)

Compute == (PushLaunch \/ PushDecide \/ PopLaunch \/ SiftDecide) /\ UNCHANGED memVars

\* The transitions of a heap that executes a command, S_DONE excepted.
Busy ==
  \/ Compute \/ NoChild \/ ReadCached
  \/ IssuePriv \/ PrivDone \/ IssueVirt \/ VirtDone \/ VirtRetry

\* Mutant: reset forgets the size register.
HeapReset_KeepsSize ==
  /\ state' = "S_IDLE" /\ phase' = "ISSUE" /\ target_idx' = 0
  /\ node_cache' = [i \in 0 .. 2 |-> NoNode]
  /\ UNCHANGED <<size, nodeVars, opVars, priv>>

\* rst_n: every register is cleared; the BRAM keeps its contents.
HeapReset ==
  /\ state' = "S_IDLE" /\ phase' = "ISSUE"
  /\ size' = 0 /\ target_idx' = 0
  /\ cur_node' = ZeroNode /\ parent_node' = ZeroNode
  /\ left_node' = ZeroNode /\ right_node' = ZeroNode /\ has_right' = 0
  /\ node_cache' = [i \in 0 .. 2 |-> NoNode]
  /\ saved_op' = "OP_PUSH" /\ saved_op_data' = ZeroNode /\ popped_root' = ZeroNode
  /\ UNCHANGED priv

\* cmd_root_out.
RootOut ==
  IF saved_op = "OP_PEEK" THEN IF CacheHit(0) THEN node_cache[0] ELSE ZeroNode
                          ELSE popped_root

-----------------------------------------------------------------------------
(* The contents of the heap.                                                *)

\* The node stored at index i, whichever tier it is in.
Mem(i) ==
  IF IsPrivate(i) THEN priv[i]
  ELSE IF page_table[Kind][MakeVa(i)] = Unmapped THEN NoNode
  ELSE bank[Kind][page_table[Kind][MakeVa(i)]]

\* While a command sifts, target_idx is a hole and cur_node is in the air:
\* a push counts it in when it lands, a pop never counts it out.
Content ==
  CASE state \in PushStates -> {Mem(i) : i \in (0 .. size) \ {target_idx}}
    [] state \in SiftStates -> {Mem(i) : i \in (0 .. size - 1) \ {target_idx}}
                                 \cup {cur_node}
    [] OTHER -> {Mem(i) : i \in 0 .. size - 1}

\* Price priority, then the older order first (README, "oldest minimum or
\* maximum"); stated apart from the comparator the heap uses.
Precedes(a, b) ==
  \/ Kind = "bid" /\ a.price > b.price
  \/ Kind = "ask" /\ a.price < b.price
  \/ a.price = b.price /\ a.ts < b.ts
=============================================================================
