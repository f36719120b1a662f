------------------------------ MODULE HeapSpec -------------------------------
(***************************************************************************)
(* One heap_fsm with its private BRAM and its partition of the virtual     *)
(* memory, under the commands its user may give it, and the claim that it  *)
(* implements a priority queue.                                            *)
(***************************************************************************)
EXTENDS HeapFsm

CONSTANTS
  Prices,      \* prices of the nodes that are pushed
  MaxTs,       \* bound: nodes pushed in one behaviour
  MaxResets    \* bound: resets in one behaviour

ASSUME SpecAssumption ==
  /\ Prices \subseteq Nat
  /\ MaxTs \in Nat /\ MaxResets \in Nat

VARIABLES
  now_ts,      \* timestamp of the next node; only its order matters
  resets       \* resets so far

vars == <<heapVars, memVars, now_ts, resets>>

Init == HeapInit /\ MemoryInit /\ now_ts = 1 /\ resets = 0

-----------------------------------------------------------------------------
(* The commands.  POP and PEEK may be given to an empty heap; UPDATE, to    *)
(* reduce the amount of the root or (to be refused) of any other node.      *)

PushCommand ==
  /\ now_ts <= MaxTs
  /\ \E p \in Prices : CmdPush([price |-> p, ts |-> now_ts, amount |-> 2])
  /\ now_ts' = now_ts + 1
  /\ UNCHANGED <<memVars, resets>>

PopCommand == CmdPop /\ UNCHANGED <<memVars, now_ts, resets>>

PeekCommand == CmdPeek /\ UNCHANGED <<memVars, now_ts, resets>>

UpdateCommand ==
  /\ \E n \in Content : n.amount > 1 /\ CmdUpdate([n EXCEPT !.amount = @ - 1])
  /\ UNCHANGED <<memVars, now_ts, resets>>

Finish == Done /\ UNCHANGED <<memVars, now_ts, resets>>

Step == Busy /\ UNCHANGED <<now_ts, resets>>

Answer == LateAnswer /\ UNCHANGED <<now_ts, resets>>

\* KEY0 resets the engine and the MMU together.
Reset ==
  /\ resets < MaxResets
  /\ resets' = resets + 1
  /\ HeapReset /\ MemoryReset
  /\ UNCHANGED now_ts

Next ==
  \/ PushCommand \/ PopCommand \/ PeekCommand \/ UpdateCommand
  \/ Finish \/ Step \/ Answer \/ Reset

Spec == Init /\ [][Next]_vars

\* The clock runs, and the MMU answers what it accepted.
Fairness == WF_vars(Step) /\ WF_vars(Finish) /\ WF_vars(Answer)

FairSpec == Spec /\ Fairness

-----------------------------------------------------------------------------
(* Properties.                                                              *)

\* Every register stays within its width, every index within the heap's
\* range, and no access ever delivers a word that was never written.
TypeOK == HeapTypeOK /\ MemoryTypeOK /\ now_ts \in Nat /\ resets \in Nat

\* The top-3 cache never holds anything but what the BRAM holds at the same
\* index, except for the one index whose write is in its WAIT cycle.
CacheCoherent ==
  \A i \in 0 .. 2 :
    CacheHit(i) =>
      \/ node_cache[i] = priv[i]
      \/ state \in WriteStates /\ phase = "WAIT" /\ MemIdx = i

\* A non-empty heap between two commands has its root in the cache: UPDATE,
\* which needs it, is never dropped for a cold cache, and POP never has to
\* read the root (S_POP_RD_ROOT is not reachable).
RootCached == state = "S_IDLE" /\ size > 0 => CacheHit(0)

\* An answer the heap waits for is the answer to the access it waits for,
\* though answers carry no tag and a read of a missing child may still be in
\* flight when the next access is made.
AnswerMatches ==
  phase = "WAIT" /\ ~IsPrivate(MemIdx) =>
    /\ mmu_owner = Kind
    /\ mmu_req.va = MakeVa(MemIdx)
    /\ mmu_req.op = IF state \in WriteStates THEN "write" ELSE "read"

\* Between two commands no parent loses to a child and no node is there twice.
HeapOrdered ==
  state = "S_IDLE" =>
    \A i \in 1 .. size - 1 : Precedes(Mem(Parent(i)), Mem(i))

AbsPending ==
  CASE state = "S_IDLE" -> "none"
    [] state \in SiftStates \cup {"S_DONE"} -> "done"
    [] state = "S_UPDATE_WR" /\ phase = "WAIT" -> "done"
    [] OTHER -> saved_op

PQ == INSTANCE PriorityQueue WITH
        queue   <- Content,
        pending <- AbsPending,
        arg     <- IF state # "S_IDLE" /\ saved_op \in {"OP_PUSH", "OP_UPDATE"}
                   THEN saved_op_data ELSE NoNode,
        answer  <- IF AbsPending = "done" /\ saved_op \in {"OP_POP", "OP_PEEK"}
                   THEN RootOut ELSE NoNode

\* Through all its tiers, the cache and the sifting, the heap is a priority
\* queue: nothing is lost or doubled, POP and PEEK answer the best node in
\* price-time order, UPDATE changes that node and no other.
ImplementsPriorityQueue == PQ!Spec

\* No two nodes of the heap share a slot (mmu.sv, "960 unique slots").
SlotsDistinct ==
  \A i, j \in PrivateNodes .. size - 1 : i # j
    => page_table[Kind][MakeVa(i)] # page_table[Kind][MakeVa(j)]

\* A command the heap has taken is finished.
CommandCompletes == state # "S_IDLE" ~> state = "S_IDLE"
=============================================================================
