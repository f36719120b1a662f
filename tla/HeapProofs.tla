----------------------------- MODULE HeapProofs ------------------------------
(***************************************************************************)
(* Proofs about HeapSpec, for every size of the tiers and every set of     *)
(* prices: first what holds of any heap, then that a heap is a priority    *)
(* queue, for sizes like the source's own and up to the first reset (a     *)
(* reset rewinds the slot allocator but not the page table: see the run    *)
(* heap_alias).                                                            *)
(***************************************************************************)
EXTENDS HeapSpec, TLAPS, FiniteSetTheorems, WellFoundedInduction

\* Index i of the virtual tier is mapped to a slot that was written.  Neither
\* is ever undone, not even by a reset.
Written1(i) ==
  /\ page_table[Kind][MakeVa(i)] # Unmapped
  /\ bank[Kind][page_table[Kind][MakeVa(i)]] # NoNode

Virtual(i) == ~IsPrivate(i)

\* Every virtual node of the heap, and the leaf a push has already filled,
\* was written.
NodesWritten ==
  /\ \A i \in 0 .. size - 1 : Virtual(i) => Written1(i)
  /\ state \in PushStates =>
       \/ target_idx = size
       \/ target_idx < size /\ (Virtual(size) => Written1(size))

\* Reads are of nodes of the heap.
ReadsInRange ==
  /\ state \in {"S_PUSH_RD_PARENT", "S_PUSH_DECIDE", "S_PUSH_WR_DOWN"} => size > 0
  /\ state = "S_POP_RD_LAST" => size > 1
  /\ state \in SiftStates => size > 0 /\ target_idx < size
  /\ phase = "WAIT" => Wanted
  /\ state \in {"S_POP_SIFT_RD_RIGHT", "S_POP_SIFT_DECIDE", "S_POP_SIFT_WR_UP"}
       => Left(target_idx) < size
  /\ state = "S_POP_SIFT_WR_UP" => Best # "CUR"

\* A write of this heap has data, and the port carries the access waited for
\* when there is one.
PortInv ==
  /\ mmu_owner = Kind /\ mmu_req.op = "write" => mmu_req.wdata # NoNode
  /\ AnswerMatches

\* A private write that waits for its second cycle is in the BRAM.
WritePending ==
  phase = "WAIT" /\ state \in WriteStates /\ IsPrivate(MemIdx) => priv[MemIdx] = MemWdata

\* The root is cached unless the heap is empty or the root is the hole.
RootInv ==
  /\ state # "S_POP_RD_ROOT"
  /\ state = "S_PEEK_RD" => size = 0
  /\ state \notin SiftStates /\ size > 0 => CacheHit(0)
  /\ state \in SiftStates => CacheHit(0) \/ target_idx = 0

IInv ==
  /\ TypeOK /\ NodesWritten /\ ReadsInRange /\ PortInv
  /\ WritePending /\ CacheCoherent /\ RootInv

-----------------------------------------------------------------------------
(* Every use of a heap, of which HeapSpec's is one: a heap that is part of  *)
(* a system is given any nodes, and shares its port.                        *)

PushAny(n) == CmdPush(n) /\ now_ts' \in Nat /\ UNCHANGED <<memVars, resets>>

UpdateAny(n) == CmdUpdate(n) /\ UNCHANGED <<memVars, now_ts, resets>>

\* The port serves the other heap, whose partition is another one.
PortElsewhere ==
  /\ mmu_owner # Kind /\ mmu_owner' # Kind /\ MemoryTypeOK'
  /\ page_table'[Kind] = page_table[Kind]
  /\ alloc_ptr'[Kind] = alloc_ptr[Kind]
  /\ bank'[Kind] = bank[Kind]

\* Time passes for a heap nothing happens to.
Pass ==
  /\ UNCHANGED memVars \/ PortElsewhere
  /\ now_ts' \in Nat
  /\ UNCHANGED <<heapVars, resets>>

Use ==
  \/ \E n \in Node : PushAny(n) \/ UpdateAny(n)
  \/ PopCommand \/ PeekCommand \/ Finish \/ Step \/ Answer \/ Pass

-----------------------------------------------------------------------------
USE DEF Kinds, Vas, Unmapped

\* Parents and children of an index stay within the index registers.
LEMMA IdxRange ==
  ASSUME NEW i \in 0 .. IdxSpan - 1
  PROVE  /\ Parent(i) \in 0 .. IdxSpan - 1
         /\ Parent(i) <= i
         /\ i > 0 => Parent(i) < i
         /\ Left(i) \in 0 .. IdxSpan - 1
         /\ Right(i) \in 0 .. IdxSpan - 1
BY HeapAssumption DEF Parent, Left, Right

\* make_va yields an address of the heap's own partition.
LEMMA VaRange ==
  ASSUME NEW i \in Int
  PROVE  MakeVa(i) \in Vas
BY MemoryAssumption DEF MakeVa

\* The state after configuration, wherever the clock stands then.
Start == HeapInit /\ MemoryInit /\ now_ts \in Nat /\ resets = 0

LEMMA InitIsStart == Init => Start
BY DEF Init, Start

\* It satisfies the invariant.
LEMMA InitInv == Start => IInv
<1> SUFFICES ASSUME Start PROVE IInv
  OBVIOUS
<1> USE HeapAssumption, MemoryAssumption, NoNodeAssumption DEF Start, HeapInit, MemoryInit
<1>1. TypeOK
  <2>1. ZeroNode \in Node
    BY DEF ZeroNode, Node
  <2>2. HeapTypeOK
    BY <2>1 DEF HeapTypeOK, States
  <2>3. MemoryTypeOK
    BY DEF MemoryTypeOK, NoReq
  <2> QED BY <2>2, <2>3 DEF TypeOK
<1>2. NodesWritten /\ ReadsInRange
  BY DEF NodesWritten, ReadsInRange, PushStates, SiftStates
<1>3. PortInv /\ WritePending /\ CacheCoherent /\ RootInv
  BY DEF PortInv, AnswerMatches, NoReq, WritePending, CacheCoherent, RootInv, CacheHit, SiftStates
<1> QED BY <1>1, <1>2, <1>3 DEF IInv

-----------------------------------------------------------------------------
(* Facts used by every step.                                                *)

\* In an ISSUE phase nothing is waited for.
LEMMA IssuePhase == phase' = "ISSUE" => WritePending' /\ AnswerMatches'
BY DEF WritePending, AnswerMatches

\* Outside the second cycle of a write the cache agrees with the BRAM.
LEMMA CleanCache ==
  ASSUME CacheCoherent, ~(state \in WriteStates /\ phase = "WAIT")
  PROVE  \A i \in 0 .. 2 : CacheHit(i) => node_cache[i] = priv[i]
BY DEF CacheCoherent

\* The word all zero is a node.
LEMMA ZeroIsNode == ZeroNode \in Node
BY DEF ZeroNode, Node

\* A memory that stands still keeps what was written.
LEMMA MemoryStill ==
  ASSUME memVars' = memVars
  PROVE  /\ \A i \in Int : Written1(i)' = Written1(i)
         /\ MemoryTypeOK => MemoryTypeOK'
BY DEF memVars, Written1, MemoryTypeOK, MakeVa

\* Between two commands every index of the heap holds a node.
LEMMA ContentIsNodes ==
  ASSUME IInv, state = "S_IDLE"
  PROVE  \A n \in Content : n \in Node
<1> USE HeapAssumption, MemoryAssumption
<1>1. SUFFICES ASSUME NEW i \in 0 .. size - 1 PROVE Mem(i) \in Node
  BY DEF Content, PushStates, SiftStates, IInv
<1>2. CASE IsPrivate(i)
  BY <1>2 DEF Mem, IsPrivate, IInv, TypeOK, HeapTypeOK
<1>3. CASE Virtual(i)
  <2>1. Written1(i)
    BY <1>3 DEF IInv, NodesWritten
  <2>2. MakeVa(i) \in Vas
    BY ONLY VaRange, i \in 0 .. size - 1
  <2> QED BY <1>3, <2>1, <2>2 DEF Mem, Virtual, Written1, IInv, TypeOK, MemoryTypeOK
<1> QED BY <1>2, <1>3 DEF Virtual

-----------------------------------------------------------------------------
(* The commands.                                                            *)

\* S_IDLE takes a PUSH: the new leaf becomes the hole.
LEMMA PushAnyInv ==
  ASSUME IInv, NEW n \in Node, PushAny(n)
  PROVE  IInv'
<1> USE HeapAssumption
<1>1. CmdPush(n)
  BY DEF PushAny
<1>3. memVars' = memVars /\ phase' = "ISSUE"
  BY <1>1 DEF PushAny, CmdPush, Goto, memVars
<1>4. TypeOK'
  BY <1>1, <1>3, MemoryStill
     DEF IInv, TypeOK, HeapTypeOK, PushAny, CmdPush, Goto, States, PushStates
<1>5. NodesWritten'
  BY <1>1, <1>3, MemoryStill
     DEF IInv, TypeOK, HeapTypeOK, NodesWritten, Virtual, IsPrivate, CmdPush, Goto
<1>6. ReadsInRange'
  BY <1>1 DEF ReadsInRange, CmdPush, Goto, SiftStates
<1>7. PortInv'
  BY <1>3, IssuePhase DEF IInv, PortInv, memVars
<1>8. CacheCoherent'
  BY <1>1, CleanCache DEF IInv, CacheCoherent, CacheHit, CmdPush, WriteStates
<1>9. RootInv'
  BY <1>1 DEF IInv, RootInv, CacheHit, CmdPush, Goto, SiftStates
<1> QED BY <1>3, <1>4, <1>5, <1>6, <1>7, <1>8, <1>9, IssuePhase DEF IInv

\* S_IDLE takes a POP.
LEMMA PopCommandInv == IInv /\ PopCommand => IInv'
<1> SUFFICES ASSUME IInv, PopCommand PROVE IInv'
  OBVIOUS
<1> USE HeapAssumption DEF PopCommand, CmdPop, Goto, nodeVars
<1>1. memVars' = memVars /\ phase' = "ISSUE"
  BY DEF memVars
<1>2. TypeOK'
  BY <1>1, MemoryStill, ZeroIsNode
     DEF IInv, TypeOK, HeapTypeOK, CacheHit, States, PopStates
<1>3. NodesWritten'
  BY <1>1, MemoryStill
     DEF IInv, TypeOK, HeapTypeOK, NodesWritten, Virtual, IsPrivate, PushStates
<1>4. ReadsInRange' /\ RootInv'
  BY DEF IInv, ReadsInRange, RootInv, CacheHit, SiftStates
<1>5. PortInv'
  BY <1>1, IssuePhase DEF IInv, PortInv, memVars
<1>6. CacheCoherent'
  BY CleanCache DEF IInv, CacheCoherent, CacheHit, WriteStates
<1> QED BY <1>1, <1>2, <1>3, <1>4, <1>5, <1>6, IssuePhase DEF IInv

\* S_IDLE takes a PEEK; a cold root means an empty heap.
LEMMA PeekCommandInv == IInv /\ PeekCommand => IInv'
<1> SUFFICES ASSUME IInv, PeekCommand PROVE IInv'
  OBVIOUS
<1> USE HeapAssumption DEF PeekCommand, CmdPeek, Goto, idxVars, nodeVars
<1>1. memVars' = memVars /\ phase' = "ISSUE"
  BY DEF memVars
<1>2. TypeOK'
  BY <1>1, MemoryStill, ZeroIsNode
     DEF IInv, TypeOK, HeapTypeOK, CacheHit, States
<1>3. NodesWritten'
  BY <1>1, MemoryStill
     DEF IInv, TypeOK, HeapTypeOK, NodesWritten, Virtual, IsPrivate, PushStates
<1>4. ReadsInRange' /\ RootInv'
  BY DEF IInv, TypeOK, HeapTypeOK, ReadsInRange, RootInv, CacheHit, SiftStates
<1>5. PortInv'
  BY <1>1, IssuePhase DEF IInv, PortInv, memVars
<1>6. CacheCoherent'
  BY CleanCache DEF IInv, CacheCoherent, CacheHit, WriteStates
<1> QED BY <1>1, <1>2, <1>3, <1>4, <1>5, <1>6, IssuePhase DEF IInv

\* S_IDLE takes an UPDATE, or refuses it.
LEMMA UpdateAnyInv ==
  ASSUME IInv, NEW n \in Node, UpdateAny(n)
  PROVE  IInv'
<1> USE HeapAssumption DEF Goto, idxVars, nodeVars
<1>1. CmdUpdate(n)
  BY DEF UpdateAny
<1>3. memVars' = memVars /\ phase' = "ISSUE"
  BY <1>1 DEF UpdateAny, CmdUpdate, memVars
<1>4. TypeOK'
  BY <1>1, <1>3, MemoryStill
     DEF IInv, TypeOK, HeapTypeOK, UpdateAny, CmdUpdate, States
<1>5. NodesWritten'
  BY <1>1, <1>3, MemoryStill
     DEF IInv, TypeOK, HeapTypeOK, NodesWritten, Virtual, IsPrivate, CmdUpdate, PushStates
<1>6. ReadsInRange' /\ RootInv'
  BY <1>1 DEF IInv, ReadsInRange, RootInv, CacheHit, CmdUpdate, SiftStates
<1>7. PortInv'
  BY <1>3, IssuePhase DEF IInv, PortInv, memVars
<1>8. CacheCoherent'
  BY <1>1, CleanCache DEF IInv, CacheCoherent, CacheHit, CmdUpdate, WriteStates
<1> QED BY <1>3, <1>4, <1>5, <1>6, <1>7, <1>8, IssuePhase DEF IInv

-----------------------------------------------------------------------------
(* Steps that touch no memory.                                              *)

\* S_DONE gives way to S_IDLE.
LEMMA FinishInv == IInv /\ Finish => IInv'
<1> SUFFICES ASSUME IInv, Finish PROVE IInv'
  OBVIOUS
<1> USE HeapAssumption DEF Finish, Done, Goto, idxVars, nodeVars, opVars
<1>1. memVars' = memVars /\ phase' = "ISSUE"
  BY DEF memVars
<1>2. TypeOK'
  BY <1>1, MemoryStill DEF IInv, TypeOK, HeapTypeOK, States
<1>3. NodesWritten'
  BY <1>1, MemoryStill
     DEF IInv, TypeOK, HeapTypeOK, NodesWritten, Virtual, IsPrivate, PushStates
<1>4. ReadsInRange' /\ RootInv'
  BY DEF IInv, ReadsInRange, RootInv, CacheHit, SiftStates
<1>5. PortInv'
  BY <1>1, IssuePhase DEF IInv, PortInv, memVars
<1>6. CacheCoherent'
  BY CleanCache DEF IInv, CacheCoherent, CacheHit, WriteStates
<1> QED BY <1>1, <1>2, <1>3, <1>4, <1>5, <1>6, IssuePhase DEF IInv

\* The states that decide without touching memory.
LEMMA ComputeInv == IInv /\ Compute /\ UNCHANGED <<now_ts, resets>> => IInv'
<1> SUFFICES ASSUME IInv, Compute, UNCHANGED <<now_ts, resets>> PROVE IInv'
  OBVIOUS
<1> USE HeapAssumption DEF Compute, Goto, idxVars, nodeVars, opVars
<1>0. \/ PushLaunch \/ PushDecide \/ PopLaunch \/ SiftDecide
  OBVIOUS
<1>1. memVars' = memVars /\ phase' = "ISSUE" /\ priv' = priv
  BY <1>0 DEF memVars, PushLaunch, PushDecide, PopLaunch, SiftDecide
<1>2. TypeOK'
  BY <1>0, <1>1, MemoryStill
     DEF IInv, TypeOK, HeapTypeOK, States, PushStates, PopStates, SiftStates,
         PushLaunch, PushDecide, PopLaunch, SiftDecide
<1>3. NodesWritten'
  BY <1>0, <1>1, MemoryStill
     DEF IInv, TypeOK, HeapTypeOK, NodesWritten, Virtual, IsPrivate, PushStates,
         PushLaunch, PushDecide, PopLaunch, SiftDecide
<1>4. ReadsInRange'
  <2>1. CASE PushLaunch
    BY <2>1 DEF IInv, TypeOK, HeapTypeOK, ReadsInRange, PushLaunch, SiftStates
  <2>2. CASE PushDecide
    BY <2>2 DEF IInv, ReadsInRange, PushDecide, SiftStates
  <2>3. CASE PopLaunch
    BY <2>3 DEF IInv, TypeOK, HeapTypeOK, ReadsInRange, RootInv, PopLaunch, SiftStates
  <2>4. CASE SiftDecide
    BY <2>4 DEF IInv, ReadsInRange, SiftDecide, SiftStates, Left, Right, Best,
                LeftWinsCur, AWins
  <2> QED BY <1>0, <2>1, <2>2, <2>3, <2>4
<1>5. PortInv'
  BY <1>1, IssuePhase DEF IInv, PortInv, memVars
<1>6. CacheCoherent'
  BY <1>0, <1>1, CleanCache
     DEF IInv, CacheCoherent, CacheHit, WriteStates,
         PushLaunch, PushDecide, PopLaunch, SiftDecide
<1>7. RootInv'
  BY <1>0 DEF IInv, TypeOK, HeapTypeOK, RootInv, CacheHit, SiftStates,
              PushLaunch, PushDecide, PopLaunch, SiftDecide
<1> QED BY <1>1, <1>2, <1>3, <1>4, <1>5, <1>6, <1>7, IssuePhase DEF IInv

-----------------------------------------------------------------------------
(* The memory side of an access.                                            *)

\* Taking a request changes neither page table nor banks.
LEMMA AcceptKeepsMemory ==
  ASSUME MemoryTypeOK,
         NEW op \in {"read", "write"}, NEW idx \in Int, NEW w \in Node \cup {NoNode},
         op = "write" => w # NoNode,
         VirtAccept(Kind, op, idx, w)
  PROVE  /\ MemoryTypeOK'
         /\ \A i \in Int : Written1(i)' = Written1(i)
         /\ mmu_owner' = Kind
         /\ mmu_req' = [op |-> op, va |-> MakeVa(idx), wdata |-> w]
BY HeapAssumption, VaRange DEF VirtAccept, MemoryTypeOK, Written1, MakeVa

\* Serving a request keeps every word written before mapped and written.
LEMMA ServeKeepsMemory ==
  ASSUME MemoryTypeOK, PortInv, mmu_owner = Kind, VirtServe
  PROVE  /\ MemoryTypeOK'
         /\ \A i \in Int : Written1(i) => Written1(i)'
         /\ mmu_owner' = "idle" /\ mmu_req' = NoReq
<1> USE HeapAssumption, MemoryAssumption
<1>1. mmu_owner = Kind
  OBVIOUS
<1>2. Slot \in 0 .. Slots - 1
  BY <1>1 DEF VirtServe, Slot, Mapped, MemoryTypeOK
<1>3. MemoryTypeOK'
  <2>1. page_table' \in [Kinds -> [Vas -> (0 .. Slots - 1) \cup {Unmapped}]]
    BY <1>1, <1>2 DEF VirtServe, MemoryTypeOK
  <2>2. alloc_ptr' \in [Kinds -> 0 .. Slots]
    BY <1>1 DEF VirtServe, AllocNext, Mapped, MemoryTypeOK
  <2>3. bank' \in [Kinds -> [0 .. Slots - 1 -> Node \cup {NoNode}]]
    BY <1>1, <1>2 DEF VirtServe, MemoryTypeOK
  <2>4. mmu_owner' \in Kinds \cup {"idle"}
    BY DEF VirtServe
  <2>5. mmu_req' \in [op : {"read", "write"}, va : Vas, wdata : Node \cup {NoNode}]
    BY DEF VirtServe, NoReq
  <2> QED BY <2>1, <2>2, <2>3, <2>4, <2>5 DEF MemoryTypeOK
<1>4. ASSUME NEW i \in Int, Written1(i) PROVE Written1(i)'
  <2>1. MakeVa(i) \in Vas
    BY VaRange
  <2>2. page_table'[Kind][MakeVa(i)] = page_table[Kind][MakeVa(i)]
    BY <1>1, <1>4, <2>1 DEF VirtServe, Slot, Mapped, MemoryTypeOK, Written1
  <2>3. page_table[Kind][MakeVa(i)] \in 0 .. Slots - 1
    BY <1>4, <2>1 DEF Written1, MemoryTypeOK
  <2>4. bank'[Kind][page_table[Kind][MakeVa(i)]] # NoNode
    BY <1>1, <1>2, <1>4, <2>3 DEF VirtServe, MemoryTypeOK, Written1, PortInv
  <2>5. MakeVa(i)' = MakeVa(i)
    BY DEF MakeVa
  <2> QED BY <1>4, <2>2, <2>4, <2>5 DEF Written1
<1> QED BY <1>3, <1>4 DEF VirtServe

\* The word a write was made to is written.
LEMMA ServeWrites ==
  ASSUME MemoryTypeOK, PortInv, mmu_owner = Kind, VirtServe, NEW i \in Int,
         mmu_req.op = "write", mmu_req.va = MakeVa(i)
  PROVE  Written1(i)'
<1> USE HeapAssumption, MemoryAssumption
<1>1. mmu_owner = Kind
  OBVIOUS
<1>2. Slot \in 0 .. Slots - 1
  BY <1>1 DEF VirtServe, Slot, Mapped, MemoryTypeOK
<1>3. MakeVa(i) \in Vas
  BY VaRange
<1>4. page_table'[Kind][MakeVa(i)] = Slot
  BY <1>1, <1>3 DEF VirtServe, MemoryTypeOK
<1>5. bank'[Kind][Slot] # NoNode
  BY <1>1, <1>2 DEF VirtServe, MemoryTypeOK, PortInv
<1>6. MakeVa(i)' = MakeVa(i)
  BY DEF MakeVa
<1> QED BY <1>2, <1>4, <1>5, <1>6 DEF Written1

\* A word that was written is what a read of it delivers.
LEMMA ServeReads ==
  ASSUME MemoryTypeOK, PortInv, mmu_owner = Kind, VirtServe, NEW i \in Int,
         Written1(i), mmu_req.va = MakeVa(i)
  PROVE  ServedData \in Node
<1>1. mmu_owner = Kind
  OBVIOUS
<1>2. MakeVa(i) \in Vas
  BY VaRange
<1>3. Mapped /\ Slot = page_table[Kind][MakeVa(i)]
  BY <1>1 DEF Mapped, Slot, Written1
<1>4. ServedData # NoNode
  BY <1>1, <1>3 DEF ServedData, Written1
<1>5. Slot \in 0 .. Slots - 1
  <2>1. page_table[Kind] \in [Vas -> (0 .. Slots - 1) \cup {Unmapped}]
    BY HeapAssumption DEF MemoryTypeOK
  <2> QED BY <1>2, <1>3, <2>1 DEF Written1
<1>6. ServedData \in Node \cup {NoNode}
  <2>1. bank[Kind] \in [0 .. Slots - 1 -> Node \cup {NoNode}]
    BY HeapAssumption DEF MemoryTypeOK
  <2> QED BY <1>1, <1>5, <2>1 DEF ServedData
<1> QED BY <1>4, <1>6

\* Rejecting a request changes nothing but the port.
LEMMA RejectKeepsMemory ==
  ASSUME MemoryTypeOK, VirtReject
  PROVE  /\ MemoryTypeOK'
         /\ \A i \in Int : Written1(i) => Written1(i)'
         /\ mmu_owner' = "idle" /\ mmu_req' = NoReq
BY MemoryAssumption DEF VirtReject, MemoryTypeOK, Written1, NoReq, MakeVa

\* A port with nothing in flight satisfies its invariant.
LEMMA IdlePort ==
  ASSUME mmu_owner' = "idle", mmu_req' = NoReq, phase' = "ISSUE"
  PROVE  PortInv'
BY IssuePhase DEF PortInv, NoReq

-----------------------------------------------------------------------------
(* The heap's side of an access.                                            *)

\* The access a state makes is to an index of the heap's range, and what it
\* writes is a node.
LEMMA AccessRange ==
  ASSUME IInv, Wanted
  PROVE  MemIdx \in 0 .. IdxSpan - 1 /\ MemWdata \in Node
<1> USE HeapAssumption
<1>1. target_idx \in 0 .. IdxSpan - 1 /\ size \in 0 .. IdxSpan - 1
  BY DEF IInv, TypeOK, HeapTypeOK
<1>2. MemIdx \in 0 .. IdxSpan - 1
  BY <1>1, IdxRange DEF MemIdx, IInv, ReadsInRange
<1>3. MemWdata \in Node
  BY DEF MemWdata, BestNode, IInv, TypeOK, HeapTypeOK
<1> QED BY <1>2, <1>3

\* A completed access keeps the heap's part of the invariant, given what its
\* memory delivers.
LEMMA CompleteInv ==
  ASSUME IInv, Wanted, NEW n, Complete(n), priv' = priv,
         state \in ReadStates => n \in Node,
         state = "S_PEEK_RD" => n = priv[0],
         state \in WriteStates => phase = "WAIT",
         \A i \in Int : Written1(i) => Written1(i)',
         \A i \in Int : state \in WriteStates /\ i = MemIdx /\ Virtual(i) => Written1(i)'
  PROVE  /\ HeapTypeOK' /\ NodesWritten' /\ ReadsInRange'
         /\ CacheCoherent' /\ RootInv' /\ phase' = "ISSUE"
<1> USE HeapAssumption DEF Goto, idxVars, nodeVars, opVars
<1>0. HeapTypeOK
  BY DEF IInv, TypeOK
<1>1. CASE ReadParent(n)
  <2> USE <1>1 DEF ReadParent
  <2>1. HeapTypeOK' /\ phase' = "ISSUE"
    BY <1>0 DEF HeapTypeOK, ReadStates, States, PushStates
  <2>2. NodesWritten'
    BY <1>0 DEF HeapTypeOK, IInv, NodesWritten, PushStates, Virtual, IsPrivate
  <2>3. ReadsInRange' /\ RootInv'
    BY DEF IInv, ReadsInRange, RootInv, SiftStates, CacheHit
  <2>4. CacheCoherent'
    BY CleanCache DEF IInv, CacheCoherent, CacheHit, WriteStates
  <2> QED BY <2>1, <2>2, <2>3, <2>4
<1>2. CASE ReadRoot(n)
  BY <1>2 DEF ReadRoot, IInv, RootInv
<1>3. CASE ReadLast(n)
  <2> USE <1>3 DEF ReadLast
  <2>0. size > 1
    BY DEF IInv, ReadsInRange
  <2>1. HeapTypeOK' /\ phase' = "ISSUE"
    BY <1>0, <2>0 DEF HeapTypeOK, ReadStates, States, SiftStates, CacheAfterPop
  <2>2. NodesWritten'
    BY <1>0, <2>0 DEF HeapTypeOK, IInv, NodesWritten, PushStates, Virtual, IsPrivate
  <2>3. ReadsInRange' /\ RootInv'
    BY <1>0, <2>0 DEF HeapTypeOK, IInv, ReadsInRange, RootInv, SiftStates, CacheHit
  <2>4. CacheCoherent'
    BY CleanCache DEF IInv, CacheCoherent, CacheHit, WriteStates, CacheAfterPop
  <2> QED BY <2>1, <2>2, <2>3, <2>4
<1>4. CASE ReadLeft(n) \/ ReadRight(n)
  <2> USE <1>4 DEF ReadLeft, ReadRight
  <2>1. HeapTypeOK' /\ phase' = "ISSUE"
    BY <1>0 DEF HeapTypeOK, ReadStates, States, SiftStates
  <2>2. NodesWritten'
    BY <1>0 DEF HeapTypeOK, IInv, NodesWritten, PushStates, Virtual, IsPrivate
  <2>3. ReadsInRange'
    BY DEF IInv, ReadsInRange, SiftStates, Wanted, MemIdx, Left
  <2>4. CacheCoherent'
    BY CleanCache DEF IInv, CacheCoherent, CacheHit, WriteStates
  <2>5. RootInv'
    BY DEF IInv, RootInv, SiftStates, CacheHit
  <2> QED BY <2>1, <2>2, <2>3, <2>4, <2>5
<1>5. CASE ReadPeek(n)
  <2> USE <1>5 DEF ReadPeek
  <2>1. HeapTypeOK' /\ phase' = "ISSUE"
    BY <1>0 DEF HeapTypeOK, ReadStates, States
  <2>2. NodesWritten'
    BY <1>0 DEF HeapTypeOK, IInv, NodesWritten, PushStates, Virtual, IsPrivate
  <2>3. ReadsInRange' /\ RootInv'
    BY <1>0 DEF HeapTypeOK, IInv, ReadsInRange, RootInv, SiftStates, CacheHit
  <2>4. CacheCoherent'
    BY <1>0, CleanCache DEF HeapTypeOK, IInv, CacheCoherent, CacheHit, WriteStates
  <2> QED BY <2>1, <2>2, <2>3, <2>4
<1>6. CASE Written
  <2> USE <1>6 DEF Written
  <2>0. /\ state \in WriteStates /\ phase = "WAIT" /\ state # "S_DONE"
        /\ MemIdx \in 0 .. IdxSpan - 1 /\ MemWdata \in Node
    BY AccessRange DEF WriteStates
  <2>1. /\ node_cache' \in [0 .. 2 -> Node \cup {NoNode}]
        /\ \A i \in 0 .. 2 : CacheHit(i) => CacheHit(i)'
        /\ MemIdx = 0 => CacheHit(0)'
    BY <1>0, <2>0, NoNodeAssumption DEF HeapTypeOK, CacheWrite, CacheHit
  <2>2. ASSUME NEW i \in 0 .. 2, CacheHit(i)' PROVE node_cache'[i] = priv[i]
    <3>1. CASE i = MemIdx
      BY <1>0, <2>0, <3>1, MemoryAssumption
         DEF HeapTypeOK, CacheWrite, IInv, WritePending, IsPrivate
    <3>2. CASE i # MemIdx
      BY <1>0, <2>0, <2>2, <3>2 DEF HeapTypeOK, CacheWrite, CacheHit, IInv, CacheCoherent
    <3> QED BY <3>1, <3>2
  <2>3. CacheCoherent'
    BY <2>2 DEF CacheCoherent
  <2>4. /\ Parent(target_idx) \in 0 .. IdxSpan - 1
        /\ Parent(target_idx) <= target_idx
        /\ target_idx > 0 => Parent(target_idx) < target_idx
        /\ Left(target_idx) \in 0 .. IdxSpan - 1
        /\ Right(target_idx) \in 0 .. IdxSpan - 1
    BY <1>0, IdxRange DEF HeapTypeOK
  <2>5. CASE state = "S_PUSH_WR_DOWN"
    <3> USE <2>5
    <3>0. /\ state' \in {"S_PUSH_WR_FINAL", "S_PUSH_RD_PARENT"}
          /\ target_idx' = Parent(target_idx) /\ size' = size /\ phase' = "ISSUE"
      BY DEF AfterWrDown
    <3>1. HeapTypeOK'
      BY <1>0, <2>1, <2>4, <3>0 DEF HeapTypeOK, States, PushStates
    <3>2. MemIdx = target_idx
      BY DEF MemIdx
    <3>3. NodesWritten'
      BY <1>0, <2>4, <3>0, <3>2 DEF HeapTypeOK, IInv, NodesWritten, ReadsInRange,
                                  WriteStates, PushStates, Virtual, IsPrivate
    <3>4. ReadsInRange' /\ RootInv'
      BY <1>0, <2>1, <3>0 DEF HeapTypeOK, IInv, ReadsInRange, RootInv, SiftStates
    <3> QED BY <2>3, <3>0, <3>1, <3>3, <3>4
  <2>6. CASE state = "S_PUSH_WR_FINAL"
    <3> USE <2>6
    <3>0. /\ state' = "S_DONE" /\ phase' = "ISSUE"
          /\ target_idx' = target_idx /\ size' = (size + 1) % IdxSpan
      OBVIOUS
    <3>1. HeapTypeOK'
      BY <1>0, <2>1, <3>0 DEF HeapTypeOK, States
    <3>2. MemIdx = target_idx
      BY DEF MemIdx
    <3>3. \A i \in Int : i = size /\ Virtual(i) => Written1(i)'
      BY <1>0, <3>2 DEF HeapTypeOK, IInv, NodesWritten, WriteStates, PushStates
    <3>4. size' = 0 \/ size' = size + 1
      BY <1>0, <3>0 DEF HeapTypeOK
    <3>5. NodesWritten'
      BY <1>0, <3>0, <3>3, <3>4
         DEF HeapTypeOK, IInv, NodesWritten, PushStates, Virtual, IsPrivate
    <3>6. ReadsInRange'
      BY <3>0 DEF ReadsInRange, SiftStates
    <3>7. RootInv'
      <4>1. size = 0 => target_idx = 0
        BY <1>0 DEF HeapTypeOK, IInv, NodesWritten, PushStates
      <4>2. size > 0 => CacheHit(0)
        BY DEF IInv, RootInv, SiftStates
      <4>3. CacheHit(0)'
        BY <1>0, <2>1, <3>2, <4>1, <4>2 DEF HeapTypeOK
      <4> QED BY <3>0, <4>3 DEF RootInv, SiftStates
    <3> QED BY <2>3, <3>0, <3>1, <3>5, <3>6, <3>7
  <2>7. CASE state = "S_POP_SIFT_WR_UP"
    <3> USE <2>7
    <3>0. /\ state' = "S_POP_SIFT_RD_LEFT" /\ phase' = "ISSUE"
          /\ target_idx' = BestIdx /\ size' = size
      OBVIOUS
    <3>1. BestIdx \in 0 .. IdxSpan - 1 /\ BestIdx < size
      BY <1>0, <2>4 DEF HeapTypeOK, IInv, ReadsInRange, Best, BestIdx
    <3>2. HeapTypeOK'
      BY <1>0, <2>1, <3>0, <3>1 DEF HeapTypeOK, States, SiftStates
    <3>3. NodesWritten'
      BY <1>0, <3>0 DEF HeapTypeOK, IInv, NodesWritten, PushStates, Virtual, IsPrivate
    <3>4. ReadsInRange'
      BY <1>0, <3>0, <3>1 DEF HeapTypeOK, IInv, ReadsInRange, SiftStates
    <3>5. RootInv'
      BY <2>1, <3>0 DEF MemIdx, IInv, RootInv, SiftStates
    <3> QED BY <2>3, <3>0, <3>2, <3>3, <3>4, <3>5
  <2>8. CASE state \in {"S_POP_SIFT_WR_FINAL", "S_UPDATE_WR"}
    <3> USE <2>8
    <3>0. /\ state' = "S_DONE" /\ phase' = "ISSUE"
          /\ target_idx' = target_idx /\ size' = size
      OBVIOUS
    <3>1. HeapTypeOK'
      BY <1>0, <2>1, <3>0 DEF HeapTypeOK, States
    <3>2. NodesWritten'
      BY <1>0, <3>0 DEF HeapTypeOK, IInv, NodesWritten, PushStates, Virtual, IsPrivate
    <3>3. ReadsInRange'
      BY <3>0 DEF ReadsInRange, SiftStates
    <3>4. RootInv'
      BY <2>1, <3>0 DEF MemIdx, IInv, RootInv, SiftStates
    <3> QED BY <2>3, <3>0, <3>1, <3>2, <3>3, <3>4
  <2> QED BY <2>0, <2>5, <2>6, <2>7, <2>8 DEF WriteStates
<1> QED BY <1>1, <1>2, <1>3, <1>4, <1>5, <1>6 DEF Complete

-----------------------------------------------------------------------------
(* Accesses answered by the cache or the private BRAM.                      *)

\* What a step that leaves the port alone keeps of it.
LEMMA PortStill ==
  ASSUME PortInv, memVars' = memVars, phase' = "ISSUE"
  PROVE  PortInv'
BY IssuePhase DEF PortInv, memVars

\* An answer of the cache is what the BRAM holds.
LEMMA ReadCachedInv == IInv /\ ReadCached /\ UNCHANGED <<now_ts, resets>> => IInv'
<1> SUFFICES ASSUME IInv, ReadCached, UNCHANGED <<now_ts, resets>> PROVE IInv'
  OBVIOUS
<1>1. memVars' = memVars /\ priv' = priv
  BY DEF ReadCached
<1>2. node_cache[MemIdx] \in Node
  BY DEF ReadCached, CacheHit, IInv, TypeOK, HeapTypeOK
<1>3. state \notin WriteStates /\ state # "S_PEEK_RD"
  BY DEF ReadCached, ReadStates, WriteStates
<1>4. Complete(node_cache[MemIdx]) /\ Wanted
  BY DEF ReadCached
<1>5. \A i \in Int : Written1(i)' = Written1(i)
  BY <1>1, MemoryStill
<1>6. /\ HeapTypeOK' /\ NodesWritten' /\ ReadsInRange'
      /\ CacheCoherent' /\ RootInv' /\ phase' = "ISSUE"
  BY <1>1, <1>2, <1>3, <1>4, <1>5, CompleteInv
<1>7. TypeOK'
  BY <1>1, <1>6, MemoryStill DEF IInv, TypeOK
<1> QED BY <1>1, <1>6, <1>7, IssuePhase, PortStill DEF IInv

\* The BRAM takes a write in the ISSUE cycle and the cache one cycle later.
LEMMA IssuePrivInv == IInv /\ IssuePriv /\ UNCHANGED <<now_ts, resets>> => IInv'
<1> SUFFICES ASSUME IInv, IssuePriv, UNCHANGED <<now_ts, resets>> PROVE IInv'
  OBVIOUS
<1> USE HeapAssumption, MemoryAssumption
        DEF IssuePriv, Waits, idxVars, nodeVars, opVars
<1>1. memVars' = memVars /\ phase' = "WAIT"
  OBVIOUS
<1>2. /\ MemIdx' = MemIdx /\ MemWdata' = MemWdata
      /\ MemIdx \in 0 .. PrivateNodes - 1 /\ MemWdata \in Node
  BY AccessRange DEF MemIdx, MemWdata, Parent, Left, Right, BestNode, Best,
                     LeftWinsCur, AWins, IsPrivate
<1>3. TypeOK'
  BY <1>1, <1>2, MemoryStill DEF IInv, TypeOK, HeapTypeOK
<1>4. NodesWritten'
  BY <1>1, MemoryStill
     DEF IInv, TypeOK, HeapTypeOK, NodesWritten, Virtual, IsPrivate, PushStates
<1>5. ReadsInRange' /\ RootInv'
  BY <1>2 DEF IInv, ReadsInRange, RootInv, CacheHit, SiftStates, Wanted, Left, Right,
              Best, LeftWinsCur, AWins
<1>6. PortInv'
  BY <1>1, <1>2 DEF IInv, PortInv, AnswerMatches, memVars, IsPrivate
<1>7. WritePending'
  BY <1>2 DEF IInv, TypeOK, HeapTypeOK, WritePending
<1>8. CacheCoherent'
  <2>1. \A i \in 0 .. 2 : CacheHit(i) => node_cache[i] = priv[i]
    BY CleanCache DEF IInv
  <2> QED BY <1>2, <2>1 DEF IInv, TypeOK, HeapTypeOK, CacheCoherent, CacheHit
<1> QED BY <1>3, <1>4, <1>5, <1>6, <1>7, <1>8 DEF IInv

\* An access of the BRAM completes with the word the BRAM holds.
LEMMA PrivDoneInv == IInv /\ PrivDone /\ UNCHANGED <<now_ts, resets>> => IInv'
<1> SUFFICES ASSUME IInv, PrivDone, UNCHANGED <<now_ts, resets>> PROVE IInv'
  OBVIOUS
<1>1. memVars' = memVars /\ priv' = priv
  BY DEF PrivDone
<1>2. Wanted /\ phase = "WAIT" /\ Complete(priv[MemIdx]) /\ ~Virtual(MemIdx)
  BY DEF PrivDone, IInv, ReadsInRange, Virtual
<1>3. priv[MemIdx] \in Node
  BY <1>2, AccessRange, HeapAssumption, MemoryAssumption
     DEF Virtual, IsPrivate, IInv, TypeOK, HeapTypeOK
<1>4. state = "S_PEEK_RD" => MemIdx = 0
  BY DEF MemIdx
<1>5. \A i \in Int : Written1(i)' = Written1(i)
  BY <1>1, MemoryStill
<1>6. /\ HeapTypeOK' /\ NodesWritten' /\ ReadsInRange'
      /\ CacheCoherent' /\ RootInv' /\ phase' = "ISSUE"
  BY <1>1, <1>2, <1>3, <1>4, <1>5, CompleteInv
<1>7. TypeOK'
  BY <1>1, <1>6, MemoryStill DEF IInv, TypeOK
<1> QED BY <1>1, <1>6, <1>7, IssuePhase, PortStill DEF IInv

-----------------------------------------------------------------------------
(* Accesses of the virtual tier.                                            *)

\* A read the heap waits for is of one of its nodes.
LEMMA ReadsNodes ==
  ASSUME IInv, Wanted, state \in ReadStates, Virtual(MemIdx)
  PROVE  MemIdx \in 0 .. size - 1
<1> USE HeapAssumption
<1>0. /\ size \in 0 .. IdxSpan - 1 /\ target_idx \in 0 .. IdxSpan - 1
      /\ MemIdx \in 0 .. IdxSpan - 1
  BY AccessRange DEF IInv, TypeOK, HeapTypeOK
<1>1. CASE state = "S_PUSH_RD_PARENT"
  <2>1. MemIdx = Parent(target_idx) /\ size > 0 /\ target_idx <= size
    BY <1>0, <1>1 DEF MemIdx, IInv, ReadsInRange, NodesWritten, PushStates
  <2> QED BY <1>0, <2>1, IdxRange
<1>2. CASE state = "S_POP_RD_LAST"
  BY <1>0, <1>2 DEF MemIdx, IInv, ReadsInRange
<1>3. CASE state \in {"S_POP_SIFT_RD_LEFT", "S_POP_SIFT_RD_RIGHT"}
  BY <1>0, <1>3 DEF Wanted
<1>4. CASE state \in {"S_PEEK_RD", "S_POP_RD_ROOT"}
  BY <1>4, MemoryAssumption DEF MemIdx, Virtual, IsPrivate
<1> QED BY <1>1, <1>2, <1>3, <1>4 DEF ReadStates

\* The MMU takes the access the heap asks for: the heap now waits for it.
LEMMA IssueVirtInv == IInv /\ IssueVirt /\ UNCHANGED <<now_ts, resets>> => IInv'
<1> SUFFICES ASSUME IInv, IssueVirt, UNCHANGED <<now_ts, resets>> PROVE IInv'
  OBVIOUS
<1> USE HeapAssumption, MemoryAssumption
<1> DEFINE op == IF state \in WriteStates THEN "write" ELSE "read"
           w  == IF state \in WriteStates THEN MemWdata ELSE NoNode
<1>0. /\ phase' = "WAIT" /\ state' = state /\ size' = size /\ priv' = priv
      /\ target_idx' = target_idx /\ node_cache' = node_cache
      /\ UNCHANGED <<nodeVars, opVars>>
      /\ phase = "ISSUE" /\ Wanted /\ ~IsPrivate(MemIdx)
  BY DEF IssueVirt, Waits, idxVars
<1>1. VirtAccept(Kind, op, MemIdx, w)
  BY DEF IssueVirt
<1>2. /\ MemIdx' = MemIdx /\ MemWdata' = MemWdata
      /\ MemIdx \in 0 .. IdxSpan - 1 /\ MemWdata \in Node
  BY <1>0, AccessRange DEF MemIdx, MemWdata, Parent, Left, Right, BestNode, Best,
                     LeftWinsCur, AWins, nodeVars, opVars
<1>3. op \in {"read", "write"} /\ w \in Node \cup {NoNode} /\ (op = "write" => w # NoNode)
  BY <1>2, NoNodeAssumption
<1>4. /\ MemoryTypeOK'
      /\ \A i \in Int : Written1(i)' = Written1(i)
      /\ mmu_owner' = Kind
      /\ mmu_req' = [op |-> op, va |-> MakeVa(MemIdx), wdata |-> w]
  BY <1>1, <1>2, <1>3, AcceptKeepsMemory DEF IInv, TypeOK
<1>5. TypeOK'
  BY <1>0, <1>4 DEF IInv, TypeOK, HeapTypeOK, nodeVars, opVars
<1>6. NodesWritten'
  BY <1>0, <1>4 DEF IInv, TypeOK, HeapTypeOK, NodesWritten, Virtual, IsPrivate
<1>7. ReadsInRange' /\ RootInv'
  BY <1>0, <1>2 DEF IInv, ReadsInRange, RootInv, CacheHit, SiftStates, Wanted,
                    Left, Right, Best, LeftWinsCur, AWins, nodeVars
<1>8. PortInv'
  <2>1. MakeVa(MemIdx') = MakeVa(MemIdx)' /\ MakeVa(MemIdx') = MakeVa(MemIdx)
    BY <1>2 DEF MakeVa
  <2>2. AnswerMatches'
    BY <1>0, <1>2, <1>4, <2>1 DEF AnswerMatches
  <2> QED BY <1>3, <1>4, <2>2 DEF PortInv
<1>9. WritePending'
  BY <1>0, <1>2 DEF WritePending, IsPrivate
<1>10. CacheCoherent'
  <2>1. \A i \in 0 .. 2 : CacheHit(i) => node_cache[i] = priv[i]
    BY <1>0, CleanCache DEF IInv
  <2> QED BY <1>0, <2>1 DEF CacheCoherent, CacheHit
<1> QED BY <1>5, <1>6, <1>7, <1>8, <1>9, <1>10 DEF IInv

\* The answer is the one waited for, so that a read delivers a node of the
\* heap and a write has landed.
LEMMA VirtDoneInv == IInv /\ VirtDone /\ UNCHANGED <<now_ts, resets>> => IInv'
<1> SUFFICES ASSUME IInv, VirtDone, UNCHANGED <<now_ts, resets>> PROVE IInv'
  OBVIOUS
<1>1. /\ priv' = priv /\ phase = "WAIT" /\ Wanted /\ Virtual(MemIdx)
      /\ VirtServe /\ Complete(ServedData) /\ MemoryTypeOK /\ PortInv /\ mmu_owner = Kind
  BY DEF VirtDone, Virtual, IInv, ReadsInRange, TypeOK
<1>2. /\ MemoryTypeOK' /\ mmu_owner' = "idle" /\ mmu_req' = NoReq
      /\ \A i \in Int : Written1(i) => Written1(i)'
  BY <1>1, ServeKeepsMemory
<1>3. /\ mmu_req.va = MakeVa(MemIdx)
      /\ state \in WriteStates => mmu_req.op = "write"
      /\ MemIdx \in Int
  BY <1>1, AccessRange, HeapAssumption DEF PortInv, AnswerMatches, Virtual
<1>4. \A i \in Int : state \in WriteStates /\ i = MemIdx /\ Virtual(i) => Written1(i)'
  BY <1>1, <1>3, ServeWrites
<1>5. ASSUME state \in ReadStates PROVE ServedData \in Node
  <2>1. MemIdx \in 0 .. size - 1
    BY <1>1, <1>5, ReadsNodes
  <2>2. Written1(MemIdx)
    BY <1>1, <2>1 DEF IInv, NodesWritten
  <2> QED BY <1>1, <1>3, <2>2, ServeReads
<1>6. state # "S_PEEK_RD"
  BY <1>1, HeapAssumption, MemoryAssumption DEF MemIdx, Virtual, IsPrivate
<1>7. /\ HeapTypeOK' /\ NodesWritten' /\ ReadsInRange'
      /\ CacheCoherent' /\ RootInv' /\ phase' = "ISSUE"
  BY <1>1, <1>2, <1>4, <1>5, <1>6, CompleteInv
<1>8. TypeOK'
  BY <1>2, <1>7 DEF IInv, TypeOK
<1> QED BY <1>2, <1>7, <1>8, IssuePhase, IdlePort DEF IInv

\* A rejected access changes nothing but the phase.
LEMMA VirtRetryInv == IInv /\ VirtRetry /\ UNCHANGED <<now_ts, resets>> => IInv'
<1> SUFFICES ASSUME IInv, VirtRetry, UNCHANGED <<now_ts, resets>> PROVE IInv'
  OBVIOUS
<1> USE HeapAssumption
<1>0. /\ phase' = "ISSUE" /\ state' = state /\ size' = size /\ priv' = priv
      /\ target_idx' = target_idx /\ node_cache' = node_cache
      /\ UNCHANGED <<nodeVars, opVars>>
      /\ phase = "WAIT" /\ ~IsPrivate(MemIdx) /\ VirtReject
  BY DEF VirtRetry, Goto, idxVars
<1>1. /\ MemoryTypeOK' /\ mmu_owner' = "idle" /\ mmu_req' = NoReq
      /\ \A i \in Int : Written1(i) => Written1(i)'
  BY <1>0, RejectKeepsMemory DEF IInv, TypeOK
<1>2. TypeOK'
  BY <1>0, <1>1 DEF IInv, TypeOK, HeapTypeOK, nodeVars, opVars
<1>3. NodesWritten'
  BY <1>0, <1>1 DEF IInv, TypeOK, HeapTypeOK, NodesWritten, Virtual, IsPrivate
<1>4. ReadsInRange' /\ RootInv'
  BY <1>0 DEF IInv, ReadsInRange, RootInv, CacheHit, SiftStates,
              Left, Right, Best, LeftWinsCur, AWins, nodeVars
<1>5. CacheCoherent'
  BY <1>0, MemoryAssumption DEF IInv, CacheCoherent, CacheHit, IsPrivate
<1> QED BY <1>0, <1>1, <1>2, <1>3, <1>4, <1>5, IssuePhase, IdlePort DEF IInv

\* Skipping a missing child may leave a read on the port that nobody waits
\* for: it only ever allocates.
LEMMA NoChildInv == IInv /\ NoChild /\ UNCHANGED <<now_ts, resets>> => IInv'
<1> SUFFICES ASSUME IInv, NoChild, UNCHANGED <<now_ts, resets>> PROVE IInv'
  OBVIOUS
<1> USE HeapAssumption
<1>0. /\ phase' = "ISSUE" /\ size' = size /\ priv' = priv
      /\ target_idx' = target_idx /\ node_cache' = node_cache
      /\ UNCHANGED <<cur_node, parent_node, left_node, right_node, opVars>>
      /\ \/ /\ state = "S_POP_SIFT_RD_LEFT" /\ state' = "S_POP_SIFT_WR_FINAL"
            /\ has_right' = has_right
         \/ /\ state = "S_POP_SIFT_RD_RIGHT" /\ state' = "S_POP_SIFT_DECIDE"
            /\ has_right' = 0
  BY DEF NoChild, MissingChild, Goto, idxVars
<1>1. /\ MemoryTypeOK' /\ (\A i \in Int : Written1(i)' = Written1(i)) /\ PortInv'
  <2>1. CASE memVars' = memVars
    BY <1>0, <2>1, MemoryStill, PortStill DEF IInv, TypeOK
  <2>2. CASE VirtAccept(Kind, "read", MemIdx, NoNode)
    <3>1. MemIdx \in Int
      BY <1>0, IdxRange DEF MemIdx, IInv, TypeOK, HeapTypeOK
    <3>2. /\ MemoryTypeOK' /\ (\A i \in Int : Written1(i)' = Written1(i))
          /\ mmu_owner' = Kind
          /\ mmu_req' = [op |-> "read", va |-> MakeVa(MemIdx), wdata |-> NoNode]
      BY <2>2, <3>1, AcceptKeepsMemory DEF IInv, TypeOK
    <3> QED BY <1>0, <3>2, IssuePhase DEF PortInv
  <2> QED BY <2>1, <2>2 DEF NoChild, memVars
<1>2. TypeOK'
  BY <1>0, <1>1 DEF IInv, TypeOK, HeapTypeOK, States, SiftStates, opVars
<1>3. NodesWritten'
  BY <1>0, <1>1 DEF IInv, TypeOK, HeapTypeOK, NodesWritten, Virtual, IsPrivate, PushStates
<1>4. ReadsInRange' /\ RootInv'
  BY <1>0 DEF IInv, ReadsInRange, RootInv, CacheHit, SiftStates, Left
<1>5. CacheCoherent'
  BY <1>0, CleanCache DEF IInv, CacheCoherent, CacheHit, WriteStates
<1> QED BY <1>0, <1>1, <1>2, <1>3, <1>4, <1>5, IssuePhase DEF IInv

\* A dropped answer frees the port.
LEMMA AnswerInv == IInv /\ Answer => IInv'
<1> SUFFICES ASSUME IInv, Answer PROVE IInv'
  OBVIOUS
<1> USE HeapAssumption
<1>0. UNCHANGED <<heapVars, now_ts, resets>> /\ ~(phase = "WAIT" /\ ~IsPrivate(MemIdx))
  BY DEF Answer, LateAnswer
<1>1. /\ phase' = phase /\ state' = state /\ size' = size /\ priv' = priv
      /\ target_idx' = target_idx /\ node_cache' = node_cache
      /\ UNCHANGED <<nodeVars, opVars>>
  BY <1>0 DEF heapVars, idxVars
<1>2. /\ MemoryTypeOK' /\ mmu_owner' = "idle" /\ mmu_req' = NoReq
      /\ \A i \in Int : Written1(i) => Written1(i)'
  BY ServeKeepsMemory, RejectKeepsMemory DEF Answer, LateAnswer, IInv, TypeOK
<1>3. MemIdx' = MemIdx /\ MemWdata' = MemWdata
  BY <1>1 DEF MemIdx, MemWdata, Parent, Left, Right, BestNode, Best,
              LeftWinsCur, AWins, nodeVars, opVars
<1>4. TypeOK'
  BY <1>0, <1>1, <1>2 DEF IInv, TypeOK, HeapTypeOK, nodeVars, opVars
<1>5. NodesWritten'
  BY <1>1, <1>2 DEF IInv, TypeOK, HeapTypeOK, NodesWritten, Virtual, IsPrivate
<1>6. ReadsInRange' /\ RootInv'
  BY <1>1, <1>3 DEF IInv, ReadsInRange, RootInv, CacheHit, SiftStates, Wanted,
              Left, Right, Best, LeftWinsCur, AWins, nodeVars
<1>7. PortInv'
  BY <1>0, <1>1, <1>2, <1>3 DEF PortInv, AnswerMatches, NoReq, IsPrivate
<1>8. WritePending' /\ CacheCoherent'
  BY <1>1, <1>3 DEF IInv, WritePending, CacheCoherent, CacheHit, IsPrivate
<1> QED BY <1>4, <1>5, <1>6, <1>7, <1>8 DEF IInv

\* A heap nothing happens to, while the port may serve the other one.
LEMMA PassInv == IInv /\ Pass => IInv'
<1> SUFFICES ASSUME IInv, Pass PROVE IInv'
  OBVIOUS
<1> USE HeapAssumption
<1>1. /\ phase' = phase /\ state' = state /\ size' = size /\ priv' = priv
      /\ target_idx' = target_idx /\ node_cache' = node_cache
      /\ UNCHANGED <<nodeVars, opVars>>
  BY DEF Pass, heapVars, idxVars
<1>2. MemoryTypeOK' /\ \A i \in Int : Written1(i)' = Written1(i)
  BY MemoryStill DEF Pass, PortElsewhere, IInv, TypeOK, Written1, MakeVa
<1>3. MemIdx' = MemIdx /\ MemWdata' = MemWdata
  BY <1>1 DEF MemIdx, MemWdata, Parent, Left, Right, BestNode, Best,
              LeftWinsCur, AWins, nodeVars, opVars
<1>4. TypeOK'
  BY <1>1, <1>2 DEF Pass, IInv, TypeOK, HeapTypeOK, nodeVars, opVars
<1>5. NodesWritten'
  BY <1>1, <1>2 DEF IInv, TypeOK, HeapTypeOK, NodesWritten, Virtual, IsPrivate
<1>6. ReadsInRange' /\ RootInv'
  BY <1>1, <1>3 DEF IInv, ReadsInRange, RootInv, CacheHit, SiftStates, Wanted,
              Left, Right, Best, LeftWinsCur, AWins, nodeVars
<1>7. PortInv'
  BY <1>1, <1>3 DEF Pass, PortElsewhere, memVars, IInv, PortInv, AnswerMatches,
                    IsPrivate, MakeVa
<1>8. WritePending' /\ CacheCoherent'
  BY <1>1, <1>3 DEF IInv, WritePending, CacheCoherent, CacheHit, IsPrivate
<1> QED BY <1>4, <1>5, <1>6, <1>7, <1>8 DEF IInv

\* Reset empties the heap, so that what the RAMs keep is no node of it.
LEMMA ResetInv == IInv /\ Reset => IInv'
<1> SUFFICES ASSUME IInv, Reset PROVE IInv'
  OBVIOUS
<1> USE HeapAssumption, MemoryAssumption DEF Reset, HeapReset, MemoryReset
<1>1. TypeOK'
  <2>1. ZeroNode \in Node
    BY DEF ZeroNode, Node
  <2>2. HeapTypeOK'
    BY <2>1 DEF HeapTypeOK, States, IInv, TypeOK
  <2>3. MemoryTypeOK'
    BY DEF MemoryTypeOK, NoReq, IInv, TypeOK
  <2> QED BY <2>2, <2>3 DEF IInv, TypeOK
<1>2. NodesWritten' /\ ReadsInRange' /\ RootInv' /\ CacheCoherent'
  BY DEF NodesWritten, ReadsInRange, RootInv, CacheCoherent, CacheHit, PushStates, SiftStates
<1>3. PortInv' /\ WritePending'
  BY IssuePhase, IdlePort
<1> QED BY <1>1, <1>2, <1>3 DEF IInv

-----------------------------------------------------------------------------
(* The theorems.                                                            *)

\* IInv is kept by every use of the heap.
LEMMA UseInv == IInv /\ Use => IInv'
<1> SUFFICES ASSUME IInv, Use PROVE IInv'
  OBVIOUS
<1>1. CASE Step
  BY <1>1, ComputeInv, NoChildInv, ReadCachedInv, IssuePrivInv, PrivDoneInv,
     IssueVirtInv, VirtDoneInv, VirtRetryInv DEF Step, Busy
<1>2. CASE \E n \in Node : PushAny(n) \/ UpdateAny(n)
  BY <1>2, PushAnyInv, UpdateAnyInv
<1>3. CASE PopCommand \/ PeekCommand \/ Finish \/ Answer \/ Pass
  BY <1>3, PopCommandInv, PeekCommandInv, FinishInv, AnswerInv, PassInv
<1> QED BY <1>1, <1>2, <1>3 DEF Use

\* A heap at work stays at work and keeps its command.
LEMMA StepStays ==
  ASSUME IInv, Step
  PROVE  /\ state \notin {"S_IDLE", "S_DONE"} /\ state' # "S_IDLE"
         /\ saved_op' = saved_op /\ saved_op_data' = saved_op_data
<1>1. CASE Compute \/ NoChild
  BY <1>1 DEF Compute, PushLaunch, PushDecide, PopLaunch, SiftDecide, NoChild, MissingChild,
              Goto, opVars
<1>2. CASE IssuePriv \/ IssueVirt \/ VirtRetry
  BY <1>2 DEF IssuePriv, IssueVirt, VirtRetry, IInv, ReadsInRange, Waits, Goto, opVars,
              Wanted, ReadStates, WriteStates
<1>3. CASE ReadCached \/ PrivDone \/ VirtDone
  <2>1. PICK n : Complete(n)
    BY <1>3 DEF ReadCached, PrivDone, VirtDone
  <2> QED BY <2>1 DEF Complete, ReadParent, ReadRoot, ReadLast, ReadLeft, ReadRight, ReadPeek,
              Written, AfterWrDown, Goto, opVars
<1> QED BY <1>1, <1>2, <1>3 DEF Step, Busy

\* What a heap does on the port is not the other heap's and not in its partition.
LEMMA OwnPartition ==
  ASSUME MemoryTypeOK, Busy \/ LateAnswer, NEW k \in Kinds, k # Kind
  PROVE  \/ UNCHANGED memVars
         \/ /\ mmu_owner # k /\ mmu_owner' # k
            /\ page_table'[k] = page_table[k] /\ alloc_ptr'[k] = alloc_ptr[k]
            /\ bank'[k] = bank[k]
<1> USE HeapAssumption
<1>1. CASE Compute \/ ReadCached \/ IssuePriv \/ PrivDone
  BY <1>1 DEF Compute, ReadCached, IssuePriv, PrivDone
<1>2. CASE NoChild \/ IssueVirt
  BY <1>2 DEF NoChild, IssueVirt, VirtAccept, memVars
<1>3. CASE VirtDone \/ VirtRetry \/ LateAnswer
  <2>1. mmu_owner = Kind /\ (VirtServe \/ VirtReject)
    BY <1>3 DEF VirtDone, VirtRetry, LateAnswer
  <2>2. CASE VirtServe
    BY <2>1, <2>2 DEF VirtServe, AllocNext, MemoryTypeOK
  <2>3. CASE VirtReject
    BY <2>1, <2>3 DEF VirtReject
  <2> QED BY <2>1, <2>2, <2>3
<1> QED BY <1>1, <1>2, <1>3 DEF Busy

\* HeapSpec's user is one of them.
LEMMA NextIsUse == IInv /\ [Next]_vars => Use \/ Reset
<1> SUFFICES ASSUME IInv, [Next]_vars PROVE Use \/ Reset
  OBVIOUS
<1>1. CASE PushCommand
  <2>1. PICK p \in Prices : CmdPush([price |-> p, ts |-> now_ts, amount |-> 2])
    BY <1>1 DEF PushCommand
  <2>2. [price |-> p, ts |-> now_ts, amount |-> 2] \in Node /\ now_ts + 1 \in Nat
    BY SpecAssumption DEF Node, IInv, TypeOK
  <2> QED BY <1>1, <2>1, <2>2 DEF PushCommand, PushAny, Use
<1>2. CASE UpdateCommand
  <2>1. PICK n \in Content : n.amount > 1 /\ CmdUpdate([n EXCEPT !.amount = @ - 1])
    BY <1>2 DEF UpdateCommand
  <2>2. n \in Node
    BY <2>1, ContentIsNodes DEF CmdUpdate
  <2>3. [n EXCEPT !.amount = @ - 1] \in Node
    BY <2>1, <2>2 DEF Node
  <2> QED BY <1>2, <2>1, <2>3 DEF UpdateCommand, UpdateAny, Use
<1>3. CASE UNCHANGED vars
  BY <1>3 DEF vars, Pass, Use, IInv, TypeOK
<1> QED BY <1>1, <1>2, <1>3 DEF Next, Use

\* IInv is inductive.
LEMMA NextInv == IInv /\ [Next]_vars => IInv'
BY UseInv, NextIsUse, ResetInv

\* IInv holds in every reachable state.
LEMMA AlwaysIInv == Spec => []IInv
BY InitIsStart, InitInv, NextInv, PTL DEF Spec

\* For every heap kind and every size of the private, virtual and index
\* ranges (full partitions and wrapped indices included), every register of
\* heap_fsm keeps its width and no read that completes delivers a word that
\* was never written.
THEOREM TypeSafety == Spec => []TypeOK
<1>1. IInv => TypeOK
  BY DEF IInv
<1> QED BY <1>1, AlwaysIInv, PTL

\* The top-3 register cache is coherent with the private BRAM, whatever
\* commands, rejections and resets come.
THEOREM CacheCoherence == Spec => []CacheCoherent
<1>1. IInv => CacheCoherent
  BY DEF IInv
<1> QED BY <1>1, AlwaysIInv, PTL

\* The root of a non-empty heap is cached between two commands, so that no
\* UPDATE is dropped for a cold cache and S_POP_RD_ROOT is dead code.
THEOREM RootIsCached == Spec => []RootCached
<1>1. IInv => RootCached
  BY DEF IInv, RootInv, RootCached, SiftStates
<1> QED BY <1>1, AlwaysIInv, PTL

\* An untagged answer is never taken for the answer to another access: the
\* stray reads of missing children cannot complete one of the heap's own.
THEOREM AnswersMatch == Spec => []AnswerMatches
<1>1. IInv => AnswerMatches
  BY DEF IInv, PortInv
<1> QED BY <1>1, AlwaysIInv, PTL

-----------------------------------------------------------------------------
(* The heap is a priority queue.                                            *)

\* params_pkg.sv has 1024 virtual addresses for 960 slots, and 2048 indices
\* for 64 + 960 nodes.
SizesFit ==
  /\ VaSpan > Slots
  /\ 2 * (PrivateNodes + Slots) <= IdxSpan

Limit == PrivateNodes + Slots

\* A hole is open at target_idx and cur_node is in the air.
Air == state \in PushStates \cup SiftStates

\* The last index of the heap, the leaf a push adds included.
Top == IF state \in PushStates THEN size ELSE size - 1

\* The heap as it would be with cur_node in the hole.
At == [i \in 0 .. IdxSpan - 1 |-> IF Air /\ i = target_idx THEN cur_node ELSE Mem(i)]

-----------------------------------------------------------------------------
(* The invariant before the first reset.                                    *)

\* Addresses of the partition are mapped to different slots, all of them
\* handed out.
SlotInv ==
  \A v \in Vas : page_table[Kind][v] # Unmapped =>
    /\ page_table[Kind][v] < alloc_ptr[Kind]
    /\ \A u \in Vas : page_table[Kind][u] = page_table[Kind][v] => u = v

\* A write of this heap on the port is the write the heap waits for.
PortWrite ==
  mmu_owner = Kind /\ mmu_req.op = "write" =>
    phase = "WAIT" /\ Virtual(MemIdx) /\ state \in WriteStates /\ mmu_req.wdata = MemWdata

\* The hole is one of the indices.
HoleInv ==
  /\ Air => target_idx \in 0 .. Top
  /\ state = "S_PUSH_LAUNCH" => target_idx = size
  /\ state \in {"S_PUSH_RD_PARENT", "S_PUSH_DECIDE", "S_PUSH_WR_DOWN"} => target_idx > 0

\* No two nodes have the same timestamp, and all are below now_ts.
KeysInv ==
  \A i \in 0 .. Top :
    /\ At[i] \in Node
    /\ At[i].ts < now_ts
    /\ \A j \in 0 .. Top : At[i].ts = At[j].ts => i = j

\* Index i is compared with its parent: not so the node that still rises, nor
\* the children of the one that still sinks.
Settled(i) ==
  /\ ~(state \in PushStates /\ i = target_idx)
  /\ ~(state \in SiftStates /\ Parent(i) = target_idx)

\* Every settled node comes after its parent, and the children of the hole
\* after the parent of the hole.
OrderInv ==
  /\ \A i \in 1 .. Top : Settled(i) => Precedes(At[Parent(i)], At[i])
  /\ Air /\ target_idx > 0 =>
       \A i \in 1 .. Top : Parent(i) = target_idx => Precedes(At[Parent(target_idx)], At[i])

\* The operands of a comparison are the nodes they were read from, and the
\* last write of a sift is made where the node belongs.
OperandInv ==
  /\ state \in {"S_PUSH_DECIDE", "S_PUSH_WR_DOWN"} => parent_node = At[Parent(target_idx)]
  /\ state = "S_PUSH_WR_DOWN" => Precedes(cur_node, parent_node)
  /\ state = "S_PUSH_WR_FINAL" =>
       target_idx = 0 \/ Precedes(At[Parent(target_idx)], cur_node)
  /\ state \in {"S_POP_SIFT_RD_RIGHT", "S_POP_SIFT_DECIDE", "S_POP_SIFT_WR_UP"} =>
       left_node = At[Left(target_idx)]
  /\ state \in {"S_POP_SIFT_DECIDE", "S_POP_SIFT_WR_UP"} =>
       /\ has_right = 1 <=> Right(target_idx) < size
       /\ has_right = 1 => right_node = At[Right(target_idx)]
  /\ state = "S_POP_SIFT_WR_FINAL" =>
       \A i \in 1 .. Top : Parent(i) = target_idx => Precedes(cur_node, At[i])

\* The saved command is the one that is executed, on the node it was given.
CommandInv ==
  /\ state \in PushStates => saved_op = "OP_PUSH" /\ cur_node = saved_op_data
  /\ state \in SiftStates \cup PopStates => saved_op = "OP_POP"
  /\ state = "S_PEEK_RD" => saved_op = "OP_PEEK"
  /\ state = "S_UPDATE_WR" =>
       /\ saved_op = "OP_UPDATE" /\ size > 0
       /\ saved_op_data.price = At[0].price /\ saved_op_data.ts = At[0].ts
  /\ state \in PopStates /\ size > 0 => popped_root = At[0]

OInv ==
  /\ IInv /\ SlotInv /\ PortWrite /\ HoleInv /\ KeysInv
  /\ OrderInv /\ OperandInv /\ CommandInv

\* A use of the heap in which a node that is pushed has a timestamp no node of
\* the heap has, and an UPDATE is for a heap that is not empty.
TimelyPush(n) ==
  /\ PushAny(n) /\ n.ts < now_ts' /\ now_ts' >= now_ts
  /\ \A m \in Content : m.ts # n.ts
RootUpdate(n) == UpdateAny(n) /\ size > 0
TimelyPass == Pass /\ now_ts' >= now_ts

TimelyUse ==
  \/ \E n \in Node : TimelyPush(n) \/ RootUpdate(n)
  \/ PopCommand \/ PeekCommand \/ Finish \/ Step \/ Answer \/ TimelyPass

-----------------------------------------------------------------------------
(* Sizes and indices.                                                       *)

USE DEF Kinds, Vas, Unmapped

\* An index that fits its register is not truncated.
LEMMA ModSmall ==
  ASSUME NEW n \in Nat \ {0}, NEW x \in 0 .. n - 1
  PROVE  x % n = x
OBVIOUS

\* Within the heap's limit make_va truncates nothing.
LEMMA VaInjective ==
  ASSUME SizesFit, NEW i \in PrivateNodes .. Limit, NEW j \in PrivateNodes .. Limit
  PROVE  /\ MakeVa(i) = i - PrivateNodes
         /\ MakeVa(i) = MakeVa(j) => i = j
<1>1. /\ i - PrivateNodes \in 0 .. VaSpan - 1
      /\ j - PrivateNodes \in 0 .. VaSpan - 1
  BY MemoryAssumption DEF SizesFit, Limit
<1>2. MakeVa(i) = i - PrivateNodes /\ MakeVa(j) = j - PrivateNodes
  BY <1>1, ModSmall, MemoryAssumption DEF MakeVa
<1> QED BY <1>2, MemoryAssumption

\* As many indices as are mapped in a row have slots of their own.
LEMMA Mappable ==
  ASSUME SizesFit, MemoryTypeOK, SlotInv,
         NEW n \in Nat,
         \A i \in PrivateNodes .. n - 1 : page_table[Kind][MakeVa(i)] # Unmapped
  PROVE  n <= Limit
<1> USE MemoryAssumption, HeapAssumption
<1>1. SUFFICES ASSUME n > Limit PROVE FALSE
  BY DEF Limit
<1> DEFINE S == PrivateNodes .. Limit
           T == 0 .. Slots - 1
           f == [i \in S |-> page_table[Kind][MakeVa(i)]]
<1>2. \A i \in S : i \in PrivateNodes .. n - 1 /\ MakeVa(i) \in Vas
  BY <1>1, VaRange DEF Limit
<1>3. f \in [S -> T]
  BY <1>2 DEF MemoryTypeOK
<1>4. IsFiniteSet(S) /\ Cardinality(S) = Slots + 1
  BY FS_Interval DEF Limit
<1>5. IsFiniteSet(T) /\ Cardinality(T) = Slots
  BY FS_Interval
<1>6. Cardinality(T) < Cardinality(S)
  BY <1>4, <1>5
<1>7. PICK x \in S, y \in S : x # y /\ f[x] = f[y]
  <2> HIDE DEF S, T, f
  <2> QED BY <1>3, <1>4, <1>5, <1>6, FS_PigeonHole
<1>8. MakeVa(x) = MakeVa(y)
  BY <1>2, <1>7 DEF SlotInv
<1> QED BY <1>7, <1>8, VaInjective

\* The heap never outgrows its tiers, a push that has moved a node down
\* included.
LEMMA SizeFits ==
  ASSUME SizesFit, IInv, SlotInv
  PROVE  /\ size <= Limit
         /\ state \in PushStates => target_idx = size \/ size + 1 <= Limit
         /\ Top <= Limit
<1> USE MemoryAssumption, HeapAssumption
<1>0. MemoryTypeOK /\ size \in Nat /\ NodesWritten /\ target_idx \in Nat
  BY DEF IInv, TypeOK, HeapTypeOK
<1>1. size <= Limit
  BY <1>0, Mappable DEF NodesWritten, Virtual, IsPrivate, Written1
<1>2. ASSUME state \in PushStates, target_idx # size PROVE size + 1 <= Limit
  <2>1. Virtual(size) => Written1(size)
    BY <1>0, <1>2 DEF NodesWritten
  <2>2. \A i \in PrivateNodes .. size : page_table[Kind][MakeVa(i)] # Unmapped
    BY <1>0, <2>1 DEF NodesWritten, Virtual, IsPrivate, Written1
  <2> HIDE MemoryAssumption, HeapAssumption
  <2>3. size + 1 \in Nat /\ (size + 1) - 1 = size
    BY <1>0
  <2> QED BY <1>0, <2>2, <2>3, Mappable
<1>3. Top <= Limit
  BY <1>0, <1>1 DEF Top, Limit
<1> QED BY <1>1, <1>2, <1>3

\* The children of an index of the heap are computed without truncation, and
\* Parent is the inverse of both.
LEMMA Children ==
  ASSUME SizesFit, NEW t \in 0 .. Limit - 1
  PROVE  /\ Left(t) = 2 * t + 1
         /\ 2 * t + 2 < IdxSpan => Right(t) = 2 * t + 2
         /\ \A i \in Nat \ {0} : Parent(i) = t <=> i = 2 * t + 1 \/ i = 2 * t + 2
<1> USE MemoryAssumption, HeapAssumption
<1>1. 2 * t + 1 \in 0 .. IdxSpan - 1
  BY DEF SizesFit, Limit
<1>2. Left(t) = 2 * t + 1
  BY <1>1, ModSmall DEF Left
<1>3. 2 * t + 2 < IdxSpan => Right(t) = 2 * t + 2
  BY ModSmall DEF Right
<1>4. \A i \in Nat \ {0} : Parent(i) = t <=> i = 2 * t + 1 \/ i = 2 * t + 2
  BY DEF Parent, Limit
<1> QED BY <1>2, <1>3, <1>4

\* The comparator of heap_fsm is price-time priority.
LEMMA Comparator ==
  ASSUME NEW a \in Node, NEW b \in Node
  PROVE  /\ AWins(a, b) <=> Precedes(a, b)
         /\ Precedes(a, b) => ~Precedes(b, a)
         /\ a.ts # b.ts => Precedes(a, b) \/ Precedes(b, a)
         /\ \A c \in Node : Precedes(a, b) /\ Precedes(b, c) => Precedes(a, c)
<1>1. /\ a.price \in Nat /\ a.ts \in Nat /\ b.price \in Nat /\ b.ts \in Nat
      /\ Kind = "bid" \/ Kind = "ask"
  BY HeapAssumption DEF Node
<1>2. AWins(a, b) <=> Precedes(a, b)
  BY <1>1 DEF AWins, Precedes
<1>3. /\ Precedes(a, b) => ~Precedes(b, a)
      /\ a.ts # b.ts => Precedes(a, b) \/ Precedes(b, a)
  BY <1>1 DEF Precedes
<1>4. ASSUME NEW c \in Node, Precedes(a, b), Precedes(b, c) PROVE Precedes(a, c)
  <2>1. c.price \in Nat /\ c.ts \in Nat
    BY DEF Node
  <2> QED BY <1>1, <1>4, <2>1 DEF Precedes
<1> QED BY <1>2, <1>3, <1>4

-----------------------------------------------------------------------------
(* Sifting, as functions: f before and g after a node and the hole change   *)
(* places; n is the last index.                                             *)

\* Parents come before their children.
LEMMA ParentBelow == \A i \in Nat \ {0} : Parent(i) \in 0 .. i - 1
BY DEF Parent

\* A node that precedes its parent changes places with it.
LEMMA RiseOrder ==
  ASSUME NEW n \in Nat, NEW t \in 1 .. n, NEW f, NEW g,
         \A i \in 0 .. n : f[i] \in Node,
         \A i \in 1 .. n : i # t => Precedes(f[Parent(i)], f[i]),
         \A i \in 1 .. n : Parent(i) = t => Precedes(f[Parent(t)], f[i]),
         Precedes(f[t], f[Parent(t)]),
         g[t] = f[Parent(t)], g[Parent(t)] = f[t],
         \A i \in 0 .. n : i # t /\ i # Parent(t) => g[i] = f[i]
  PROVE  /\ \A i \in 1 .. n : i # Parent(t) => Precedes(g[Parent(i)], g[i])
         /\ Parent(t) > 0 => \A i \in 1 .. n :
              Parent(i) = Parent(t) => Precedes(g[Parent(Parent(t))], g[i])
<1> DEFINE p == Parent(t)
<1>0. /\ p \in 0 .. n /\ p < t
      /\ \A i \in 1 .. n : Parent(i) \in 0 .. n /\ Parent(i) < i
  BY ParentBelow
<1>1. ASSUME NEW i \in 1 .. n, i # p PROVE Precedes(g[Parent(i)], g[i])
  <2>1. CASE i = t
    BY <2>1
  <2>2. CASE Parent(i) = t
    BY <1>0, <1>1, <2>2
  <2>3. CASE i # t /\ Parent(i) = p
    <3>1. g[i] = f[i] /\ Precedes(f[p], f[i]) /\ g[Parent(i)] = f[t]
      BY <1>1, <2>3
    <3> QED BY <1>0, <3>1, Comparator
  <2>4. CASE i # t /\ Parent(i) # p /\ Parent(i) # t
    BY <1>0, <1>1, <2>4
  <2> QED BY <2>1, <2>2, <2>3, <2>4
<1>2. ASSUME p > 0, NEW i \in 1 .. n, Parent(i) = p PROVE Precedes(g[Parent(p)], g[i])
  <2>1. /\ Parent(p) \in 0 .. n /\ Parent(p) < p /\ p \in 1 .. n /\ p # t
        /\ g[Parent(p)] = f[Parent(p)] /\ Precedes(f[Parent(p)], f[p])
    BY <1>0, <1>2
  <2>2. CASE i = t
    BY <2>1, <2>2
  <2>3. CASE i # t
    <3>1. g[i] = f[i] /\ Precedes(f[p], f[i])
      BY <1>0, <1>2, <2>3
    <3> QED BY <2>1, <3>1, Comparator
  <2> QED BY <2>2, <2>3
<1> QED BY <1>1, <1>2

\* The better child of a hole changes places with a node it precedes.
LEMMA SinkOrder ==
  ASSUME NEW n \in Nat, NEW t \in 0 .. n, NEW b \in 1 .. n, Parent(b) = t, NEW f, NEW g,
         \A i \in 1 .. n : Parent(i) # t => Precedes(f[Parent(i)], f[i]),
         t > 0 => \A i \in 1 .. n : Parent(i) = t => Precedes(f[Parent(t)], f[i]),
         Precedes(f[b], f[t]),
         \A i \in 1 .. n : Parent(i) = t /\ i # b => Precedes(f[b], f[i]),
         g[t] = f[b], g[b] = f[t],
         \A i \in 0 .. n : i # t /\ i # b => g[i] = f[i]
  PROVE  /\ \A i \in 1 .. n : Parent(i) # b => Precedes(g[Parent(i)], g[i])
         /\ \A i \in 1 .. n : Parent(i) = b => Precedes(g[Parent(b)], g[i])
<1>0. t < b /\ \A i \in 1 .. n : Parent(i) \in 0 .. n /\ Parent(i) < i
  BY ParentBelow
<1>1. ASSUME NEW i \in 1 .. n, Parent(i) # b PROVE Precedes(g[Parent(i)], g[i])
  <2>1. CASE i = b
    BY <2>1
  <2>2. CASE Parent(i) = t /\ i # b
    BY <1>0, <2>2
  <2>3. CASE i = t
    BY <1>0, <2>3
  <2>4. CASE i # b /\ Parent(i) # t /\ i # t
    BY <1>0, <1>1, <2>4
  <2> QED BY <2>1, <2>2, <2>3, <2>4
<1>2. ASSUME NEW i \in 1 .. n, Parent(i) = b PROVE Precedes(g[Parent(b)], g[i])
  BY <1>0, <1>2
<1> QED BY <1>1, <1>2

\* Two places that change their nodes keep the keys apart.
LEMMA SwapKeys ==
  ASSUME NEW n \in Nat, NEW t \in 0 .. n, NEW b \in 0 .. n, t # b, NEW f, NEW g,
         NEW now \in Nat,
         \A i \in 0 .. n : f[i] \in Node /\ f[i].ts < now
                           /\ \A j \in 0 .. n : f[i].ts = f[j].ts => i = j,
         g[t] = f[b], g[b] = f[t],
         \A i \in 0 .. n : i # t /\ i # b => g[i] = f[i]
  PROVE  \A i \in 0 .. n : g[i] \in Node /\ g[i].ts < now
                           /\ \A j \in 0 .. n : g[i].ts = g[j].ts => i = j
OBVIOUS

\* The root precedes every other node of an ordered heap.
LEMMA RootFirst ==
  ASSUME NEW n \in Nat, NEW f,
         \A i \in 0 .. n : f[i] \in Node,
         \A i \in 1 .. n : Precedes(f[Parent(i)], f[i])
  PROVE  \A i \in 1 .. n : Precedes(f[0], f[i])
<1> DEFINE T == {i \in 1 .. n : ~Precedes(f[0], f[i])}
<1>1. SUFFICES ASSUME T # {} PROVE FALSE
  OBVIOUS
<1>2. PICK x \in T : \A y \in T : ~(<<y, x>> \in OpToRel(<, Nat))
  <2>1. T \subseteq Nat
    OBVIOUS
  <2> HIDE DEF T
  <2> QED BY <1>1, <2>1, NatLessThanWellFounded, WFMin
<1>3. \A y \in T : ~(y < x)
  <2>1. OpToRel(<, Nat) = {ss \in Nat \X Nat : ss[1] < ss[2]}
    BY Zenon DEF OpToRel
  <2>2. SUFFICES ASSUME NEW y \in T, y < x PROVE <<y, x>> \in OpToRel(<, Nat)
    BY <1>2
  <2>3. <<y, x>> \in Nat \X Nat /\ <<y, x>>[1] < <<y, x>>[2]
    BY <2>2
  <2> QED BY ONLY <2>1, <2>3
<1>4. Parent(x) \in 0 .. n /\ Parent(x) < x
  BY ParentBelow
<1>5. CASE Parent(x) = 0
  BY <1>5
<1>6. CASE Parent(x) # 0
  <2>1. Parent(x) \in 1 .. n /\ Parent(x) \notin T
    BY <1>3, <1>4, <1>6
  <2>2. Precedes(f[0], f[Parent(x)]) /\ Precedes(f[Parent(x)], f[x])
    BY <2>1
  <2> QED BY <1>4, <2>2, Comparator
<1> QED BY <1>5, <1>6

-----------------------------------------------------------------------------
(* What the memory tiers keep and deliver.                                  *)

\* What is stored at an index depends on its word of the BRAM, the page table
\* and the banks only.
LEMMA MemKept ==
  ASSUME page_table' = page_table, bank' = bank,
         NEW i, IsPrivate(i) => priv'[i] = priv[i]
  PROVE  Mem(i)' = Mem(i)
BY DEF Mem, MakeVa, IsPrivate

LEMMA MemStill ==
  ASSUME memVars' = memVars, NEW i, IsPrivate(i) => priv'[i] = priv[i]
  PROVE  Mem(i)' = Mem(i)
BY MemKept DEF memVars

\* Every index but the hole is stored.
LEMMA LiveWritten ==
  ASSUME IInv, HoleInv, NEW i \in 0 .. Top, ~(Air /\ i = target_idx), Virtual(i)
  PROVE  Written1(i)
BY DEF IInv, TypeOK, HeapTypeOK, NodesWritten, HoleInv, Top, Air

\* The index that is read or written is one of the heap's, a hole that may
\* still be beyond its limit included.
LEMMA AccessFits ==
  ASSUME SizesFit, OInv, Wanted
  PROVE  MemIdx \in 0 .. Limit
<1> USE HeapAssumption, MemoryAssumption
<1>1. /\ size \in 0 .. IdxSpan - 1 /\ target_idx \in 0 .. IdxSpan - 1
      /\ MemIdx \in 0 .. IdxSpan - 1 /\ IInv /\ SlotInv
  BY AccessRange DEF OInv, IInv, TypeOK, HeapTypeOK
<1>2. size <= Limit /\ Top <= Limit /\ Limit \in Nat
  BY <1>1, SizeFits DEF Limit
<1>3. CASE state \in ReadStates /\ Virtual(MemIdx)
  <2>1. MemIdx \in 0 .. size - 1
    BY <1>1, <1>3, ReadsNodes
  <2> QED BY <1>1, <1>2, <2>1
<1>4. CASE ~Virtual(MemIdx)
  BY <1>1, <1>4 DEF Virtual, IsPrivate, Limit
<1>5. CASE state \in WriteStates
  <2>1. MemIdx = 0 \/ (MemIdx = target_idx /\ Air)
    BY <1>5 DEF Air, PushStates, SiftStates, WriteStates, MemIdx
  <2>2. Air => target_idx \in 0 .. Top
    BY DEF OInv, HoleInv
  <2>3. Top \in Int
    BY <1>1 DEF Top
  <2> QED BY <1>1, <1>2, <2>1, <2>2, <2>3
<1> QED BY <1>3, <1>4, <1>5 DEF Wanted

\* The MMU's answer: a write changes its own index and no other, a read none
\* that is stored, and slots stay apart.
LEMMA Served ==
  ASSUME SizesFit, OInv, mmu_owner = Kind, VirtServe, priv' = priv
  PROVE  /\ SlotInv'
         /\ \A i \in 0 .. Limit :
              /\ Virtual(i) => Written1(i)
              /\ mmu_req.op = "write" => i # MemIdx
              => Mem(i)' = Mem(i)
         /\ \A i \in 0 .. Limit : mmu_req.op = "write" /\ i = MemIdx => Mem(i)' = MemWdata
         /\ \A i \in 0 .. Limit :
              Virtual(i) /\ Written1(i) /\ mmu_req.va = MakeVa(i) => ServedData = Mem(i)
<1> USE HeapAssumption, MemoryAssumption
<1>0. MemoryTypeOK /\ PortInv /\ PortWrite /\ SlotInv /\ Limit \in Nat
  BY DEF OInv, IInv, TypeOK, Limit
<1>1. mmu_owner = Kind
  OBVIOUS
<1>2. /\ mmu_req.va \in Vas /\ Slot \in 0 .. Slots - 1
      /\ page_table[Kind] \in [Vas -> (0 .. Slots - 1) \cup {-1}]
      /\ alloc_ptr[Kind] \in 0 .. Slots
  BY <1>0, <1>1 DEF VirtServe, Slot, Mapped, MemoryTypeOK
<1>3. page_table'[Kind] = [page_table[Kind] EXCEPT ![mmu_req.va] = Slot]
  BY <1>0, <1>1, <1>2 DEF VirtServe, MemoryTypeOK
<1>4. bank'[Kind] = IF mmu_req.op = "write" THEN [bank[Kind] EXCEPT ![Slot] = mmu_req.wdata]
                    ELSE bank[Kind]
  BY <1>0, <1>1 DEF VirtServe, MemoryTypeOK
<1>5. alloc_ptr'[Kind] = IF page_table[Kind][mmu_req.va] # -1
                         THEN alloc_ptr[Kind] ELSE alloc_ptr[Kind] + 1
  BY <1>0, <1>1 DEF VirtServe, MemoryTypeOK, AllocNext, Mapped
<1>6. Slot = IF page_table[Kind][mmu_req.va] # -1 THEN page_table[Kind][mmu_req.va]
             ELSE alloc_ptr[Kind]
  BY <1>1 DEF Slot, Mapped
<1>7. SlotInv'
  <2>1. CASE page_table[Kind][mmu_req.va] # -1
    <3>1. page_table'[Kind] = page_table[Kind] /\ alloc_ptr'[Kind] = alloc_ptr[Kind]
      BY <1>0, <1>2, <1>3, <1>5, <1>6, <2>1
    <3> QED BY <1>0, <3>1 DEF SlotInv
  <2>2. CASE page_table[Kind][mmu_req.va] = -1
    <3>1. /\ page_table'[Kind][mmu_req.va] = alloc_ptr[Kind]
          /\ \A v \in Vas \ {mmu_req.va} : page_table'[Kind][v] = page_table[Kind][v]
      BY ONLY <1>2, <1>3, <1>6, <2>2
    <3>2. alloc_ptr'[Kind] = alloc_ptr[Kind] + 1 /\ alloc_ptr[Kind] \in Nat
      BY ONLY <1>2, <1>5, <2>2, MemoryAssumption
    <3>3. \A v \in Vas : page_table[Kind][v] # Unmapped =>
            page_table[Kind][v] < alloc_ptr[Kind] /\ page_table[Kind][v] \in Nat
      BY ONLY <1>0, <1>2, MemoryAssumption DEF SlotInv, Unmapped
    <3>4. \A v \in Vas : page_table'[Kind][v] # Unmapped => page_table'[Kind][v] < alloc_ptr'[Kind]
      BY ONLY <3>1, <3>2, <3>3
    <3>5. ASSUME NEW v \in Vas, page_table'[Kind][v] # Unmapped,
                 NEW u \in Vas, page_table'[Kind][u] = page_table'[Kind][v]
          PROVE  u = v
      BY ONLY <1>0, <3>1, <3>2, <3>3, <3>5 DEF SlotInv
    <3> QED BY ONLY <3>4, <3>5 DEF SlotInv
  <2> QED BY <2>1, <2>2
<1>8. \A v \in Vas : v # mmu_req.va => page_table[Kind][v] # Slot
  BY <1>0, <1>2, <1>6 DEF SlotInv
<1>9. \A i \in Int : MakeVa(i) \in Vas /\ MakeVa(i)' = MakeVa(i)
  BY VaRange DEF MakeVa
<1>10. ASSUME NEW i \in 0 .. Limit, Virtual(i) => Written1(i),
              mmu_req.op = "write" => i # MemIdx
       PROVE  Mem(i)' = Mem(i)
  <2>1. CASE IsPrivate(i)
    BY <2>1 DEF Mem, IsPrivate
  <2>2. CASE Virtual(i)
    <3> DEFINE va == MakeVa(i)
    <3>1. va \in Vas /\ page_table[Kind][va] # -1
      BY <1>9, <1>10, <2>2 DEF Written1
    <3>2. page_table'[Kind][va] = page_table[Kind][va]
      BY <1>2, <1>3, <1>6, <3>1
    <3>3. bank'[Kind][page_table[Kind][va]] = bank[Kind][page_table[Kind][va]]
      <4>1. CASE mmu_req.op = "write"
        <5>1. /\ phase = "WAIT" /\ Virtual(MemIdx) /\ state \in WriteStates
              /\ mmu_req.va = MakeVa(MemIdx) /\ MemIdx \in 0 .. Limit /\ i # MemIdx
          BY <1>0, <1>10, <4>1, AccessFits
             DEF PortWrite, PortInv, AnswerMatches, OInv, IInv, ReadsInRange, Virtual
        <5>2. i \in PrivateNodes .. Limit /\ MemIdx \in PrivateNodes .. Limit
          BY <1>0, <2>2, <5>1 DEF Virtual, IsPrivate
        <5>3. va # mmu_req.va
          BY <5>1, <5>2, VaInjective
        <5>4. page_table[Kind][va] # Slot
          BY <1>8, <3>1, <5>3
        <5>5. bank[Kind] \in [0 .. Slots - 1 -> Node \cup {NoNode}]
          BY <1>0 DEF MemoryTypeOK
        <5> QED BY <1>2, <1>4, <3>1, <5>4, <5>5
      <4> QED BY <1>4, <4>1
    <3> QED BY <1>9, <2>2, <3>1, <3>2, <3>3 DEF Mem, Virtual, IsPrivate
  <2> QED BY <2>1, <2>2 DEF Virtual
<1>11. ASSUME NEW x \in 0 .. Limit, mmu_req.op = "write", x = MemIdx PROVE Mem(x)' = MemWdata
  <2>1. /\ phase = "WAIT" /\ Virtual(MemIdx) /\ state \in WriteStates
        /\ mmu_req.va = MakeVa(MemIdx) /\ mmu_req.wdata = MemWdata
    BY <1>0, <1>11
       DEF PortWrite, PortInv, AnswerMatches, OInv, IInv, ReadsInRange, Virtual
  <2>2. x \in Int /\ MakeVa(x) = mmu_req.va
    BY <1>0, <1>11, <2>1
  <2>3. page_table'[Kind][MakeVa(x)] = Slot /\ bank'[Kind][Slot] = MemWdata
    BY <1>0, <1>2, <1>3, <1>4, <1>11, <2>1, <2>2 DEF MemoryTypeOK
  <2> QED BY <1>2, <1>9, <1>11, <2>1, <2>2, <2>3 DEF Mem, Virtual, IsPrivate
<1>12. ASSUME NEW i \in 0 .. Limit, Virtual(i), Written1(i), mmu_req.va = MakeVa(i)
       PROVE  ServedData = Mem(i)
  BY <1>1, <1>6, <1>12 DEF ServedData, Mem, Virtual, Written1
<1> QED BY <1>7, <1>10, <1>11, <1>12

-----------------------------------------------------------------------------
(* Steps that leave the nodes where they are.                               *)

\* The heap with the hole filled, now and after a step.
LEMMA AtValue ==
  ASSUME NEW i \in 0 .. IdxSpan - 1
  PROVE  /\ At[i] = IF Air /\ i = target_idx THEN cur_node ELSE Mem(i)
         /\ At'[i] = IF Air' /\ i = target_idx' THEN cur_node' ELSE Mem(i)'
BY DEF At

\* The heap's indices lie below half the index range.
LEMMA TopRange ==
  ASSUME SizesFit, IInv, SlotInv
  PROVE  /\ Top \in Int /\ Top <= Limit /\ Limit \in Nat /\ 2 * Limit <= IdxSpan
         /\ \A i \in 0 .. Top : i \in 0 .. Limit /\ i \in 0 .. IdxSpan - 1
         /\ size \in 0 .. IdxSpan - 1 /\ target_idx \in 0 .. IdxSpan - 1
         /\ size <= Limit
<1> USE HeapAssumption, MemoryAssumption
<1>1. Limit \in Nat /\ Limit >= 3 /\ 2 * Limit <= IdxSpan
  BY DEF SizesFit, Limit
<1>2. size \in 0 .. IdxSpan - 1 /\ target_idx \in 0 .. IdxSpan - 1
  BY DEF IInv, TypeOK, HeapTypeOK
<1>3. Top \in Int /\ Top <= Limit /\ size <= Limit
  BY <1>2, SizeFits DEF Top
<1> QED BY <1>1, <1>2, <1>3

\* The mappings stand still with the page table and the allocator.
LEMMA SlotsStill ==
  ASSUME SlotInv, page_table' = page_table, alloc_ptr' = alloc_ptr
  PROVE  SlotInv'
BY DEF SlotInv

\* Without a write on the port nothing is promised about one.
LEMMA NoPortWrite == mmu_req'.op # "write" => PortWrite'
BY DEF PortWrite

\* A step that neither moves the hole nor touches a stored node.
LEMMA Quiet ==
  ASSUME SizesFit, OInv, size' = size, now_ts' = now_ts,
         state' \in PushStates <=> state \in PushStates,
         state' \in SiftStates <=> state \in SiftStates,
         Air => target_idx' = target_idx /\ cur_node' = cur_node,
         \A i \in 0 .. Limit :
           (Virtual(i) => Written1(i)) /\ ~(Air /\ i = target_idx) => Mem(i)' = Mem(i)
  PROVE  /\ Top' = Top /\ Air' = Air
         /\ \A i \in 0 .. Top : At'[i] = At[i]
         /\ KeysInv' /\ OrderInv'
<1>0. IInv /\ SlotInv /\ HoleInv /\ KeysInv /\ OrderInv
  BY DEF OInv
<1>1. Top' = Top /\ Air' = Air
  BY DEF Top, Air
<1>2. ASSUME NEW i \in 0 .. Top PROVE At'[i] = At[i]
  <2>1. i \in 0 .. Limit /\ i \in 0 .. IdxSpan - 1
    BY <1>0, <1>2, TopRange
  <2>2. ~(Air /\ i = target_idx) => Mem(i)' = Mem(i)
    BY <1>0, <1>2, <2>1, LiveWritten
  <2> QED BY <1>1, <2>1, <2>2, AtValue
<1>3. KeysInv'
  BY <1>0, <1>1, <1>2 DEF KeysInv
<1>4. \A i \in 1 .. Top : Parent(i) \in 0 .. Top /\ i \in 0 .. Top
  BY <1>0, TopRange, ParentBelow
<1>5. \A i \in 1 .. Top : Parent(i)' = Parent(i)
  BY DEF Parent
<1>6. Air => Parent(target_idx)' = Parent(target_idx)
  BY DEF Parent
<1>7. Air /\ target_idx > 0 => Parent(target_idx) \in 0 .. Top
  BY <1>0, <1>4, TopRange DEF HoleInv
<1>8. OrderInv'
  <2>1. ASSUME NEW i \in 1 .. Top, Settled(i)' PROVE Precedes(At'[Parent(i)], At'[i])
    <3>1. Settled(i)
      BY <1>1, <2>1 DEF Settled, Air, Parent
    <3> QED BY <1>0, <1>2, <1>4, <3>1 DEF OrderInv
  <2>2. ASSUME Air, target_idx > 0, NEW i \in 1 .. Top, Parent(i) = target_idx
        PROVE  Precedes(At'[Parent(target_idx)], At'[i])
    BY <1>0, <1>2, <1>4, <1>7, <2>2 DEF OrderInv
  <2> QED BY <1>1, <1>5, <1>6, <2>1, <2>2 DEF OrderInv, Precedes
<1> QED BY <1>1, <1>2, <1>3, <1>8

\* A port that carries no write, left alone.
LEMMA PortWriteStill ==
  ASSUME PortWrite, memVars' = memVars,
         ~(phase = "WAIT" /\ state \in WriteStates /\ Virtual(MemIdx))
  PROVE  PortWrite'
BY DEF PortWrite, memVars

\* The nodes of an idle heap are those at its indices.
LEMMA IdleContent ==
  ASSUME IInv, state = "S_IDLE"
  PROVE  Content = {At[i] : i \in 0 .. Top}
<1>1. Top = size - 1 /\ ~Air
  BY DEF Top, Air, PushStates, SiftStates
<1>2. \A i \in 0 .. Top : i \in 0 .. IdxSpan - 1
  BY <1>1, HeapAssumption DEF IInv, TypeOK, HeapTypeOK
<1>3. \A i \in 0 .. Top : At[i] = Mem(i)
  BY <1>1, <1>2, AtValue
<1>4. Content = {Mem(i) : i \in 0 .. size - 1}
  BY DEF Content, PushStates, SiftStates
<1> QED BY <1>1, <1>3, <1>4

\* A PUSH opens a hole at the new leaf.
LEMMA PushOrder ==
  ASSUME SizesFit, OInv, NEW n \in Node, TimelyPush(n)
  PROVE  OInv'
<1>0. IInv /\ SlotInv /\ HoleInv /\ KeysInv /\ OrderInv /\ PortWrite
  BY DEF OInv
<1>1. CmdPush(n) /\ PushAny(n)
  BY DEF TimelyPush, PushAny
<1>2. /\ state = "S_IDLE" /\ state' = "S_PUSH_LAUNCH" /\ size' = size /\ target_idx' = size
      /\ cur_node' = n /\ saved_op' = "OP_PUSH" /\ saved_op_data' = n
      /\ memVars' = memVars /\ priv' = priv
  BY <1>1 DEF TimelyPush, PushAny, CmdPush, Goto
<1>3. /\ n \in Node /\ n.ts < now_ts' /\ now_ts' >= now_ts /\ now_ts \in Nat /\ now_ts' \in Nat
      /\ \A m \in Content : m.ts # n.ts
  BY <1>0 DEF TimelyPush, PushAny, IInv, TypeOK
<1>4. Top = size - 1 /\ Top' = size /\ ~Air /\ Air'
  BY <1>2 DEF Top, Air, PushStates, SiftStates
<1>5. size \in 0 .. IdxSpan - 1
  BY <1>0, TopRange
<1>6. At'[size] = n
  BY <1>2, <1>4, <1>5, AtValue
<1>7. \A i \in 0 .. Top : i # size /\ At'[i] = At[i]
  <2>1. \A i \in 0 .. Top : i \in 0 .. IdxSpan - 1 /\ Mem(i)' = Mem(i)
    BY <1>0, <1>2, TopRange, MemStill
  <2> QED BY <1>2, <1>4, <1>5, <2>1, AtValue
<1>8. \A i \in 1 .. size : Parent(i) \in 0 .. Top /\ Parent(i)' = Parent(i)
  BY <1>4, <1>5, ParentBelow DEF Parent
<1>9. KeysInv'
  <2>1. \A i \in 0 .. size : i \in 0 .. Top \/ i = size
    BY <1>4, <1>5
  <2>2. \A i \in 0 .. size : At'[i] \in Node /\ At'[i].ts < now_ts'
    BY <1>0, <1>3, <1>6, <1>7, <2>1 DEF KeysInv, Node
  <2>3. \A i \in 0 .. Top : At'[i].ts # n.ts
    <3>1. \A i \in 0 .. Top : At[i] \in Content
      BY <1>0, <1>2, <1>4, IdleContent
    <3> QED BY <1>3, <1>7, <3>1
  <2>4. \A i, j \in 0 .. size : At'[i].ts = At'[j].ts => i = j
    BY <1>0, <1>3, <1>6, <1>7, <2>1, <2>3 DEF KeysInv
  <2> QED BY <1>2, <1>4, <2>2, <2>4 DEF KeysInv
<1>10. OrderInv'
  <2>1. ASSUME NEW i \in 1 .. size, i # size PROVE Precedes(At'[Parent(i)], At'[i])
    <3>1. i \in 1 .. Top /\ i \in 0 .. Top /\ Settled(i)
      BY <1>2, <1>4, <1>5, <2>1 DEF Settled, PushStates, SiftStates
    <3> QED BY <1>0, <1>5, <1>7, <1>8, <3>1 DEF OrderInv
  <2>2. \A i \in 1 .. size : Parent(i) # size
    BY <1>4, <1>5, <1>8
  <2>3. \A i \in 1 .. size : Settled(i)' => i # size
    BY <1>2 DEF Settled, PushStates
  <2> QED BY <1>2, <1>4, <1>8, <2>1, <2>2, <2>3 DEF OrderInv, Precedes
<1>11. HoleInv' /\ OperandInv' /\ CommandInv'
  BY <1>2, <1>4, <1>5 DEF HoleInv, OperandInv, CommandInv, PushStates, SiftStates, PopStates
<1>12. SlotInv' /\ PortWrite'
  BY <1>0, <1>2, SlotsStill, PortWriteStill DEF memVars, WriteStates
<1>13. IInv'
  BY <1>0, <1>1, PushAnyInv
<1> QED BY <1>9, <1>10, <1>11, <1>12, <1>13 DEF OInv

\* The other commands, and their end, leave the nodes alone.
LEMMA CommandOrder ==
  ASSUME SizesFit, OInv,
         PopCommand \/ PeekCommand \/ Finish \/ \E n \in Node : RootUpdate(n)
  PROVE  OInv'
<1>0. IInv /\ SlotInv /\ HoleInv /\ KeysInv /\ OrderInv /\ PortWrite
  BY DEF OInv
<1>1. /\ state \in {"S_IDLE", "S_DONE"} /\ size' = size /\ memVars' = memVars
      /\ priv' = priv /\ now_ts' = now_ts
      /\ state' \in {"S_IDLE", "S_DONE", "S_POP_LAUNCH", "S_PEEK_RD", "S_UPDATE_WR"}
      /\ state' = "S_POP_LAUNCH" =>
           PopCommand /\ saved_op' = "OP_POP" /\ state = "S_IDLE"
           /\ popped_root' = IF CacheHit(0) THEN node_cache[0] ELSE popped_root
      /\ state' = "S_PEEK_RD" => saved_op' = "OP_PEEK"
      /\ state' = "S_UPDATE_WR" =>
           size > 0 /\ saved_op' = "OP_UPDATE" /\ state = "S_IDLE"
           /\ CacheHit(0) /\ UpdateKeysOk(saved_op_data')
  BY DEF PopCommand, CmdPop, PeekCommand, CmdPeek, RootUpdate, UpdateAny, CmdUpdate, Finish,
         Done, Goto, idxVars
<1>2. IInv'
  BY <1>0, PopCommandInv, PeekCommandInv, UpdateAnyInv, FinishInv DEF RootUpdate
<1>3. ~Air
  BY <1>1 DEF Air, PushStates, SiftStates
<1>4. /\ Top' = Top /\ Air' = Air /\ KeysInv' /\ OrderInv'
      /\ \A i \in 0 .. Top : At'[i] = At[i]
  BY <1>1, <1>3, MemStill, Quiet DEF PushStates, SiftStates
<1>5. HoleInv' /\ OperandInv'
  BY <1>1, <1>3, <1>4 DEF HoleInv, OperandInv
<1>6. ASSUME state = "S_IDLE", size > 0 PROVE 0 \in 0 .. Top /\ CacheHit(0) /\ node_cache[0] = At[0]
  <2>1. Top = size - 1 /\ size \in Nat /\ 0 \in 0 .. IdxSpan - 1
    BY <1>0, <1>6, TopRange, HeapAssumption DEF Top, PushStates
  <2>2. CacheHit(0) /\ node_cache[0] = priv[0]
    BY <1>0, <1>6 DEF IInv, RootInv, CacheCoherent, SiftStates, WriteStates
  <2>3. At[0] = priv[0]
    BY <1>3, <2>1, AtValue, HeapAssumption, MemoryAssumption DEF Mem, IsPrivate
  <2> QED BY <1>6, <2>1, <2>2, <2>3
<1>8. CommandInv'
  BY <1>1, <1>4, <1>6
     DEF CommandInv, PushStates, SiftStates, PopStates, UpdateKeysOk
<1>9. SlotInv' /\ PortWrite'
  BY <1>0, <1>1, SlotsStill, PortWriteStill DEF memVars, WriteStates
<1> QED BY <1>2, <1>4, <1>5, <1>8, <1>9 DEF OInv

\* What the sift-down child selector selects.
LEMMA BestFacts ==
  ASSUME SizesFit, OInv, state \in {"S_POP_SIFT_DECIDE", "S_POP_SIFT_WR_UP"}
  PROVE  /\ Best = "CUR" =>
              \A i \in 1 .. Top : Parent(i) = target_idx => Precedes(cur_node, At[i])
         /\ Best # "CUR" =>
              /\ BestIdx \in 1 .. Top /\ Parent(BestIdx) = target_idx
              /\ BestNode = At[BestIdx] /\ Precedes(BestNode, cur_node)
              /\ \A i \in 1 .. Top : Parent(i) = target_idx /\ i # BestIdx
                   => Precedes(BestNode, At[i])
<1> DEFINE t == target_idx
           l == 2 * t + 1
           r == 2 * t + 2
<1>0. IInv /\ SlotInv /\ HoleInv /\ KeysInv /\ OrderInv /\ OperandInv
  BY DEF OInv
<1>1. /\ Top = size - 1 /\ Top <= Limit /\ size \in Nat /\ t \in 0 .. Top
      /\ Limit \in Nat /\ 2 * Limit <= IdxSpan /\ size <= Limit /\ IdxSpan \in Nat
  BY <1>0, TopRange, HeapAssumption DEF Top, HoleInv, Air, PushStates, SiftStates
<1>2. /\ Left(t) = l
      /\ \A i \in Nat \ {0} : Parent(i) = t <=> i = l \/ i = r
      /\ r < IdxSpan => Right(t) = r
  BY <1>1, Children
<1>3. l < size /\ l \in 1 .. Top /\ l # t
  BY <1>0, <1>1, <1>2 DEF IInv, ReadsInRange
<1>4. r < IdxSpan /\ Right(t) = r
  BY <1>1, <1>2, <1>3
<1>5. \A i \in 1 .. Top : Parent(i) = t => i = l \/ (i = r /\ r \in 1 .. Top)
  BY <1>1, <1>2
<1>6. /\ cur_node = At[t] /\ cur_node \in Node
      /\ left_node = At[l] /\ left_node \in Node /\ left_node.ts # cur_node.ts
  <2>1. t \in 0 .. IdxSpan - 1 /\ Air
    BY <1>0, TopRange DEF Air, SiftStates
  <2>2. cur_node = At[t]
    BY <2>1, AtValue
  <2>3. left_node = At[l]
    BY <1>0, <1>2 DEF OperandInv
  <2> QED BY <1>0, <1>1, <1>3, <2>2, <2>3 DEF KeysInv
<1>7. r \in 1 .. Top <=> has_right = 1
  BY <1>0, <1>1, <1>4 DEF OperandInv
<1>8. has_right = 1 =>
        /\ right_node = At[r] /\ right_node \in Node
        /\ right_node.ts # cur_node.ts /\ right_node.ts # left_node.ts
  <2>1. has_right = 1 => right_node = At[r]
    BY <1>0, <1>4 DEF OperandInv
  <2> QED BY <1>0, <1>1, <1>3, <1>6, <1>7, <2>1 DEF KeysInv
<1>9. /\ LeftWinsCur <=> Precedes(left_node, cur_node)
      /\ ~LeftWinsCur => Precedes(cur_node, left_node)
  BY <1>6, Comparator DEF LeftWinsCur
<1>10. CASE Best = "RIGHT"
  <2>1. /\ has_right = 1
        /\ AWins(right_node, IF LeftWinsCur THEN left_node ELSE cur_node)
    BY <1>10 DEF Best
  <2>2. BestIdx = r /\ BestNode = right_node
    BY <1>4, <1>10 DEF BestIdx, BestNode
  <2>3. Precedes(right_node, cur_node) /\ Precedes(right_node, left_node)
    <3>1. CASE LeftWinsCur
      <4>1. Precedes(right_node, left_node)
        BY <1>6, <1>8, <2>1, <3>1, Comparator
      <4> QED BY <1>6, <1>8, <1>9, <2>1, <3>1, <4>1, Comparator
    <3>2. CASE ~LeftWinsCur
      <4>1. Precedes(right_node, cur_node)
        BY <1>6, <1>8, <2>1, <3>2, Comparator
      <4> QED BY <1>6, <1>8, <1>9, <2>1, <3>2, <4>1, Comparator
    <3> QED BY <3>1, <3>2
  <2> QED BY <1>2, <1>5, <1>6, <1>7, <1>8, <1>10, <2>1, <2>2, <2>3
<1>11. CASE Best = "LEFT"
  <2>1. LeftWinsCur /\ (has_right = 1 => ~AWins(right_node, left_node))
    BY <1>0, <1>4, <1>11 DEF Best, OperandInv
  <2>2. BestIdx = l /\ BestNode = left_node
    BY <1>2, <1>11 DEF BestIdx, BestNode
  <2>3. has_right = 1 => Precedes(left_node, right_node)
    BY <1>6, <1>8, <2>1, Comparator
  <2> QED BY <1>2, <1>3, <1>5, <1>6, <1>7, <1>8, <1>9, <1>11, <2>1, <2>2, <2>3
<1>12. CASE Best = "CUR"
  <2>1. ~LeftWinsCur
    BY <1>2, <1>3, <1>12 DEF Best
  <2>2. has_right = 1 => ~AWins(right_node, cur_node)
    BY <1>0, <1>4, <1>12, <2>1 DEF Best, OperandInv
  <2>3. has_right = 1 => Precedes(cur_node, right_node)
    BY <1>6, <1>8, <2>2, Comparator
  <2> QED BY <1>5, <1>6, <1>7, <1>8, <1>9, <1>12, <2>1, <2>3
<1> QED BY <1>10, <1>11, <1>12 DEF Best

\* The states that decide.
LEMMA ComputeOrder ==
  SizesFit /\ OInv /\ Compute /\ UNCHANGED <<now_ts, resets>> => OInv'
<1> SUFFICES ASSUME SizesFit, OInv, Compute, UNCHANGED <<now_ts, resets>> PROVE OInv'
  OBVIOUS
<1>0. /\ IInv /\ SlotInv /\ HoleInv /\ KeysInv /\ OrderInv /\ PortWrite
      /\ OperandInv /\ CommandInv
  BY DEF OInv
<1>1. IInv'
  BY <1>0, ComputeInv
<1>2. /\ memVars' = memVars /\ priv' = priv /\ now_ts' = now_ts /\ target_idx' = target_idx
      /\ UNCHANGED <<nodeVars, opVars>> /\ phase' = "ISSUE"
  BY DEF Compute, PushLaunch, PushDecide, PopLaunch, SiftDecide, Goto, idxVars
<1>3. SlotInv' /\ PortWrite'
  BY <1>0, <1>2, SlotsStill, PortWriteStill
     DEF memVars, Compute, PushLaunch, PushDecide, PopLaunch, SiftDecide, WriteStates
<1>4. CASE PushLaunch
  <2>1. /\ state = "S_PUSH_LAUNCH" /\ size' = size
        /\ state' = IF size = 0 THEN "S_PUSH_WR_FINAL" ELSE "S_PUSH_RD_PARENT"
    BY <1>4 DEF PushLaunch, Goto, idxVars
  <2>2. /\ Top' = Top /\ Air' = Air /\ KeysInv' /\ OrderInv'
        /\ \A i \in 0 .. Top : At'[i] = At[i]
    BY <1>2, <2>1, MemStill, Quiet DEF PushStates, SiftStates, nodeVars
  <2>3. target_idx = size /\ size \in Nat
    BY <1>0, <2>1, TopRange DEF HoleInv
  <2>4. HoleInv' /\ OperandInv' /\ CommandInv'
    BY <1>0, <1>2, <2>1, <2>2, <2>3
       DEF HoleInv, OperandInv, CommandInv, PushStates, SiftStates, PopStates, nodeVars, opVars
  <2> QED BY <1>1, <1>3, <2>2, <2>4 DEF OInv
<1>5. CASE PushDecide
  <2>1. /\ state = "S_PUSH_DECIDE" /\ size' = size
        /\ state' = IF AWins(cur_node, parent_node) THEN "S_PUSH_WR_DOWN" ELSE "S_PUSH_WR_FINAL"
    BY <1>5 DEF PushDecide, Goto, idxVars
  <2>2. /\ Top' = Top /\ Air' = Air /\ KeysInv' /\ OrderInv' /\ Air
        /\ \A i \in 0 .. Top : At'[i] = At[i]
    BY <1>2, <2>1, MemStill, Quiet DEF PushStates, SiftStates, nodeVars, Air
  <2>3. /\ target_idx \in 1 .. Top /\ parent_node = At[Parent(target_idx)]
        /\ Parent(target_idx) \in 0 .. Top /\ Parent(target_idx) # target_idx
        /\ cur_node = At[target_idx] /\ Parent(target_idx)' = Parent(target_idx)
    <3>1. target_idx \in 0 .. Top /\ target_idx > 0 /\ Top \in Int
          /\ target_idx \in 0 .. IdxSpan - 1
      BY <1>0, <2>1, <2>2, TopRange DEF HoleInv
    <3> QED BY <1>0, <1>2, <2>1, <2>2, <3>1, AtValue, ParentBelow DEF OperandInv, Parent
  <2>4. /\ AWins(cur_node, parent_node) => Precedes(cur_node, parent_node)
        /\ ~AWins(cur_node, parent_node) => Precedes(parent_node, cur_node)
    BY <1>0, <2>3, Comparator DEF KeysInv
  <2>5. HoleInv' /\ OperandInv' /\ CommandInv'
    BY <1>0, <1>2, <2>1, <2>2, <2>3, <2>4
       DEF HoleInv, OperandInv, CommandInv, PushStates, SiftStates, PopStates, nodeVars, opVars,
           Precedes
  <2> QED BY <1>1, <1>3, <2>2, <2>5 DEF OInv
<1>6. CASE SiftDecide
  <2>1. /\ state = "S_POP_SIFT_DECIDE" /\ size' = size
        /\ state' = IF Best = "CUR" THEN "S_POP_SIFT_WR_FINAL" ELSE "S_POP_SIFT_WR_UP"
    BY <1>6 DEF SiftDecide, Goto, idxVars
  <2>2. /\ Top' = Top /\ Air' = Air /\ KeysInv' /\ OrderInv' /\ Air
        /\ \A i \in 0 .. Top : At'[i] = At[i]
    BY <1>2, <2>1, MemStill, Quiet DEF PushStates, SiftStates, nodeVars, Air
  <2>3. Best = "CUR" =>
          \A i \in 1 .. Top : Parent(i) = target_idx => Precedes(cur_node, At[i])
    BY <2>1, BestFacts
  <2>4. /\ Top = size - 1 /\ size \in Nat
        /\ Left(target_idx) \in 0 .. Top /\ Left(target_idx)' = Left(target_idx)
        /\ Right(target_idx)' = Right(target_idx)
        /\ Right(target_idx) < size => Right(target_idx) \in 0 .. Top
    BY <1>0, <1>2, <2>1, TopRange, IdxRange, HeapAssumption
       DEF IInv, ReadsInRange, Top, PushStates, Left, Right
  <2>5. HoleInv' /\ CommandInv'
    BY <1>0, <1>2, <2>1, <2>2
       DEF HoleInv, CommandInv, PushStates, SiftStates, PopStates, nodeVars, opVars
  <2>6. \A i \in 1 .. Top : i \in 0 .. Top /\ Parent(i)' = Parent(i)
    BY DEF Parent
  <2>7. OperandInv'
    BY <1>0, <1>2, <2>1, <2>2, <2>3, <2>4, <2>6 DEF OperandInv, nodeVars, Precedes
  <2> QED BY <1>1, <1>3, <2>2, <2>5, <2>7 DEF OInv
<1>7. CASE PopLaunch
  <2>1. /\ state = "S_POP_LAUNCH" /\ state' \in {"S_DONE", "S_POP_RD_LAST", "S_POP_RD_ROOT"}
        /\ size' = size \/ (size' = 0 /\ state' = "S_DONE")
    BY <1>7 DEF PopLaunch, Goto
  <2>2. CASE size' = size
    <3>1. /\ Top' = Top /\ Air' = Air /\ KeysInv' /\ OrderInv' /\ ~Air
          /\ \A i \in 0 .. Top : At'[i] = At[i]
      BY <1>2, <2>1, <2>2, MemStill, Quiet DEF PushStates, SiftStates, Air
    <3>2. size > 0 => 0 \in 0 .. Top
      BY <1>0, <2>1, TopRange DEF Top, PushStates
    <3>3. HoleInv' /\ OperandInv' /\ CommandInv'
      BY <1>0, <1>2, <2>1, <2>2, <3>1, <3>2
         DEF HoleInv, OperandInv, CommandInv, PushStates, SiftStates, PopStates, nodeVars, opVars
    <3> QED BY <1>1, <1>3, <3>1, <3>3 DEF OInv
  <2>3. CASE size' = 0 /\ state' = "S_DONE"
    <3>1. Top' = -1 /\ ~Air'
      BY <2>3 DEF Top, Air, PushStates, SiftStates
    <3>2. HoleInv' /\ OperandInv' /\ CommandInv' /\ KeysInv' /\ OrderInv'
      BY <2>3, <3>1
         DEF HoleInv, OperandInv, CommandInv, KeysInv, OrderInv, PushStates, SiftStates, PopStates
    <3> QED BY <1>1, <1>3, <3>2 DEF OInv
  <2> QED BY <2>1, <2>2, <2>3
<1> QED BY <1>4, <1>5, <1>6, <1>7 DEF Compute

\* A missing child is no child: the hole stays, or only the left one counts.
LEMMA NoChildOrder ==
  SizesFit /\ OInv /\ NoChild /\ UNCHANGED <<now_ts, resets>> => OInv'
<1> SUFFICES ASSUME SizesFit, OInv, NoChild, UNCHANGED <<now_ts, resets>> PROVE OInv'
  OBVIOUS
<1>0. /\ IInv /\ SlotInv /\ HoleInv /\ KeysInv /\ OrderInv /\ PortWrite
      /\ OperandInv /\ CommandInv
  BY DEF OInv
<1>1. IInv'
  BY <1>0, NoChildInv
<1>2. /\ priv' = priv /\ now_ts' = now_ts /\ target_idx' = target_idx /\ size' = size
      /\ UNCHANGED <<cur_node, parent_node, left_node, right_node, opVars>>
      /\ phase = "ISSUE" /\ page_table' = page_table /\ bank' = bank /\ alloc_ptr' = alloc_ptr
      /\ memVars' = memVars \/ mmu_req'.op = "read"
  BY DEF NoChild, MissingChild, Goto, idxVars, memVars, VirtAccept
<1>3. \/ /\ state = "S_POP_SIFT_RD_LEFT" /\ state' = "S_POP_SIFT_WR_FINAL"
         /\ Left(target_idx) >= size
      \/ /\ state = "S_POP_SIFT_RD_RIGHT" /\ state' = "S_POP_SIFT_DECIDE"
         /\ Right(target_idx) >= size /\ has_right' = 0
  BY DEF NoChild, MissingChild, Goto
<1>4. SlotInv' /\ PortWrite'
  BY <1>0, <1>2, SlotsStill, PortWriteStill, NoPortWrite
<1>5. /\ Top' = Top /\ Air' = Air /\ KeysInv' /\ OrderInv' /\ Air
      /\ \A i \in 0 .. Top : At'[i] = At[i]
  BY <1>2, <1>3, MemKept, Quiet DEF PushStates, SiftStates, Air
<1>6. HoleInv' /\ CommandInv'
  BY <1>0, <1>2, <1>3, <1>5
     DEF HoleInv, CommandInv, PushStates, SiftStates, PopStates, opVars
<1>7. /\ Top = size - 1 /\ size \in Nat /\ target_idx \in 0 .. Limit - 1 /\ Limit \in Nat
      /\ target_idx \in 0 .. IdxSpan - 1
  BY <1>0, <1>3, <1>5, TopRange DEF Top, PushStates, HoleInv
<1>8. CASE state = "S_POP_SIFT_RD_LEFT"
  <2>1. \A i \in 1 .. Top : Parent(i) # target_idx
    BY <1>3, <1>7, <1>8, Children
  <2>2. \A i \in 1 .. Top : Parent(i)' = Parent(i)
    BY DEF Parent
  <2>3. OperandInv'
    BY <1>2, <1>3, <1>5, <1>8, <2>1, <2>2 DEF OperandInv
  <2> QED BY <1>1, <1>4, <1>5, <1>6, <2>3 DEF OInv
<1>9. CASE state = "S_POP_SIFT_RD_RIGHT"
  <2>1. Left(target_idx) \in 0 .. Top /\ left_node = At[Left(target_idx)]
    BY <1>0, <1>7, <1>9, IdxRange, HeapAssumption DEF OperandInv, IInv, ReadsInRange
  <2>2. Left(target_idx)' = Left(target_idx) /\ Right(target_idx)' = Right(target_idx)
    BY <1>2 DEF Left, Right
  <2>3. Right(target_idx) \in Nat
    BY <1>7, IdxRange, HeapAssumption
  <2>4. OperandInv'
    BY <1>2, <1>3, <1>5, <1>7, <1>9, <2>1, <2>2, <2>3 DEF OperandInv
  <2> QED BY <1>1, <1>4, <1>5, <1>6, <2>4 DEF OInv
<1> QED BY <1>3, <1>8, <1>9

\* A step that leaves the state machine's registers alone, and every stored
\* node, keeps the invariant.
LEMMA RegistersStill ==
  ASSUME SizesFit, OInv, IInv', SlotInv', PortWrite',
         state' = state, size' = size, target_idx' = target_idx, now_ts' = now_ts,
         UNCHANGED <<nodeVars, opVars>>,
         \A i \in 0 .. Limit :
           (Virtual(i) => Written1(i)) /\ ~(Air /\ i = target_idx) => Mem(i)' = Mem(i)
  PROVE  OInv' /\ Top' = Top /\ \A i \in 0 .. Top : At'[i] = At[i]
<1>0. /\ IInv /\ SlotInv /\ HoleInv /\ KeysInv /\ OrderInv /\ OperandInv /\ CommandInv
  BY DEF OInv
<1>1. /\ Top' = Top /\ Air' = Air /\ KeysInv' /\ OrderInv'
      /\ \A i \in 0 .. Top : At'[i] = At[i]
  BY Quiet DEF nodeVars
<1>2. /\ Parent(target_idx)' = Parent(target_idx)
      /\ Left(target_idx)' = Left(target_idx) /\ Right(target_idx)' = Right(target_idx)
      /\ \A i \in 1 .. Top : i \in 0 .. Top /\ Parent(i)' = Parent(i)
  BY DEF Parent, Left, Right
<1>3. Top \in Int /\ size \in Nat /\ (state \notin PushStates => Top = size - 1)
  BY <1>0, TopRange DEF Top
<1>4. HoleInv'
  BY <1>0, <1>1 DEF HoleInv
<1>5. CommandInv'
  <2>1. size > 0 /\ (state = "S_UPDATE_WR" \/ state \in PopStates) => At'[0] = At[0]
    BY <1>1, <1>3 DEF PopStates, PushStates
  <2> QED BY <1>0, <2>1 DEF CommandInv, nodeVars, opVars
<1>6. OperandInv'
  <2>1. CASE state \in PushStates
    <3>1. target_idx > 0 => Parent(target_idx) \in 0 .. Top
      BY <1>0, <1>3, <2>1, ParentBelow DEF HoleInv, Air
    <3>2. target_idx \in 0 .. Top
      BY <1>0, <2>1 DEF HoleInv, Air
    <3> QED BY <1>0, <1>1, <1>2, <1>3, <2>1, <3>1, <3>2
            DEF OperandInv, HoleInv, PushStates, nodeVars, Precedes
  <2>2. CASE state \in SiftStates
    <3>1. /\ target_idx \in 0 .. IdxSpan - 1 /\ Top = size - 1
          /\ Left(target_idx) \in Nat /\ Right(target_idx) \in Nat
      BY <1>0, <1>3, <2>2, TopRange, IdxRange, HeapAssumption DEF PushStates, SiftStates
    <3>2. state \in {"S_POP_SIFT_RD_RIGHT", "S_POP_SIFT_DECIDE", "S_POP_SIFT_WR_UP"}
            => Left(target_idx) \in 0 .. Top
      BY <1>0, <1>3, <3>1 DEF IInv, ReadsInRange
    <3> QED BY <1>0, <1>1, <1>2, <1>3, <2>2, <3>1, <3>2
            DEF OperandInv, SiftStates, nodeVars, Precedes
  <2>3. CASE state \notin PushStates \cup SiftStates
    BY <2>3 DEF OperandInv, PushStates, SiftStates
  <2> QED BY <2>1, <2>2, <2>3
<1> QED BY <1>0, <1>1, <1>4, <1>5, <1>6 DEF OInv

\* Handing an access to the MMU, being rejected, and an answer nobody waits
\* for: no stored node changes.
LEMMA PortOrder ==
  /\ SizesFit /\ OInv
  /\ IssueVirt \/ VirtRetry \/ LateAnswer
  /\ UNCHANGED <<now_ts, resets>>
  => OInv' /\ Top' = Top /\ \A i \in 0 .. Top : At'[i] = At[i]
<1> SUFFICES ASSUME SizesFit, OInv, IssueVirt \/ VirtRetry \/ LateAnswer,
                    UNCHANGED <<now_ts, resets>>
             PROVE  OInv' /\ Top' = Top /\ \A i \in 0 .. Top : At'[i] = At[i]
  OBVIOUS
<1>0. IInv /\ SlotInv /\ PortWrite
  BY DEF OInv
<1>1. IInv'
  BY <1>0, IssueVirtInv, VirtRetryInv, AnswerInv DEF Answer
<1>2. /\ state' = state /\ size' = size /\ target_idx' = target_idx /\ priv' = priv
      /\ UNCHANGED <<nodeVars, opVars>> /\ now_ts' = now_ts
  BY DEF IssueVirt, Waits, VirtRetry, Goto, LateAnswer, heapVars, idxVars
<1>3. CASE IssueVirt
  <2>1. /\ page_table' = page_table /\ bank' = bank /\ alloc_ptr' = alloc_ptr
        /\ phase' = "WAIT" /\ ~IsPrivate(MemIdx)
        /\ mmu_req'.op = "write" => state \in WriteStates /\ mmu_req'.wdata = MemWdata
    BY <1>3 DEF IssueVirt, Waits, VirtAccept
  <2>2. MemIdx' = MemIdx /\ MemWdata' = MemWdata
    BY <1>2 DEF MemIdx, MemWdata, Parent, Left, Right, BestNode, Best, LeftWinsCur, AWins,
                nodeVars, opVars
  <2>3. PortWrite'
    BY <1>2, <2>1, <2>2 DEF PortWrite, Virtual, IsPrivate
  <2>4. SlotInv' /\ \A i \in 0 .. Limit : Mem(i)' = Mem(i)
    BY <1>0, <1>2, <2>1, SlotsStill, MemKept
  <2> QED BY <1>1, <1>2, <2>3, <2>4, RegistersStill
<1>4. CASE VirtRetry \/ (LateAnswer /\ VirtReject)
  <2>1. /\ page_table' = page_table /\ bank' = bank /\ alloc_ptr' = alloc_ptr
        /\ mmu_req' = NoReq
    BY <1>4 DEF VirtRetry, VirtReject
  <2>2. PortWrite' /\ SlotInv' /\ \A i \in 0 .. Limit : Mem(i)' = Mem(i)
    BY <1>0, <1>2, <2>1, SlotsStill, MemKept, NoPortWrite DEF NoReq
  <2> QED BY <1>1, <1>2, <2>2, RegistersStill
<1>5. CASE LateAnswer /\ VirtServe
  <2>1. mmu_req.op # "write" /\ mmu_req' = NoReq /\ mmu_owner = Kind
    BY <1>0, <1>5 DEF LateAnswer, PortWrite, Virtual, VirtServe
  <2>2. /\ SlotInv' /\ PortWrite'
        /\ \A i \in 0 .. Limit : (Virtual(i) => Written1(i)) => Mem(i)' = Mem(i)
    BY <1>2, <1>5, <2>1, Served, NoPortWrite DEF NoReq
  <2> QED BY <1>1, <1>2, <2>2, RegistersStill
<1> QED BY <1>3, <1>4, <1>5 DEF LateAnswer

\* A write of the BRAM that fills the hole, or a read of it.
LEMMA IssuePrivOrder ==
  /\ SizesFit /\ OInv /\ IssuePriv /\ UNCHANGED <<now_ts, resets>> /\ state # "S_UPDATE_WR"
  => OInv' /\ Top' = Top /\ \A i \in 0 .. Top : At'[i] = At[i]
<1> SUFFICES ASSUME SizesFit, OInv, IssuePriv, UNCHANGED <<now_ts, resets>>,
                    state # "S_UPDATE_WR"
             PROVE  OInv' /\ Top' = Top /\ \A i \in 0 .. Top : At'[i] = At[i]
  OBVIOUS
<1>0. IInv /\ SlotInv /\ PortWrite
  BY DEF OInv
<1>1. IInv'
  BY <1>0, IssuePrivInv
<1>2. /\ state' = state /\ size' = size /\ target_idx' = target_idx /\ phase = "ISSUE"
      /\ UNCHANGED <<nodeVars, opVars>> /\ now_ts' = now_ts /\ memVars' = memVars
      /\ priv' = IF state \in WriteStates THEN [priv EXCEPT ![MemIdx] = MemWdata] ELSE priv
  BY DEF IssuePriv, Waits, idxVars
<1>3. SlotInv' /\ PortWrite'
  BY <1>0, <1>2, SlotsStill, PortWriteStill DEF memVars
<1>4. state \in WriteStates => Air /\ MemIdx = target_idx
  BY DEF WriteStates, Air, PushStates, SiftStates, MemIdx
<1>5. \A i \in 0 .. Limit : ~(Air /\ i = target_idx) => Mem(i)' = Mem(i)
  <2>1. \A i : ~(Air /\ i = target_idx) => priv'[i] = priv[i]
    BY <1>0, <1>2, <1>4 DEF IInv, TypeOK, HeapTypeOK
  <2> QED BY <1>2, <2>1, MemStill
<1> QED BY <1>1, <1>2, <1>3, <1>5, RegistersStill

\* An UPDATE writes the root, and keeps its keys.
LEMMA UpdateOrder ==
  /\ SizesFit /\ OInv /\ IssuePriv /\ UNCHANGED <<now_ts, resets>> /\ state = "S_UPDATE_WR"
  => /\ OInv' /\ Top' = Top /\ At'[0] = saved_op_data
     /\ \A i \in 1 .. Top : At'[i] = At[i]
<1> SUFFICES ASSUME SizesFit, OInv, IssuePriv, UNCHANGED <<now_ts, resets>>,
                    state = "S_UPDATE_WR"
             PROVE  /\ OInv' /\ Top' = Top /\ At'[0] = saved_op_data
                    /\ \A i \in 1 .. Top : At'[i] = At[i]
  OBVIOUS
<1>0. IInv /\ SlotInv /\ PortWrite /\ HoleInv /\ KeysInv /\ OrderInv /\ CommandInv
  BY DEF OInv
<1>1. IInv'
  BY <1>0, IssuePrivInv
<1>2. /\ state' = state /\ size' = size /\ target_idx' = target_idx /\ phase = "ISSUE"
      /\ UNCHANGED <<nodeVars, opVars>> /\ now_ts' = now_ts /\ memVars' = memVars
      /\ priv' = [priv EXCEPT ![0] = saved_op_data]
  BY DEF IssuePriv, Waits, idxVars, WriteStates, MemIdx, MemWdata
<1>3. SlotInv' /\ PortWrite'
  BY <1>0, <1>2, SlotsStill, PortWriteStill DEF memVars
<1>4. Top' = Top /\ Top = size - 1 /\ ~Air /\ ~Air' /\ size > 0 /\ size \in Nat
  BY <1>0, <1>2, TopRange DEF Top, Air, PushStates, SiftStates, CommandInv
<1>5. At'[0] = saved_op_data
  <2>1. 0 \in 0 .. IdxSpan - 1 /\ IsPrivate(0) /\ priv'[0] = saved_op_data /\ IsPrivate(0)'
    BY <1>0, <1>2, HeapAssumption, MemoryAssumption DEF IsPrivate, IInv, TypeOK, HeapTypeOK
  <2> QED BY <1>4, <2>1, AtValue DEF Mem
<1>6. \A i \in 1 .. Top : At'[i] = At[i]
  <2>1. \A i \in 1 .. Top : i \in 0 .. IdxSpan - 1 /\ priv'[i] = priv[i]
    BY <1>0, <1>2, TopRange DEF IInv, TypeOK, HeapTypeOK
  <2> QED BY <1>2, <1>4, <2>1, AtValue, MemStill
<1>7. /\ At'[0].price = At[0].price /\ At'[0].ts = At[0].ts /\ At'[0] \in Node
      /\ saved_op_data \in Node
  BY <1>0, <1>5 DEF CommandInv, IInv, TypeOK, HeapTypeOK
<1>8. \A i \in 0 .. Top : At'[i].price = At[i].price /\ At'[i].ts = At[i].ts /\ At'[i] \in Node
  <2>1. \A i \in 1 .. Top : At[i] \in Node
    BY <1>0, <1>4 DEF KeysInv
  <2>2. \A i \in 0 .. Top : i = 0 \/ i \in 1 .. Top
    BY <1>4
  <2> QED BY <1>6, <1>7, <2>1, <2>2
<1>9. KeysInv'
  BY <1>0, <1>2, <1>4, <1>8 DEF KeysInv
<1>10. OrderInv'
  <2>1. \A i \in 1 .. Top : Settled(i) /\ Parent(i)' = Parent(i) /\ Parent(i) \in 0 .. Top
                            /\ i \in 0 .. Top
    BY <1>4, ParentBelow DEF Settled, Parent, PushStates, SiftStates
  <2>2. \A i \in 1 .. Top : Precedes(At'[Parent(i)], At'[i])
    BY <1>0, <1>8, <2>1 DEF OrderInv, Precedes
  <2> QED BY <1>4, <2>1, <2>2 DEF OrderInv, Precedes
<1>11. HoleInv' /\ OperandInv' /\ CommandInv'
  BY <1>0, <1>2, <1>4, <1>5, <1>7
     DEF HoleInv, OperandInv, CommandInv, PushStates, SiftStates, PopStates, opVars
<1> QED BY <1>1, <1>3, <1>4, <1>5, <1>6, <1>9, <1>10, <1>11 DEF OInv

-----------------------------------------------------------------------------
(* Completed accesses.                                                      *)

\* No node changes its place.
Same == Top' = Top /\ \A i \in 0 .. Top : At'[i] = At[i]

\* Two nodes change places.
Swapped(t, b) ==
  /\ Top' = Top /\ At'[t] = At[b] /\ At'[b] = At[t]
  /\ \A i \in 0 .. Top : i # t /\ i # b => At'[i] = At[i]

\* The access the heap waits for completes: a read delivers what is stored,
\* a write stores its node, and nothing else changes.
Delivered(n) ==
  /\ Wanted /\ Complete(n) /\ now_ts' = now_ts
  /\ state \in ReadStates => n = Mem(MemIdx)
  /\ state \in WriteStates => phase = "WAIT"
  /\ \A i \in 0 .. Limit :
       /\ (Virtual(i) => Written1(i)) /\ (state \in WriteStates => i # MemIdx)
            => Mem(i)' = Mem(i)
       /\ state \in WriteStates /\ i = MemIdx => Mem(i)' = MemWdata
  /\ IInv' /\ SlotInv' /\ PortWrite'

\* Whichever tier an access goes to, the cache, the BRAM and the MMU deliver.
LEMMA Delivers ==
  /\ SizesFit /\ OInv
  /\ ReadCached \/ PrivDone \/ VirtDone
  /\ UNCHANGED <<now_ts, resets>>
  => \E n : Delivered(n)
<1> SUFFICES ASSUME SizesFit, OInv, ReadCached \/ PrivDone \/ VirtDone,
                    UNCHANGED <<now_ts, resets>>
             PROVE  \E n : Delivered(n)
  OBVIOUS
<1> USE HeapAssumption, MemoryAssumption
<1>0. IInv /\ SlotInv /\ PortWrite /\ HoleInv
  BY DEF OInv
<1>1. IInv'
  BY <1>0, ReadCachedInv, PrivDoneInv, VirtDoneInv
<1>2. Wanted /\ MemIdx \in 0 .. Limit /\ Limit \in Nat
  BY <1>0, AccessFits DEF ReadCached, PrivDone, VirtDone, IInv, ReadsInRange, Limit
<1>3. CASE ReadCached
  <2>1. /\ state \notin WriteStates /\ memVars' = memVars /\ priv' = priv
        /\ Complete(node_cache[MemIdx]) /\ CacheHit(MemIdx) /\ phase = "ISSUE"
    BY <1>3 DEF ReadCached, ReadStates, WriteStates
  <2>2. node_cache[MemIdx] = Mem(MemIdx)
    BY <1>0, <2>1 DEF IInv, CacheCoherent, CacheHit, Mem, IsPrivate
  <2>3. SlotInv' /\ PortWrite' /\ \A i \in 0 .. Limit : Mem(i)' = Mem(i)
    BY <1>0, <2>1, SlotsStill, PortWriteStill, MemStill DEF memVars
  <2>4. Delivered(node_cache[MemIdx])
    BY <1>1, <1>2, <2>1, <2>2, <2>3 DEF Delivered
  <2> QED BY <2>4
<1>4. CASE PrivDone
  <2>1. /\ memVars' = memVars /\ priv' = priv /\ Complete(priv[MemIdx])
        /\ phase = "WAIT" /\ IsPrivate(MemIdx)
    BY <1>4 DEF PrivDone
  <2>2. Mem(MemIdx) = priv[MemIdx]
    BY <2>1 DEF Mem
  <2>3. SlotInv' /\ PortWrite' /\ \A i \in 0 .. Limit : Mem(i)' = Mem(i)
    BY <1>0, <2>1, SlotsStill, PortWriteStill, MemStill DEF memVars, Virtual
  <2>4. state \in WriteStates => Mem(MemIdx) = MemWdata
    BY <1>0, <2>1, <2>2 DEF IInv, WritePending
  <2>5. Delivered(priv[MemIdx])
    BY <1>1, <1>2, <2>1, <2>2, <2>3, <2>4 DEF Delivered
  <2> QED BY <2>5
<1>5. CASE VirtDone
  <2>1. /\ priv' = priv /\ Complete(ServedData) /\ VirtServe /\ mmu_owner = Kind
        /\ phase = "WAIT" /\ Virtual(MemIdx) /\ mmu_req' = NoReq
    BY <1>5 DEF VirtDone, Virtual, VirtServe
  <2>2. /\ mmu_req.va = MakeVa(MemIdx)
        /\ mmu_req.op = "write" <=> state \in WriteStates
    BY <1>0, <2>1 DEF IInv, PortInv, AnswerMatches, Virtual
  <2>3. ASSUME state \in ReadStates PROVE ServedData = Mem(MemIdx)
    <3>1. MemIdx \in 0 .. size - 1
      BY <1>0, <1>2, <2>1, <2>3, ReadsNodes
    <3>2. Written1(MemIdx)
      BY <1>0, <2>1, <3>1 DEF IInv, NodesWritten
    <3> QED BY <1>2, <2>1, <2>2, <3>2, Served
  <2>4. SlotInv' /\ PortWrite'
    BY <2>1, Served, NoPortWrite DEF NoReq
  <2>5. \A i \in 0 .. Limit :
          /\ (Virtual(i) => Written1(i)) /\ (state \in WriteStates => i # MemIdx)
               => Mem(i)' = Mem(i)
          /\ state \in WriteStates /\ i = MemIdx => Mem(i)' = MemWdata
    BY <2>1, <2>2, Served
  <2>6. Delivered(ServedData)
    BY <1>1, <1>2, <2>1, <2>3, <2>4, <2>5 DEF Delivered
  <2> QED BY <2>6
<1> QED BY <1>3, <1>4, <1>5

\* A read of a node delivers it to the comparator; the leaf that is read last
\* takes the place of the root.
LEMMA ReadEffect ==
  ASSUME SizesFit, OInv, NEW n, Delivered(n), state \in ReadStates
  PROVE  /\ state # "S_POP_RD_LAST" => Same /\ KeysInv' /\ OrderInv'
         /\ state = "S_POP_RD_LAST" =>
              /\ Top = size - 1 /\ Top' = size - 2 /\ size > 1
              /\ At'[0] = At[size - 1]
              /\ \A i \in 1 .. Top' : At'[i] = At[i]
         /\ state # "S_PEEK_RD" => MemIdx \in 0 .. Top /\ n = At[MemIdx]
<1> USE HeapAssumption, MemoryAssumption
<1>0. IInv /\ SlotInv /\ HoleInv /\ KeysInv /\ Wanted /\ Complete(n) /\ n = Mem(MemIdx)
  BY DEF OInv, Delivered
<1>1. state \notin WriteStates /\ state # "S_POP_RD_ROOT"
  BY <1>0 DEF ReadStates, WriteStates, IInv, RootInv
<1>2. \A i \in 0 .. Limit : (Virtual(i) => Written1(i)) => Mem(i)' = Mem(i)
  BY <1>1 DEF Delivered
<1>3. /\ size \in 0 .. IdxSpan - 1 /\ target_idx \in 0 .. IdxSpan - 1 /\ Top \in Int
      /\ size <= Limit /\ Limit \in Nat /\ 2 * Limit <= IdxSpan
      /\ \A i \in 0 .. Top : i \in 0 .. Limit /\ i \in 0 .. IdxSpan - 1
  BY <1>0, TopRange
<1>4. ASSUME state # "S_PEEK_RD"
      PROVE  MemIdx \in 0 .. Top /\ ~(Air /\ MemIdx = target_idx) /\ n = At[MemIdx]
  <2>1. CASE state = "S_PUSH_RD_PARENT"
    <3>1. target_idx > 0 /\ target_idx \in 0 .. Top /\ MemIdx = Parent(target_idx)
      BY <1>0, <2>1 DEF HoleInv, Air, PushStates, MemIdx
    <3>2. MemIdx \in 0 .. Top /\ MemIdx # target_idx
      BY <1>3, <3>1, ParentBelow
    <3> QED BY <1>0, <1>3, <3>2, AtValue
  <2>2. CASE state \in {"S_POP_SIFT_RD_LEFT", "S_POP_SIFT_RD_RIGHT"}
    <3>1. /\ target_idx \in 0 .. Top /\ Top = size - 1 /\ MemIdx < size
          /\ state = "S_POP_SIFT_RD_LEFT" => MemIdx = Left(target_idx)
          /\ state = "S_POP_SIFT_RD_RIGHT" => MemIdx = Right(target_idx)
      BY <1>0, <2>2 DEF HoleInv, Air, PushStates, SiftStates, MemIdx, Wanted, Top
    <3>2. /\ Left(target_idx) = 2 * target_idx + 1
          /\ 2 * target_idx + 2 < IdxSpan => Right(target_idx) = 2 * target_idx + 2
      BY <1>3, <3>1, Children
    <3>3. state = "S_POP_SIFT_RD_RIGHT" => Left(target_idx) < size
      BY <1>0 DEF IInv, ReadsInRange
    <3>4. MemIdx \in 0 .. Top /\ MemIdx # target_idx
      BY <1>3, <2>2, <3>1, <3>2, <3>3
    <3> QED BY <1>0, <1>3, <3>4, AtValue
  <2>3. CASE state = "S_POP_RD_LAST"
    <3>1. MemIdx = size - 1 /\ Top = size - 1 /\ size > 1 /\ ~Air
      BY <1>0, <2>3 DEF MemIdx, Top, Air, PushStates, SiftStates, IInv, ReadsInRange
    <3>2. MemIdx \in 0 .. Top
      BY <1>3, <3>1
    <3> QED BY <1>0, <1>3, <3>1, <3>2, AtValue
  <2> QED BY <1>1, <1>4, <2>1, <2>2, <2>3 DEF ReadStates
<1>5. ASSUME state # "S_POP_RD_LAST" PROVE Same /\ KeysInv' /\ OrderInv'
  <2>1. /\ size' = size /\ target_idx' = target_idx /\ cur_node' = cur_node
        /\ state' \in PushStates <=> state \in PushStates
        /\ state' \in SiftStates <=> state \in SiftStates
    BY <1>0, <1>1, <1>5
       DEF Complete, ReadParent, ReadRoot, ReadLast, ReadLeft, ReadRight, ReadPeek, Written,
           WriteStates, Goto, idxVars, nodeVars, PushStates, SiftStates
  <2>2. now_ts' = now_ts
    BY DEF Delivered
  <2> QED BY <1>2, <2>1, <2>2, Quiet DEF Same
<1>6. ASSUME state = "S_POP_RD_LAST"
      PROVE  /\ Top = size - 1 /\ Top' = size - 2 /\ size > 1
             /\ At'[0] = At[size - 1]
             /\ \A i \in 1 .. Top' : At'[i] = At[i]
  <2>1. /\ state' = "S_POP_SIFT_RD_LEFT" /\ size' = size - 1 /\ target_idx' = 0 /\ cur_node' = n
    BY <1>0, <1>6
       DEF Complete, ReadParent, ReadRoot, ReadLast, ReadLeft, ReadRight, ReadPeek, Written, Goto
  <2>2. /\ Top = size - 1 /\ Top' = size - 2 /\ size > 1 /\ ~Air /\ Air' /\ MemIdx = size - 1
    BY <1>0, <1>3, <1>6, <2>1
       DEF Top, Air, PushStates, SiftStates, IInv, ReadsInRange, MemIdx
  <2>3. At'[0] = At[size - 1]
    BY <1>3, <1>4, <1>6, <2>1, <2>2, AtValue
  <2>4. ASSUME NEW i \in 1 .. Top' PROVE At'[i] = At[i]
    <3>1. i \in 0 .. Top /\ i \in 0 .. Limit /\ i \in 0 .. IdxSpan - 1 /\ i # target_idx'
      BY <1>3, <2>1, <2>2, <2>4
    <3>2. Mem(i)' = Mem(i)
      BY <1>0, <1>2, <2>2, <3>1, LiveWritten
    <3> QED BY <2>2, <3>1, <3>2, AtValue
  <2> QED BY <2>2, <2>3, <2>4
<1> QED BY <1>4, <1>5, <1>6

\* A write that goes on sifting swaps the hole with its parent or its better
\* child; any other one leaves the heap with its hole filled.
LEMMA WriteEffect ==
  ASSUME SizesFit, OInv, NEW n, Delivered(n), state \in WriteStates
  PROVE  /\ state = "S_PUSH_WR_DOWN" =>
              /\ Swapped(target_idx, Parent(target_idx))
              /\ target_idx \in 1 .. Top /\ Parent(target_idx) \in 0 .. Top
              /\ target_idx' = Parent(target_idx) /\ state' = AfterWrDown
         /\ state = "S_POP_SIFT_WR_UP" =>
              /\ Swapped(target_idx, BestIdx)
              /\ target_idx \in 0 .. Top /\ BestIdx \in 1 .. Top
              /\ target_idx' = BestIdx /\ state' = "S_POP_SIFT_RD_LEFT"
         /\ state \in {"S_PUSH_WR_FINAL", "S_POP_SIFT_WR_FINAL", "S_UPDATE_WR"} =>
              Same /\ state' = "S_DONE"
         /\ state = "S_UPDATE_WR" => Top = size - 1 /\ At[0] = saved_op_data
         /\ size' = IF state = "S_PUSH_WR_FINAL" THEN size + 1 ELSE size
         /\ UNCHANGED <<nodeVars, opVars>>
<1> USE HeapAssumption, MemoryAssumption
<1>0. /\ IInv /\ SlotInv /\ HoleInv /\ KeysInv /\ OperandInv /\ CommandInv
      /\ Wanted /\ Complete(n) /\ phase = "WAIT"
  BY DEF OInv, Delivered
<1>1. Written /\ UNCHANGED <<nodeVars, opVars>>
  BY <1>0 DEF Complete, ReadParent, ReadRoot, ReadLast, ReadLeft, ReadRight, ReadPeek,
              WriteStates, Written
<1>2. \A i \in 0 .. Limit :
        /\ (Virtual(i) => Written1(i)) /\ i # MemIdx => Mem(i)' = Mem(i)
        /\ i = MemIdx => Mem(i)' = MemWdata
  BY DEF Delivered
<1>3. /\ size \in 0 .. IdxSpan - 1 /\ target_idx \in 0 .. IdxSpan - 1 /\ Top \in Int
      /\ size <= Limit /\ Limit \in Nat /\ 2 * Limit <= IdxSpan
      /\ \A i \in 0 .. Top : i \in 0 .. Limit /\ i \in 0 .. IdxSpan - 1
      /\ Limit >= 3
  BY <1>0, TopRange DEF Limit
<1>4. size' = IF state = "S_PUSH_WR_FINAL" THEN size + 1 ELSE size
  <2>1. (size + 1) % IdxSpan = size + 1
    BY <1>3, ModSmall
  <2> QED BY <1>1, <2>1 DEF Written, WriteStates, idxVars
<1>5. ASSUME Air
      PROVE  /\ MemIdx = target_idx /\ target_idx \in 0 .. Top /\ At[target_idx] = cur_node
             /\ \A i \in 0 .. Top : i # target_idx => At[i] = Mem(i) /\ Mem(i)' = Mem(i)
  <2>1. MemIdx = target_idx
    BY <1>5 DEF Air, WriteStates, MemIdx, PushStates, SiftStates
  <2>2. target_idx \in 0 .. Top
    BY <1>0, <1>5 DEF HoleInv
  <2>3. At[target_idx] = cur_node
    BY <1>3, <1>5, AtValue
  <2>4. ASSUME NEW i \in 0 .. Top, i # target_idx PROVE At[i] = Mem(i) /\ Mem(i)' = Mem(i)
    <3>1. Virtual(i) => Written1(i)
      BY <1>0, <2>4, LiveWritten
    <3> QED BY <1>2, <1>3, <2>1, <2>4, <3>1, AtValue
  <2> QED BY <2>1, <2>2, <2>3, <2>4
<1>6. CASE state = "S_PUSH_WR_DOWN"
  <2>1. /\ Air /\ MemWdata = parent_node /\ target_idx > 0
        /\ parent_node = At[Parent(target_idx)]
    BY <1>0, <1>6 DEF Air, PushStates, MemWdata, HoleInv, OperandInv
  <2>2. target_idx' = Parent(target_idx) /\ state' = AfterWrDown /\ size' = size
    BY <1>1, <1>6 DEF Written, Goto
  <2>3. Top' = Top /\ Air' /\ cur_node' = cur_node
    BY <1>1, <1>6, <2>2 DEF AfterWrDown, Top, Air, PushStates, nodeVars
  <2>4. target_idx \in 1 .. Top /\ Parent(target_idx) \in 0 .. Top /\ Parent(target_idx) # target_idx
    BY <1>3, <1>5, <2>1, ParentBelow
  <2>5. \A i \in 0 .. Top : i = target_idx => At'[i] = MemWdata
    BY <1>2, <1>3, <1>5, <2>1, <2>2, <2>3, <2>4, AtValue
  <2>6. \A i \in 0 .. Top : i = Parent(target_idx) => At'[i] = cur_node
    BY <1>3, <2>2, <2>3, <2>4, AtValue
  <2>7. \A i \in 0 .. Top : i # target_idx /\ i # Parent(target_idx) => At'[i] = At[i]
    BY <1>3, <1>5, <2>1, <2>2, <2>3, AtValue
  <2>8. Swapped(target_idx, Parent(target_idx))
    BY <1>5, <2>1, <2>3, <2>4, <2>5, <2>6, <2>7 DEF Swapped
  <2> QED BY <1>1, <1>4, <1>6, <2>2, <2>4, <2>8
<1>7. CASE state = "S_POP_SIFT_WR_UP"
  <2>1. /\ Air /\ MemWdata = BestNode /\ Best # "CUR"
    BY <1>0, <1>7 DEF Air, SiftStates, MemWdata, IInv, ReadsInRange
  <2>2. BestIdx \in 1 .. Top /\ Parent(BestIdx) = target_idx /\ BestNode = At[BestIdx]
    BY <1>7, <2>1, BestFacts
  <2>3. target_idx' = BestIdx /\ state' = "S_POP_SIFT_RD_LEFT" /\ size' = size
    BY <1>1, <1>7 DEF Written, Goto
  <2>4. Top' = Top /\ Air' /\ cur_node' = cur_node
    BY <1>1, <1>7, <2>3 DEF Top, Air, PushStates, SiftStates, nodeVars
  <2>5. target_idx \in 0 .. Top /\ BestIdx # target_idx /\ BestIdx \in 0 .. Top
    BY <1>3, <1>5, <2>1, <2>2, ParentBelow
  <2>6. \A i \in 0 .. Top : i = target_idx => At'[i] = MemWdata
    BY <1>2, <1>3, <1>5, <2>1, <2>3, <2>4, <2>5, AtValue
  <2>7. \A i \in 0 .. Top : i = BestIdx => At'[i] = cur_node
    BY <1>3, <2>3, <2>4, <2>5, AtValue
  <2>8. \A i \in 0 .. Top : i # target_idx /\ i # BestIdx => At'[i] = At[i]
    BY <1>3, <1>5, <2>1, <2>3, <2>4, AtValue
  <2>9. Swapped(target_idx, BestIdx)
    BY <1>5, <2>1, <2>2, <2>4, <2>5, <2>6, <2>7, <2>8 DEF Swapped
  <2> QED BY <1>1, <1>4, <1>7, <2>2, <2>3, <2>5, <2>9
<1>8. CASE state \in {"S_PUSH_WR_FINAL", "S_POP_SIFT_WR_FINAL"}
  <2>1. Air /\ MemWdata = cur_node
    BY <1>8 DEF Air, PushStates, SiftStates, MemWdata
  <2>2. state' = "S_DONE"
    BY <1>1, <1>8 DEF Written, Goto
  <2>3. Top' = Top /\ ~Air'
    BY <1>3, <1>4, <1>8, <2>2 DEF Top, Air, PushStates, SiftStates
  <2>4. \A i \in 0 .. Top : Mem(i)' = At[i]
    BY <1>2, <1>3, <1>5, <2>1
  <2>5. Same
    BY <1>3, <2>3, <2>4, AtValue DEF Same
  <2> QED BY <1>1, <1>4, <1>8, <2>2, <2>5
<1>9. CASE state = "S_UPDATE_WR"
  <2>1. MemIdx = 0 /\ MemWdata = saved_op_data /\ ~Air /\ size > 0
    BY <1>0, <1>9 DEF MemIdx, MemWdata, Air, PushStates, SiftStates, CommandInv
  <2>2. state' = "S_DONE"
    BY <1>1, <1>9 DEF Written, Goto
  <2>3. Top' = Top /\ ~Air' /\ Top = size - 1
    BY <1>4, <1>9, <2>2 DEF Top, Air, PushStates, SiftStates
  <2>4. 0 \in 0 .. Top /\ Mem(0) = saved_op_data
    BY <1>0, <1>3, <1>9, <2>1, <2>3 DEF IInv, WritePending, Mem, IsPrivate
  <2>5. \A i \in 0 .. Top : Mem(i)' = Mem(i)
    BY <1>0, <1>2, <1>3, <2>1, <2>4, LiveWritten
  <2>6. Same
    BY <1>3, <2>1, <2>3, <2>5, AtValue DEF Same
  <2>7. At[0] = saved_op_data
    BY <1>3, <2>1, <2>4, AtValue
  <2> QED BY <1>1, <1>4, <1>9, <2>2, <2>3, <2>6, <2>7
<1> QED BY <1>6, <1>7, <1>8, <1>9 DEF WriteStates

\* A completed read keeps the invariant.
LEMMA ReadOrder ==
  ASSUME SizesFit, OInv, NEW n, Delivered(n), state \in ReadStates
  PROVE  OInv'
<1> USE HeapAssumption
<1>0. /\ IInv /\ SlotInv /\ HoleInv /\ KeysInv /\ OrderInv /\ OperandInv /\ CommandInv
      /\ IInv' /\ SlotInv' /\ PortWrite' /\ Complete(n) /\ now_ts' = now_ts
  BY DEF OInv, Delivered
<1>1. state \notin WriteStates /\ state # "S_POP_RD_ROOT"
  BY <1>0 DEF ReadStates, WriteStates, IInv, RootInv
<1>2. /\ size \in 0 .. IdxSpan - 1 /\ target_idx \in 0 .. IdxSpan - 1 /\ Top \in Int
  BY <1>0, TopRange
<1>3. CASE state = "S_PUSH_RD_PARENT"
  <2>1. /\ state' = "S_PUSH_DECIDE" /\ target_idx' = target_idx /\ parent_node' = n
        /\ size' = size /\ UNCHANGED <<cur_node, opVars>>
    BY <1>0, <1>3 DEF Complete, ReadParent, ReadRoot, ReadLast, ReadLeft, ReadRight, ReadPeek,
                      Written, Goto, idxVars
  <2>2. /\ Same /\ KeysInv' /\ OrderInv' /\ n = At[Parent(target_idx)]
        /\ Parent(target_idx) \in 0 .. Top
    BY <1>3, ReadEffect DEF MemIdx
  <2>3. Parent(target_idx)' = Parent(target_idx)
    BY <2>1 DEF Parent
  <2>4. HoleInv' /\ OperandInv' /\ CommandInv'
    BY <1>0, <1>3, <2>1, <2>2, <2>3
       DEF HoleInv, OperandInv, CommandInv, Same, Air, PushStates, SiftStates, PopStates, opVars
  <2> QED BY <1>0, <2>2, <2>4 DEF OInv
<1>4. CASE state = "S_POP_RD_LAST"
  <2>1. /\ state' = "S_POP_SIFT_RD_LEFT" /\ target_idx' = 0 /\ size' = size - 1
        /\ UNCHANGED opVars
    BY <1>0, <1>4 DEF Complete, ReadParent, ReadRoot, ReadLast, ReadLeft, ReadRight, ReadPeek,
                      Written, Goto
  <2>2. /\ Top = size - 1 /\ Top' = size - 2 /\ size > 1 /\ At'[0] = At[size - 1]
        /\ \A i \in 1 .. Top' : At'[i] = At[i]
    BY <1>4, ReadEffect
  <2>3. \A i \in 0 .. Top' : (i = 0 \/ i \in 1 .. Top') /\ i \in 0 .. Top /\ i # size - 1
    BY <1>2, <2>2
  <2>4. KeysInv'
    <3>1. size - 1 \in 0 .. Top
      BY <1>2, <2>2
    <3>2. \A i \in 0 .. Top' : At'[i] \in Node /\ At'[i].ts < now_ts
      BY <1>0, <2>2, <2>3, <3>1 DEF KeysInv
    <3>3. \A i, j \in 0 .. Top' : At'[i].ts = At'[j].ts => i = j
      BY <1>0, <2>2, <2>3, <3>1 DEF KeysInv
    <3> QED BY <1>0, <3>2, <3>3 DEF KeysInv
  <2>5. OrderInv'
    <3>1. ASSUME NEW i \in 1 .. Top', Settled(i)' PROVE Precedes(At'[Parent(i)], At'[i])
      <4>1. Parent(i) # 0 /\ Settled(i)
        BY <1>4, <2>1, <3>1 DEF Settled, Parent, PushStates, SiftStates
      <4>2. Parent(i) \in 1 .. Top' /\ i \in 1 .. Top
        BY <1>2, <2>2, <4>1, ParentBelow
      <4> QED BY <1>0, <2>2, <4>1, <4>2 DEF OrderInv
    <3>2. \A i \in 1 .. Top' : Parent(i)' = Parent(i)
      BY DEF Parent
    <3> QED BY <2>1, <3>1, <3>2 DEF OrderInv, Precedes
  <2>6. HoleInv' /\ OperandInv' /\ CommandInv'
    BY <1>0, <1>2, <1>4, <2>1, <2>2
       DEF HoleInv, OperandInv, CommandInv, PushStates, SiftStates, PopStates, opVars
  <2> QED BY <1>0, <2>4, <2>5, <2>6 DEF OInv
<1>5. CASE state \in {"S_POP_SIFT_RD_LEFT", "S_POP_SIFT_RD_RIGHT"}
  <2>1. /\ target_idx' = target_idx /\ size' = size /\ UNCHANGED <<cur_node, opVars>>
        /\ state = "S_POP_SIFT_RD_LEFT" => state' = "S_POP_SIFT_RD_RIGHT" /\ left_node' = n
        /\ state = "S_POP_SIFT_RD_RIGHT" =>
             /\ state' = "S_POP_SIFT_DECIDE" /\ left_node' = left_node
             /\ right_node' = n /\ has_right' = 1
    BY <1>0, <1>5 DEF Complete, ReadParent, ReadRoot, ReadLast, ReadLeft, ReadRight, ReadPeek,
                      Written, Goto, idxVars
  <2>2. /\ Same /\ KeysInv' /\ OrderInv' /\ MemIdx \in 0 .. Top /\ n = At[MemIdx]
    BY <1>5, ReadEffect
  <2>3. /\ state = "S_POP_SIFT_RD_LEFT" => MemIdx = Left(target_idx)
        /\ state = "S_POP_SIFT_RD_RIGHT" => MemIdx = Right(target_idx)
    BY DEF MemIdx
  <2>4. Left(target_idx)' = Left(target_idx) /\ Right(target_idx)' = Right(target_idx)
    BY <2>1 DEF Left, Right
  <2>5. Top = size - 1 /\ (state = "S_POP_SIFT_RD_RIGHT" => Left(target_idx) \in 0 .. Top)
    BY <1>0, <1>2, <1>5, IdxRange DEF Top, PushStates, IInv, ReadsInRange
  <2>6. HoleInv' /\ CommandInv'
    BY <1>0, <1>5, <2>1, <2>2
       DEF HoleInv, CommandInv, Same, Air, PushStates, SiftStates, PopStates, opVars
  <2>7. OperandInv'
    BY <1>0, <1>2, <1>5, <2>1, <2>2, <2>3, <2>4, <2>5 DEF OperandInv, Same
  <2> QED BY <1>0, <2>2, <2>6, <2>7 DEF OInv
<1>6. CASE state = "S_PEEK_RD"
  <2>1. state' = "S_DONE"
    BY <1>0, <1>6 DEF Complete, ReadParent, ReadRoot, ReadLast, ReadLeft, ReadRight, ReadPeek,
                      Written, Goto
  <2>2. KeysInv' /\ OrderInv'
    BY <1>6, ReadEffect
  <2>3. HoleInv' /\ OperandInv' /\ CommandInv'
    BY <2>1 DEF HoleInv, OperandInv, CommandInv, Air, PushStates, SiftStates, PopStates
  <2> QED BY <1>0, <2>2, <2>3 DEF OInv
<1> QED BY <1>1, <1>3, <1>4, <1>5, <1>6 DEF ReadStates

\* A completed write keeps the invariant.
LEMMA WriteOrder ==
  ASSUME SizesFit, OInv, NEW n, Delivered(n), state \in WriteStates
  PROVE  OInv'
<1> USE HeapAssumption
<1>0. /\ IInv /\ SlotInv /\ HoleInv /\ KeysInv /\ OrderInv /\ OperandInv /\ CommandInv
      /\ IInv' /\ SlotInv' /\ PortWrite' /\ now_ts' = now_ts /\ now_ts \in Nat
  BY DEF OInv, Delivered, IInv, TypeOK
<1>1. /\ size \in 0 .. IdxSpan - 1 /\ target_idx \in 0 .. IdxSpan - 1 /\ Top \in Int
      /\ Top <= Limit /\ Limit \in Nat
  BY <1>0, TopRange
<1>2. UNCHANGED <<nodeVars, opVars>>
  BY WriteEffect
<1>3. \A i \in Nat : Parent(i)' = Parent(i)
  BY DEF Parent
<1>4. Air => At[target_idx] = cur_node
  BY <1>1, AtValue
<1>5. CASE state = "S_PUSH_WR_DOWN"
  <2> DEFINE t == target_idx
             p == Parent(target_idx)
  <2>1. /\ Swapped(t, p) /\ t \in 1 .. Top /\ p \in 0 .. Top /\ size' = size
        /\ target_idx' = p /\ state' = AfterWrDown /\ p # t
    BY <1>1, <1>5, WriteEffect, ParentBelow
  <2>2. state' = IF p = 0 THEN "S_PUSH_WR_FINAL" ELSE "S_PUSH_RD_PARENT"
    BY <2>1 DEF AfterWrDown
  <2>3. /\ \A i \in 1 .. Top : i # t => Precedes(At[Parent(i)], At[i])
        /\ \A i \in 1 .. Top : Parent(i) = t => Precedes(At[p], At[i])
        /\ Precedes(At[t], At[p])
        /\ \A i \in 0 .. Top : At[i] \in Node
    BY <1>0, <1>4, <1>5, <2>1
       DEF OrderInv, Settled, Air, PushStates, SiftStates, OperandInv, KeysInv
  <2>4. /\ \A i \in 1 .. Top : i # p => Precedes(At'[Parent(i)], At'[i])
        /\ p > 0 => \A i \in 1 .. Top : Parent(i) = p => Precedes(At'[Parent(p)], At'[i])
    <3>1. Top \in Nat
      BY <1>1, <2>1
    <3>2. /\ At'[t] = At[p] /\ At'[p] = At[t]
          /\ \A i \in 0 .. Top : i # t /\ i # p => At'[i] = At[i]
      BY <2>1 DEF Swapped
    <3> QED BY <2>1, <2>3, <3>1, <3>2, RiseOrder
  <2>5. KeysInv'
    <3>1. Top \in Nat /\ t \in 0 .. Top
      BY <1>1, <2>1
    <3>2. /\ At'[t] = At[p] /\ At'[p] = At[t] /\ Top' = Top
          /\ \A i \in 0 .. Top : i # t /\ i # p => At'[i] = At[i]
      BY <2>1 DEF Swapped
    <3>3. \A i \in 0 .. Top : At'[i] \in Node /\ At'[i].ts < now_ts
                           /\ \A j \in 0 .. Top : At'[i].ts = At'[j].ts => i = j
      BY <1>0, <2>1, <3>1, <3>2, SwapKeys DEF KeysInv
    <3> QED BY <1>0, <3>2, <3>3 DEF KeysInv
  <2>6. OrderInv'
    <3>1. Top' = Top /\ \A i \in 1 .. Top : Settled(i)' => i # p
      BY <2>1, <2>2 DEF Swapped, Settled, PushStates
    <3>2. Parent(target_idx)' = Parent(p)
      BY <2>1 DEF Parent
    <3>3. \A i \in 1 .. Top : i \in Nat
      OBVIOUS
    <3> QED BY <1>3, <2>1, <2>4, <3>1, <3>2, <3>3 DEF OrderInv, Precedes
  <2>7. HoleInv'
    BY <2>1, <2>2 DEF HoleInv, Swapped
  <2>8. OperandInv' /\ CommandInv'
    BY <1>0, <1>2, <1>5, <2>1, <2>2
       DEF OperandInv, CommandInv, PushStates, SiftStates, PopStates, nodeVars, opVars
  <2> QED BY <1>0, <2>5, <2>6, <2>7, <2>8 DEF OInv
<1>6. CASE state = "S_POP_SIFT_WR_UP"
  <2> DEFINE t == target_idx
             b == BestIdx
  <2>1. /\ Swapped(t, b) /\ t \in 0 .. Top /\ b \in 1 .. Top /\ size' = size
        /\ target_idx' = b /\ state' = "S_POP_SIFT_RD_LEFT"
    BY <1>1, <1>6, WriteEffect
  <2>2. /\ Parent(b) = t /\ Precedes(At[b], At[t])
        /\ \A i \in 1 .. Top : Parent(i) = t /\ i # b => Precedes(At[b], At[i])
    <3>1. Air /\ Best # "CUR"
      BY <1>0, <1>6 DEF Air, SiftStates, IInv, ReadsInRange
    <3> QED BY <1>4, <1>6, <3>1, BestFacts
  <2>3. /\ \A i \in 1 .. Top : Parent(i) # t => Precedes(At[Parent(i)], At[i])
        /\ t > 0 => \A i \in 1 .. Top : Parent(i) = t => Precedes(At[Parent(t)], At[i])
    BY <1>0, <1>6 DEF OrderInv, Settled, Air, PushStates, SiftStates
  <2>4. /\ At'[t] = At[b] /\ At'[b] = At[t] /\ Top' = Top
        /\ \A i \in 0 .. Top : i # t /\ i # b => At'[i] = At[i]
    BY <2>1 DEF Swapped
  <2>5. /\ \A i \in 1 .. Top : Parent(i) # b => Precedes(At'[Parent(i)], At'[i])
        /\ \A i \in 1 .. Top : Parent(i) = b => Precedes(At'[Parent(b)], At'[i])
    <3>1. Top \in Nat
      BY <1>1, <2>1
    <3> HIDE DEF b
    <3> QED BY <2>1, <2>2, <2>3, <2>4, <3>1, SinkOrder
  <2>6. KeysInv'
    <3>1. Top \in Nat /\ b \in 0 .. Top /\ t # b
      BY <1>1, <2>1, <2>2, ParentBelow
    <3>2. \A i \in 0 .. Top : At'[i] \in Node /\ At'[i].ts < now_ts
                           /\ \A j \in 0 .. Top : At'[i].ts = At'[j].ts => i = j
      BY <1>0, <2>1, <2>4, <3>1, SwapKeys DEF KeysInv
    <3> QED BY <1>0, <2>4, <3>2 DEF KeysInv
  <2>7. OrderInv'
    <3>1. \A i \in 1 .. Top : Settled(i)' => Parent(i) # b
      BY <2>1 DEF Settled, SiftStates, Parent
    <3>2. Parent(target_idx)' = Parent(b)
      BY <2>1 DEF Parent
    <3>3. \A i \in 1 .. Top : i \in Nat
      OBVIOUS
    <3> QED BY <1>3, <2>1, <2>4, <2>5, <3>1, <3>2, <3>3 DEF OrderInv, Precedes
  <2>8. HoleInv' /\ OperandInv' /\ CommandInv'
    BY <1>0, <1>1, <1>2, <1>6, <2>1, <2>4
       DEF HoleInv, OperandInv, CommandInv, PushStates, SiftStates, PopStates, nodeVars, opVars
  <2> QED BY <1>0, <2>6, <2>7, <2>8 DEF OInv
<1>7. CASE state \in {"S_PUSH_WR_FINAL", "S_POP_SIFT_WR_FINAL", "S_UPDATE_WR"}
  <2>1. Same /\ state' = "S_DONE"
    BY <1>7, WriteEffect
  <2>2. \A i \in 1 .. Top : Precedes(At[Parent(i)], At[i])
    <3>1. CASE state = "S_PUSH_WR_FINAL"
      BY <1>0, <1>4, <3>1 DEF OrderInv, Settled, OperandInv, Air, PushStates, SiftStates
    <3>2. CASE state = "S_POP_SIFT_WR_FINAL"
      BY <1>0, <1>4, <3>2 DEF OrderInv, Settled, OperandInv, Air, PushStates, SiftStates
    <3>3. CASE state = "S_UPDATE_WR"
      BY <1>0, <3>3 DEF OrderInv, Settled, PushStates, SiftStates
    <3> QED BY <1>7, <3>1, <3>2, <3>3
  <2>3. KeysInv'
    BY <1>0, <2>1 DEF KeysInv, Same
  <2>4. OrderInv'
    <3>1. \A i \in 1 .. Top : i \in 0 .. Top /\ i \in Nat /\ Parent(i) \in 0 .. Top
      BY <1>1, ParentBelow
    <3>2. \A i \in 1 .. Top : Precedes(At'[Parent(i)], At'[i])
      BY <2>1, <2>2, <3>1 DEF Same
    <3>3. Top' = Top /\ ~Air'
      BY <2>1 DEF Same, Air, PushStates, SiftStates
    <3> QED BY <1>3, <3>1, <3>2, <3>3 DEF OrderInv, Precedes
  <2>5. HoleInv' /\ OperandInv' /\ CommandInv'
    BY <2>1 DEF HoleInv, OperandInv, CommandInv, Air, PushStates, SiftStates, PopStates
  <2> QED BY <1>0, <2>3, <2>4, <2>5 DEF OInv
<1> QED BY <1>5, <1>6, <1>7 DEF WriteStates

-----------------------------------------------------------------------------
(* The heap stays ordered.                                                  *)

\* The state after configuration.
LEMMA InitOrder == Start => OInv
<1> SUFFICES ASSUME Start PROVE OInv
  OBVIOUS
<1> USE HeapAssumption, MemoryAssumption DEF Start, HeapInit, MemoryInit
<1>1. SlotInv /\ PortWrite
  BY DEF SlotInv, PortWrite, NoReq
<1>2. Top = -1 /\ ~Air
  BY DEF Top, Air, PushStates, SiftStates
<1>3. HoleInv /\ KeysInv /\ OrderInv /\ OperandInv /\ CommandInv
  BY <1>2 DEF HoleInv, KeysInv, OrderInv, OperandInv, CommandInv,
              PushStates, SiftStates, PopStates
<1> QED BY <1>1, <1>3, InitInv DEF OInv

\* A heap nothing happens to.
LEMMA PassOrder ==
  ASSUME SizesFit, OInv, TimelyPass
  PROVE  OInv' /\ Content' = Content
<1>0. /\ IInv /\ SlotInv /\ PortWrite /\ HoleInv /\ KeysInv /\ OrderInv
      /\ OperandInv /\ CommandInv
  BY DEF OInv
<1>1. /\ state' = state /\ size' = size /\ target_idx' = target_idx /\ phase' = phase
      /\ cur_node' = cur_node /\ parent_node' = parent_node /\ left_node' = left_node
      /\ right_node' = right_node /\ has_right' = has_right /\ priv' = priv
      /\ saved_op' = saved_op /\ saved_op_data' = saved_op_data /\ popped_root' = popped_root
      /\ now_ts' >= now_ts /\ now_ts' \in Nat /\ now_ts \in Nat
  BY <1>0 DEF TimelyPass, Pass, heapVars, idxVars, nodeVars, opVars, IInv, TypeOK
<1>2. /\ page_table'[Kind] = page_table[Kind] /\ alloc_ptr'[Kind] = alloc_ptr[Kind]
      /\ bank'[Kind] = bank[Kind]
      /\ mmu_owner' = Kind => mmu_owner = Kind /\ mmu_req' = mmu_req
  BY DEF TimelyPass, Pass, PortElsewhere, memVars
<1>3. \A i : Mem(i)' = Mem(i)
  BY <1>1, <1>2 DEF Mem, IsPrivate, MakeVa
<1>4. Top' = Top /\ Air' = Air
  BY <1>1 DEF Top, Air
<1>5. At' = At
  BY <1>1, <1>3, <1>4 DEF At
<1>6. MemIdx' = MemIdx /\ MemWdata' = MemWdata
  BY <1>1 DEF MemIdx, MemWdata, Parent, Left, Right, BestNode, Best, LeftWinsCur, AWins
<1>7. SlotInv' /\ PortWrite'
  BY <1>0, <1>1, <1>2, <1>6 DEF SlotInv, PortWrite, Virtual, IsPrivate
<1>8. KeysInv'
  <2>1. \A i \in 0 .. Top : At[i] \in Node /\ At[i].ts < now_ts'
    BY <1>0, <1>1 DEF KeysInv, Node
  <2> QED BY <1>0, <1>4, <1>5, <2>1 DEF KeysInv
<1>9. HoleInv' /\ OrderInv'
  BY <1>0, <1>1, <1>4, <1>5 DEF HoleInv, OrderInv, Settled, Parent, Precedes
<1>10. OperandInv' /\ CommandInv'
  BY <1>0, <1>1, <1>4, <1>5
     DEF OperandInv, CommandInv, Parent, Left, Right, Precedes
<1>11. IInv'
  BY <1>0, PassInv DEF TimelyPass
<1>12. Content' = Content
  BY <1>1, <1>3 DEF Content
<1> QED BY <1>7, <1>8, <1>9, <1>10, <1>11, <1>12 DEF OInv

\* OInv is kept by every timely use of the heap.
LEMMA UseOrder == SizesFit /\ OInv /\ TimelyUse => OInv'
<1> SUFFICES ASSUME SizesFit, OInv, TimelyUse PROVE OInv'
  OBVIOUS
<1>1. CASE \E n \in Node : TimelyPush(n)
  BY <1>1, PushOrder
<1>2. CASE PopCommand \/ PeekCommand \/ Finish \/ \E n \in Node : RootUpdate(n)
  BY <1>2, CommandOrder
<1>3. CASE Step
  <2> USE <1>3 DEF Step
  <2>1. CASE Compute \/ NoChild
    BY <2>1, ComputeOrder, NoChildOrder
  <2>2. CASE IssuePriv \/ IssueVirt \/ VirtRetry
    BY <2>2, IssuePrivOrder, UpdateOrder, PortOrder
  <2>3. CASE ReadCached \/ PrivDone \/ VirtDone
    <3>1. PICK n : Delivered(n)
      BY <2>3, Delivers
    <3>2. state \in ReadStates \cup WriteStates
      BY <3>1 DEF Delivered, Wanted
    <3> QED BY <3>1, <3>2, ReadOrder, WriteOrder
  <2> QED BY <2>1, <2>2, <2>3 DEF Busy
<1>4. CASE Answer
  BY <1>4, PortOrder DEF Answer
<1>5. CASE TimelyPass
  BY <1>5, PassOrder
<1> QED BY <1>1, <1>2, <1>3, <1>4, <1>5 DEF TimelyUse

\* HeapSpec's user is a timely one.
LEMMA NextIsTimely == OInv /\ [Next]_vars /\ ~Reset => TimelyUse
<1> SUFFICES ASSUME OInv, [Next]_vars, ~Reset PROVE TimelyUse
  OBVIOUS
<1>0. IInv /\ now_ts \in Nat /\ size \in Nat
  BY HeapAssumption DEF OInv, IInv, TypeOK, HeapTypeOK
<1>1. CASE PushCommand
  <2>1. PICK p \in Prices : CmdPush([price |-> p, ts |-> now_ts, amount |-> 2])
    BY <1>1 DEF PushCommand
  <2>2. PICK n \in Node : n = [price |-> p, ts |-> now_ts, amount |-> 2]
    BY <1>0, SpecAssumption DEF Node
  <2>3. \A m \in Content : m.ts # n.ts
    <3>1. \A i \in 0 .. Top : At[i] \in Node /\ At[i].ts < now_ts
      BY DEF OInv, KeysInv
    <3>2. Content = {At[i] : i \in 0 .. Top}
      BY <2>1, IdleContent DEF OInv, CmdPush
    <3>3. n.ts = now_ts
      BY <2>2
    <3> QED BY <1>0, <3>1, <3>2, <3>3 DEF Node
  <2>4. TimelyPush(n)
    BY <1>0, <1>1, <2>1, <2>2, <2>3 DEF PushCommand, PushAny, TimelyPush
  <2> QED BY <2>4 DEF TimelyUse
<1>2. CASE UpdateCommand
  <2>1. PICK n \in Content : n.amount > 1 /\ CmdUpdate([n EXCEPT !.amount = @ - 1])
    BY <1>2 DEF UpdateCommand
  <2>2. n \in Node /\ state = "S_IDLE"
    BY <1>0, <2>1, ContentIsNodes DEF CmdUpdate
  <2>3. PICK m \in Node : m = [n EXCEPT !.amount = @ - 1]
    BY <2>1, <2>2 DEF Node
  <2>4. Content = {Mem(i) : i \in 0 .. size - 1}
    BY <2>2 DEF Content, PushStates, SiftStates
  <2>5. size > 0
    BY <1>0, <2>1, <2>4
  <2>6. RootUpdate(m)
    BY <1>2, <2>1, <2>3, <2>5 DEF UpdateCommand, UpdateAny, RootUpdate
  <2> QED BY <2>6 DEF TimelyUse
<1>3. CASE UNCHANGED vars
  BY <1>0, <1>3 DEF vars, Pass, TimelyPass, TimelyUse
<1> QED BY <1>1, <1>2, <1>3 DEF Next, TimelyUse

\* OInv is inductive but for the reset.
LEMMA NextOrder == SizesFit /\ OInv /\ [Next]_vars /\ ~Reset => OInv'
BY UseOrder, NextIsTimely

\* Until the first reset OInv holds.
BeforeReset == IInv /\ (resets = 0 => OInv)

LEMMA AlwaysOrder ==
  ASSUME SizesFit
  PROVE  Spec => []BeforeReset
<1>1. Init => BeforeReset
  BY InitIsStart, InitInv, InitOrder DEF BeforeReset
<1>2. BeforeReset /\ [Next]_vars => BeforeReset'
  <2> SUFFICES ASSUME BeforeReset, [Next]_vars PROVE BeforeReset'
    OBVIOUS
  <2>1. IInv' /\ resets \in Nat
    BY NextInv DEF BeforeReset, IInv, TypeOK
  <2>2. CASE Reset
    BY <2>1, <2>2 DEF Reset, BeforeReset
  <2>3. CASE ~Reset
    <3>1. resets' = resets
      BY <2>3 DEF Next, vars, PushCommand, PopCommand, PeekCommand, UpdateCommand, Finish,
                  Step, Answer
    <3> QED BY <2>1, <2>3, <3>1, NextOrder DEF BeforeReset
  <2> QED BY <2>2, <2>3
<1> QED BY <1>1, <1>2, PTL DEF Spec

\* With the source's ratio of addresses, slots and indices, and for every size
\* of the tiers and every sequence of commands, rejections and stray reads, no
\* parent loses to a child between two commands before the first reset.
THEOREM HeapStaysOrdered ==
  ASSUME SizesFit
  PROVE  Spec => [](resets = 0 => HeapOrdered)
<1>1. BeforeReset => (resets = 0 => HeapOrdered)
  <2> SUFFICES ASSUME OInv, state = "S_IDLE", NEW i \in 1 .. size - 1
               PROVE  Precedes(Mem(Parent(i)), Mem(i))
    BY DEF BeforeReset, HeapOrdered
  <2>1. Top = size - 1 /\ ~Air /\ Settled(i) /\ size \in 0 .. IdxSpan - 1
    BY DEF Top, Air, Settled, PushStates, SiftStates, OInv, IInv, TypeOK, HeapTypeOK
  <2>2. Precedes(At[Parent(i)], At[i])
    BY <2>1 DEF OInv, OrderInv
  <2>3. i \in 0 .. IdxSpan - 1 /\ Parent(i) \in 0 .. IdxSpan - 1
    BY <2>1, ParentBelow, HeapAssumption
  <2> QED BY <2>1, <2>2, <2>3, AtValue
<1> QED BY <1>1, AlwaysOrder, PTL

\* Before the first reset no two nodes of the heap share a slot of the MMU
\* (mmu.sv, "960 unique slots"), and the heap never outgrows its slots.
THEOREM SlotsStayDistinct ==
  ASSUME SizesFit
  PROVE  Spec => [](resets = 0 => SlotsDistinct /\ size <= PrivateNodes + Slots)
<1>1. BeforeReset => (resets = 0 => SlotsDistinct /\ size <= PrivateNodes + Slots)
  <2> SUFFICES ASSUME OInv PROVE SlotsDistinct /\ size <= PrivateNodes + Slots
    BY DEF BeforeReset
  <2>1. IInv /\ SlotInv /\ size <= Limit /\ size \in Nat /\ Limit \in Nat
    BY TopRange, HeapAssumption DEF OInv
  <2>2. ASSUME NEW i \in PrivateNodes .. size - 1, NEW j \in PrivateNodes .. size - 1, i # j
        PROVE  page_table[Kind][MakeVa(i)] # page_table[Kind][MakeVa(j)]
    <3>1. i \in PrivateNodes .. Limit /\ j \in PrivateNodes .. Limit
      BY <2>1, MemoryAssumption
    <3>2. MakeVa(i) # MakeVa(j) /\ MakeVa(i) \in Vas /\ MakeVa(j) \in Vas
      BY <2>2, <3>1, VaInjective, VaRange, MemoryAssumption
    <3>3. Written1(i)
      BY <2>1, MemoryAssumption DEF IInv, NodesWritten, Virtual, IsPrivate
    <3> QED BY <2>1, <3>2, <3>3 DEF SlotInv, Written1
  <2> QED BY <2>1, <2>2 DEF SlotsDistinct, Limit
<1> QED BY <1>1, AlwaysOrder, PTL

-----------------------------------------------------------------------------
(* The heap implements PriorityQueue.                                       *)

\* The contents, as nodes at indices: a push counts its node when it lands.
Indices == IF state \in PushStates THEN (0 .. Top) \ {target_idx} ELSE 0 .. Top

ContentAt == Content = {At[i] : i \in Indices}

LEMMA ContentIs ==
  ASSUME SizesFit
  PROVE  OInv => ContentAt
<1> SUFFICES ASSUME OInv PROVE Content = {At[i] : i \in Indices}
  BY DEF ContentAt
<1>0. IInv /\ SlotInv /\ HoleInv
  BY DEF OInv
<1>1. \A i \in 0 .. Top : i \in 0 .. IdxSpan - 1
  BY <1>0, TopRange
<1>2. CASE state \in PushStates
  <2>1. Content = {Mem(i) : i \in (0 .. size) \ {target_idx}} /\ Top = size
    BY <1>2 DEF Content, Top, PushStates, SiftStates
  <2>2. \A i \in Indices : At[i] = Mem(i)
    BY <1>1, <1>2, AtValue DEF Indices
  <2> QED BY <1>2, <2>1, <2>2 DEF Indices
<1>3. CASE state \in SiftStates
  <2>1. /\ Content = {Mem(i) : i \in (0 .. size - 1) \ {target_idx}} \cup {cur_node}
        /\ Top = size - 1 /\ Air /\ Indices = 0 .. Top
    BY <1>3 DEF Content, Top, Air, PushStates, SiftStates, Indices
  <2>2. target_idx \in 0 .. Top /\ At[target_idx] = cur_node
    BY <1>0, <1>1, <2>1, AtValue DEF HoleInv
  <2>3. \A i \in (0 .. Top) \ {target_idx} : At[i] = Mem(i)
    BY <1>1, <2>1, AtValue
  <2> QED BY <2>1, <2>2, <2>3
<1>4. CASE state \notin PushStates \cup SiftStates
  <2>1. /\ Content = {Mem(i) : i \in 0 .. size - 1}
        /\ Top = size - 1 /\ ~Air /\ Indices = 0 .. Top
    BY <1>4 DEF Content, Top, Air, Indices
  <2>2. \A i \in 0 .. Top : At[i] = Mem(i)
    BY <1>1, <2>1, AtValue
  <2> QED BY <2>1, <2>2
<1> QED BY <1>2, <1>3, <1>4

\* ... and after a step.
LEMMA ContentNext ==
  ASSUME SizesFit
  PROVE  OInv' => ContentAt'
BY ContentIs, PTL

\* The first of the queue is the root.
LEMMA FirstIsRoot ==
  ASSUME SizesFit, OInv, ~Air, size > 0
  PROVE  /\ PQ!First = At[0] /\ At[0] \in Content /\ 0 \in 0 .. Top
         /\ \A i \in 1 .. Top : At[i] # At[0]
         /\ \A m \in Content \ {At[0]} : Precedes(At[0], m)
<1>0. IInv /\ SlotInv /\ KeysInv /\ OrderInv
  BY DEF OInv
<1>1. Top \in Nat /\ Indices = 0 .. Top /\ 0 \in 0 .. Top
  BY <1>0, TopRange DEF Top, Indices, Air
<1>2. Content = {At[i] : i \in 0 .. Top} /\ At[0] \in Content
  BY <1>1, ContentIs DEF ContentAt
<1>3. \A i \in 0 .. Top : At[i] \in Node
  BY <1>0 DEF KeysInv
<1>4. \A i \in 1 .. Top : Precedes(At[Parent(i)], At[i])
  BY <1>0 DEF OrderInv, Settled, Air
<1>5. \A i \in 1 .. Top : Precedes(At[0], At[i])
  BY <1>1, <1>3, <1>4, RootFirst
<1>6. \A i \in 0 .. Top : i = 0 \/ i \in 1 .. Top
  BY <1>1
<1>7. \A m \in Content \ {At[0]} : Precedes(At[0], m)
  BY <1>2, <1>5, <1>6
<1>8. ASSUME NEW n \in Content, \A m \in Content \ {n} : Precedes(n, m) PROVE n = At[0]
  <2>1. SUFFICES ASSUME n # At[0] PROVE FALSE
    OBVIOUS
  <2>2. Precedes(n, At[0]) /\ Precedes(At[0], n) /\ n \in Node /\ At[0] \in Node
    BY <1>1, <1>2, <1>3, <1>7, <1>8, <2>1
  <2> QED BY <2>2, Comparator
<1>9. PQ!First = At[0]
  <2>1. PQ!First = CHOOSE n \in Content : \A m \in Content \ {n} : Precedes(n, m)
    BY DEF PQ!First
  <2> QED BY <1>2, <1>7, <1>8, <2>1
<1>10. \A i \in 1 .. Top : At[i] # At[0]
  BY <1>0, <1>1 DEF KeysInv
<1> QED BY <1>1, <1>2, <1>7, <1>9, <1>10

\* A step that moves no node and enters or leaves no push keeps the queue.
LEMMA SameContent ==
  ASSUME SizesFit, OInv, OInv', Same,
         state' \in PushStates <=> state \in PushStates,
         state \in PushStates => target_idx' = target_idx
  PROVE  Content' = Content
<1>1. Indices' = Indices /\ \A i \in Indices : At'[i] = At[i]
  BY DEF Same, Indices
<1> QED BY <1>1, ContentIs, ContentNext DEF ContentAt

AbsArg ==
  IF state # "S_IDLE" /\ saved_op \in {"OP_PUSH", "OP_UPDATE"} THEN saved_op_data ELSE NoNode
AbsAnswer ==
  IF AbsPending = "done" /\ saved_op \in {"OP_POP", "OP_PEEK"} THEN RootOut ELSE NoNode

\* A step of the abstract queue, or none.
AbsStep == [PQ!Next]_(PQ!pqVars)

\* The nodes stay where they are when a command is given and when it returns.
LEMMA CommandKeeps ==
  ASSUME SizesFit, OInv,
         \/ PopCommand \/ PeekCommand \/ Finish
         \/ \E n \in Node : TimelyPush(n) \/ RootUpdate(n)
  PROVE  Content' = Content
<1>0. /\ state \in {"S_IDLE", "S_DONE"} /\ memVars' = memVars /\ priv' = priv /\ size' = size
      /\ size \in 0 .. IdxSpan - 1 /\ ~Air
  BY TopRange
     DEF OInv, TimelyPush, PushAny, CmdPush, PopCommand, CmdPop, PeekCommand, CmdPeek, RootUpdate,
         UpdateAny, CmdUpdate, Finish, Done, Goto, idxVars, Air, PushStates, SiftStates
<1>1. Content = {Mem(i) : i \in 0 .. size - 1}
  BY <1>0 DEF Content, PushStates, SiftStates
<1>2. \A i \in 0 .. size - 1 : Mem(i)' = Mem(i)
  BY <1>0, MemStill
<1>3. CASE \E n \in Node : TimelyPush(n)
  <2>1. state' = "S_PUSH_LAUNCH" /\ target_idx' = size
    BY <1>3 DEF TimelyPush, PushAny, CmdPush, Goto
  <2>2. Content' = {Mem(i)' : i \in (0 .. size) \ {size}}
    BY <1>0, <2>1 DEF Content, PushStates, SiftStates
  <2>3. (0 .. size) \ {size} = 0 .. size - 1
    BY <1>0
  <2> QED BY <1>1, <1>2, <2>2, <2>3
<1>4. CASE ~\E n \in Node : TimelyPush(n)
  <2>1. state' \in {"S_IDLE", "S_DONE", "S_POP_LAUNCH", "S_PEEK_RD", "S_UPDATE_WR"}
    BY <1>4 DEF PopCommand, CmdPop, PeekCommand, CmdPeek, RootUpdate, UpdateAny, CmdUpdate,
                Finish, Done, Goto
  <2>2. Content' = {Mem(i)' : i \in 0 .. size - 1}
    BY <1>0, <2>1 DEF Content, PushStates, SiftStates
  <2> QED BY <1>1, <1>2, <2>2
<1> QED BY <1>3, <1>4

\* Between two commands the queue waits for one; the commands call it, PEEK of a
\* cached root and a refused UPDATE are over at once, and S_DONE returns.
LEMMA CommandRefines ==
  ASSUME SizesFit, OInv, OInv',
         \/ PopCommand \/ PeekCommand \/ Finish
         \/ \E n \in Node : TimelyPush(n) \/ RootUpdate(n)
  PROVE  AbsStep
<1> USE HeapAssumption, MemoryAssumption
<1>0. IInv /\ SlotInv /\ HoleInv /\ CommandInv
  BY DEF OInv
<1>1. /\ state \in {"S_IDLE", "S_DONE"} /\ memVars' = memVars /\ priv' = priv /\ size' = size
      /\ size \in 0 .. IdxSpan - 1 /\ ~Air
  BY <1>0, TopRange
     DEF TimelyPush, PushAny, CmdPush, PopCommand, CmdPop, PeekCommand, CmdPeek, RootUpdate,
         UpdateAny, CmdUpdate, Finish, Done, Goto, idxVars, Air, PushStates, SiftStates
<1>2. Content' = Content
  BY CommandKeeps
<1>3. ASSUME state = "S_IDLE", size > 0
      PROVE  CacheHit(0) /\ node_cache[0] = PQ!First
  <2>1. CacheHit(0) /\ node_cache[0] = priv[0]
    BY <1>0, <1>3 DEF IInv, RootInv, CacheCoherent, SiftStates, WriteStates
  <2>2. At[0] = priv[0]
    BY <1>1, <2>1, AtValue DEF Mem, IsPrivate
  <2> QED BY <1>1, <1>3, <2>1, <2>2, FirstIsRoot
<1>4. Content # {} => size > 0
  BY <1>1 DEF Content, PushStates, SiftStates
<1>5. state = "S_IDLE" => AbsPending = "none" /\ AbsArg = NoNode /\ AbsAnswer = NoNode
  BY DEF AbsPending, AbsArg, AbsAnswer, SiftStates
<1>6. CASE \E n \in Node : TimelyPush(n)
  <2>1. PICK n \in Node : CmdPush(n)
    BY <1>6 DEF TimelyPush, PushAny
  <2>2. /\ state = "S_IDLE" /\ state' = "S_PUSH_LAUNCH" /\ saved_op' = "OP_PUSH"
        /\ saved_op_data' \in Node
    BY <2>1 DEF CmdPush, Goto, OInv, IInv, TypeOK, HeapTypeOK
  <2>3. AbsPending' = "OP_PUSH" /\ AbsArg' # NoNode /\ AbsAnswer' = NoNode
    BY <2>2, NoNodeAssumption DEF AbsPending, AbsArg, AbsAnswer, SiftStates
  <2>4. PQ!Call("OP_PUSH")
    BY <1>2, <1>5, <2>2, <2>3 DEF PQ!Call, AbsArg, AbsAnswer
  <2> QED BY <2>4 DEF AbsStep, PQ!Next
<1>7. CASE PopCommand
  <2>1. state = "S_IDLE" /\ state' = "S_POP_LAUNCH" /\ saved_op' = "OP_POP"
    BY <1>7 DEF PopCommand, CmdPop, Goto
  <2>2. AbsPending' = "OP_POP" /\ AbsArg' = NoNode /\ AbsAnswer' = NoNode
    BY <2>1 DEF AbsPending, AbsArg, AbsAnswer, SiftStates
  <2>3. PQ!Call("OP_POP")
    BY <1>2, <1>5, <2>1, <2>2 DEF PQ!Call, AbsArg, AbsAnswer
  <2> QED BY <2>3 DEF AbsStep, PQ!Next
<1>8. CASE PeekCommand
  <2>1. /\ state = "S_IDLE" /\ saved_op' = "OP_PEEK" /\ node_cache' = node_cache
        /\ state' = IF CacheHit(0) THEN "S_DONE" ELSE "S_PEEK_RD"
    BY <1>8 DEF PeekCommand, CmdPeek, Goto
  <2>2. CASE CacheHit(0)
    <3>1. AbsPending' = "done" /\ AbsArg' = NoNode /\ AbsAnswer' = node_cache[0]
      BY <2>1, <2>2 DEF AbsPending, AbsArg, AbsAnswer, RootOut, CacheHit, SiftStates
    <3>2. PQ!Peek
      BY <1>2, <1>3, <1>4, <1>5, <2>1, <3>1 DEF PQ!Peek, AbsArg, AbsAnswer
    <3> QED BY <3>2 DEF AbsStep, PQ!Next
  <2>3. CASE ~CacheHit(0)
    <3>1. AbsPending' = "OP_PEEK" /\ AbsArg' = NoNode /\ AbsAnswer' = NoNode
      BY <2>1, <2>3 DEF AbsPending, AbsArg, AbsAnswer, SiftStates
    <3>2. PQ!Call("OP_PEEK")
      BY <1>2, <1>5, <2>1, <3>1 DEF PQ!Call, AbsArg, AbsAnswer
    <3> QED BY <3>2 DEF AbsStep, PQ!Next
  <2> QED BY <2>2, <2>3
<1>9. CASE \E n \in Node : RootUpdate(n)
  <2>1. PICK n \in Node : CmdUpdate(n) /\ size > 0
    BY <1>9 DEF RootUpdate, UpdateAny
  <2>2. /\ state = "S_IDLE" /\ phase' = "ISSUE" /\ saved_op' = "OP_UPDATE" /\ saved_op_data' \in Node
        /\ state' = IF CacheHit(0) /\ UpdateKeysOk(saved_op_data') THEN "S_UPDATE_WR"
                    ELSE "S_DONE"
    BY <2>1 DEF CmdUpdate, Goto, OInv, IInv, TypeOK, HeapTypeOK
  <2>3. size > 0 /\ CacheHit(0) /\ node_cache[0] = PQ!First
    BY <1>3, <1>4, <2>1, <2>2
  <2>4. AbsArg' = saved_op_data' /\ AbsArg' # NoNode /\ AbsAnswer' = NoNode
    BY <2>2, NoNodeAssumption DEF AbsArg, AbsAnswer
  <2>5. CASE UpdateKeysOk(saved_op_data')
    <3>1. AbsPending' = "OP_UPDATE"
      BY <2>2, <2>3, <2>5 DEF AbsPending, SiftStates
    <3>2. PQ!Call("OP_UPDATE")
      BY <1>2, <1>5, <2>2, <2>4, <3>1 DEF PQ!Call, AbsArg, AbsAnswer
    <3> QED BY <3>2 DEF AbsStep, PQ!Next
  <2>6. CASE ~UpdateKeysOk(saved_op_data')
    <3>1. AbsPending' = "done"
      BY <2>2, <2>6 DEF AbsPending
    <3>2. ~PQ!SameKeys(AbsArg', PQ!First)
      BY <2>3, <2>4, <2>6 DEF PQ!SameKeys, UpdateKeysOk
    <3>3. PQ!RefuseUpdate
      BY <1>2, <1>5, <2>2, <2>4, <3>1, <3>2 DEF PQ!RefuseUpdate, AbsArg, AbsAnswer
    <3> QED BY <3>3 DEF AbsStep, PQ!Next
  <2> QED BY <2>5, <2>6
<1>10. CASE Finish
  <2>1. state = "S_DONE" /\ state' = "S_IDLE"
    BY <1>10 DEF Finish, Done, Goto
  <2>2. AbsPending = "done" /\ AbsPending' = "none" /\ AbsArg' = NoNode /\ AbsAnswer' = NoNode
    BY <2>1 DEF AbsPending, AbsArg, AbsAnswer, SiftStates
  <2>3. PQ!Return
    BY <1>2, <2>2 DEF PQ!Return, AbsArg, AbsAnswer
  <2> QED BY <2>3 DEF AbsStep, PQ!Next
<1> QED BY <1>6, <1>7, <1>8, <1>9, <1>10

\* A step between the effects of a command is a step of the heap alone.
LEMMA Stutters ==
  ASSUME Content' = Content, AbsPending' = AbsPending, opVars' = opVars,
         state' = "S_IDLE" <=> state = "S_IDLE",
         AbsPending = "done" /\ saved_op = "OP_PEEK" => node_cache' = node_cache
  PROVE  AbsStep
<1>1. saved_op' = saved_op /\ saved_op_data' = saved_op_data /\ popped_root' = popped_root
  BY DEF opVars
<1>2. AbsArg' = AbsArg
  BY <1>1 DEF AbsArg
<1>3. AbsAnswer' = AbsAnswer
  BY <1>1 DEF AbsAnswer, RootOut, CacheHit
<1> QED BY <1>2, <1>3 DEF AbsStep, PQ!pqVars, AbsArg, AbsAnswer

\* The states that decide: only POP of an empty heap or of the last node has
\* an effect there.
LEMMA ComputeRefines ==
  ASSUME SizesFit, OInv, OInv', Compute \/ NoChild, UNCHANGED <<now_ts, resets>>
  PROVE  AbsStep
<1> USE HeapAssumption, MemoryAssumption
<1>0. IInv /\ SlotInv /\ HoleInv /\ CommandInv
  BY DEF OInv
<1>1. /\ page_table' = page_table /\ bank' = bank /\ priv' = priv /\ now_ts' = now_ts
      /\ target_idx' = target_idx /\ cur_node' = cur_node /\ opVars' = opVars
      /\ phase' = "ISSUE"
  BY DEF Compute, PushLaunch, PushDecide, PopLaunch, SiftDecide, NoChild, MissingChild,
         VirtAccept, memVars, Goto, idxVars, nodeVars, opVars
<1>2. CASE PushLaunch \/ PushDecide \/ SiftDecide \/ NoChild
  <2>1. /\ size' = size
        /\ state' \in PushStates <=> state \in PushStates
        /\ state' \in SiftStates <=> state \in SiftStates
        /\ Air /\ state \notin {"S_IDLE", "S_DONE"} /\ state' \notin {"S_IDLE", "S_DONE"}
        /\ state \in PushStates \/ state \in SiftStates
    BY <1>2 DEF PushLaunch, PushDecide, SiftDecide, NoChild, MissingChild, Goto, idxVars,
                PushStates, SiftStates, Air
  <2>2. Same
    BY <1>1, <2>1, MemKept, Quiet DEF Same
  <2>3. Content' = Content
    BY <1>1, <2>1, <2>2, SameContent
  <2>4. AbsPending' = AbsPending /\ saved_op # "OP_PEEK"
    BY <1>0, <1>1, <2>1 DEF AbsPending, PushStates, SiftStates, opVars, CommandInv
  <2> QED BY <1>1, <2>1, <2>3, <2>4, Stutters
<1>3. CASE PopLaunch
  <2>1. /\ state = "S_POP_LAUNCH" /\ saved_op = "OP_POP" /\ ~Air /\ size \in 0 .. IdxSpan - 1
        /\ saved_op' = saved_op /\ saved_op_data' = saved_op_data /\ popped_root' = popped_root
        /\ state' = IF size = 0 \/ (CacheHit(0) /\ size = 1) THEN "S_DONE"
                    ELSE IF CacheHit(0) THEN "S_POP_RD_LAST" ELSE "S_POP_RD_ROOT"
        /\ size' = IF size = 1 /\ CacheHit(0) THEN 0 ELSE size
        /\ size > 0 => CacheHit(0) /\ popped_root = At[0]
    BY <1>0, <1>1, <1>3, TopRange
       DEF PopLaunch, Goto, CommandInv, PopStates, SiftStates, PushStates, opVars, IInv, RootInv,
           Air
  <2>2. AbsPending = "OP_POP" /\ AbsArg = NoNode
    BY <2>1 DEF AbsPending, AbsArg, SiftStates
  <2>3. CASE size > 1
    <3>1. state' = "S_POP_RD_LAST" /\ size' = size
      BY <2>1, <2>3
    <3>2. Same
      BY <1>1, <2>1, <3>1, MemKept, Quiet DEF Same, PushStates, SiftStates
    <3>3. Content' = Content
      BY <1>1, <2>1, <3>1, <3>2, SameContent DEF PushStates
    <3>4. AbsPending' = AbsPending
      BY <2>1, <2>2, <3>1 DEF AbsPending, SiftStates
    <3> QED BY <1>1, <2>1, <2>2, <3>1, <3>3, <3>4, Stutters
  <2>4. CASE size <= 1
    <3>1. state' = "S_DONE" /\ size' = 0
      BY <2>1, <2>4
    <3>2. Content' = {}
      BY <3>1 DEF Content, PushStates, SiftStates
    <3>3. /\ AbsPending' = "done" /\ AbsArg' = NoNode /\ AbsAnswer' = popped_root
      BY <2>1, <3>1 DEF AbsPending, AbsArg, AbsAnswer, RootOut, SiftStates
    <3>4. Content # {} => Content = {PQ!First} /\ popped_root = PQ!First
      <4>1. Content = {Mem(i) : i \in 0 .. size - 1}
        BY <2>1 DEF Content, PushStates, SiftStates
      <4>2. Content # {} => size = 1
        BY <2>1, <2>4, <4>1
      <4>3. size = 1 => Content = {Mem(0)}
        BY <4>1
      <4>4. size = 1 => PQ!First = At[0] /\ At[0] \in Content
        BY <2>1, FirstIsRoot
      <4> QED BY <2>1, <4>2, <4>3, <4>4
    <3>5. PQ!Pop
      BY <2>2, <3>2, <3>3, <3>4 DEF PQ!Pop, AbsArg, AbsAnswer
    <3> QED BY <3>5 DEF AbsStep, PQ!Next
  <2> QED BY <2>1, <2>3, <2>4
<1> QED BY <1>2, <1>3 DEF Compute

\* Issuing an access, and what the port does: only the write of an UPDATE has
\* an effect on the queue, in its first cycle.
LEMMA IssueRefines ==
  ASSUME SizesFit, OInv, OInv', UNCHANGED <<now_ts, resets>>,
         IssuePriv \/ IssueVirt \/ VirtRetry \/ LateAnswer
  PROVE  AbsStep
<1> USE HeapAssumption, MemoryAssumption
<1>0. IInv /\ SlotInv /\ HoleInv /\ CommandInv /\ KeysInv
  BY DEF OInv
<1>1. /\ state' = state /\ size' = size /\ target_idx' = target_idx
      /\ node_cache' = node_cache /\ opVars' = opVars
  BY DEF IssuePriv, IssueVirt, Waits, VirtRetry, Goto, LateAnswer, heapVars, idxVars, opVars
<1>2. CASE state = "S_UPDATE_WR" /\ IssuePriv
  <2>1. /\ Top' = Top /\ At'[0] = saved_op_data /\ \A i \in 1 .. Top : At'[i] = At[i]
    BY <1>2, UpdateOrder
  <2>2. /\ saved_op = "OP_UPDATE" /\ size > 0 /\ ~Air
        /\ saved_op_data.price = At[0].price /\ saved_op_data.ts = At[0].ts
        /\ phase = "ISSUE" /\ phase' = "WAIT"
    BY <1>0, <1>2 DEF CommandInv, Air, PushStates, SiftStates, IssuePriv, Waits
  <2>3. /\ PQ!First = At[0] /\ At[0] \in Content /\ 0 \in 0 .. Top
        /\ \A i \in 1 .. Top : At[i] # At[0]
    BY <2>2, FirstIsRoot
  <2>4. Indices = 0 .. Top /\ Indices' = 0 .. Top /\ Top \in Int
    BY <1>0, <1>1, <1>2, <2>1, TopRange DEF Indices, PushStates
  <2>5. \A i \in 0 .. Top : i = 0 \/ i \in 1 .. Top
    BY <2>4
  <2>6. Content = {At[i] : i \in 0 .. Top} /\ Content' = {At'[i] : i \in 0 .. Top}
    BY <2>4, ContentIs, ContentNext DEF ContentAt
  <2>7. Content' = (Content \ {At[0]}) \cup {saved_op_data}
    <3>1. Content \ {At[0]} = {At[i] : i \in 1 .. Top}
      BY <2>3, <2>4, <2>5, <2>6
    <3>2. Content' = {At'[i] : i \in 1 .. Top} \cup {saved_op_data}
      BY <2>1, <2>3, <2>4, <2>5, <2>6
    <3> QED BY <2>1, <3>1, <3>2
  <2>8. /\ AbsPending = "OP_UPDATE" /\ AbsPending' = "done"
        /\ AbsArg = saved_op_data /\ AbsArg' = saved_op_data
        /\ AbsAnswer = NoNode /\ AbsAnswer' = NoNode
    BY <1>1, <1>2, <2>2 DEF AbsPending, AbsArg, AbsAnswer, SiftStates, opVars
  <2>9. PQ!Update
    BY <2>2, <2>3, <2>7, <2>8 DEF PQ!Update, PQ!SameKeys, AbsArg, AbsAnswer
  <2> QED BY <2>9 DEF AbsStep, PQ!Next
<1>3. CASE ~(state = "S_UPDATE_WR" /\ IssuePriv)
  <2>1. Same
    BY <1>3, IssuePrivOrder, PortOrder DEF Same
  <2>2. Content' = Content
    BY <1>1, <2>1, SameContent
  <2>3. state = "S_UPDATE_WR" => phase' = phase
    <3>1. state = "S_UPDATE_WR" => IsPrivate(MemIdx)
      BY DEF MemIdx, IsPrivate
    <3> QED BY <1>3, <3>1 DEF IssueVirt, VirtRetry, LateAnswer, heapVars
  <2>4. AbsPending' = AbsPending
    BY <1>1, <2>3 DEF AbsPending, opVars
  <2> QED BY <1>1, <2>2, <2>4, Stutters
<1> QED BY <1>2, <1>3

\* Two places that change their nodes hold the same set of nodes.
LEMMA SwapSet ==
  ASSUME NEW S, NEW t \in S, NEW b \in S, NEW f, NEW g,
         g[t] = f[b], g[b] = f[t], \A i \in S : i # t /\ i # b => g[i] = f[i]
  PROVE  /\ {g[i] : i \in S} = {f[i] : i \in S}
         /\ {g[i] : i \in S \ {b}} = {f[i] : i \in S \ {t}}
OBVIOUS

\* A completed read: the one of the last leaf pops the root, the one of an
\* empty heap's root answers a PEEK.
LEMMA ReadRefines ==
  ASSUME SizesFit, OInv, OInv', NEW n, Delivered(n), state \in ReadStates
  PROVE  AbsStep
<1> USE HeapAssumption, MemoryAssumption
<1>0. IInv /\ SlotInv /\ HoleInv /\ CommandInv /\ KeysInv /\ Complete(n)
  BY DEF OInv, Delivered
<1>1. state \notin WriteStates /\ state # "S_POP_RD_ROOT"
  BY <1>0 DEF ReadStates, WriteStates, IInv, RootInv
<1>2. CASE state \in {"S_PUSH_RD_PARENT", "S_POP_SIFT_RD_LEFT", "S_POP_SIFT_RD_RIGHT"}
  <2>1. /\ target_idx' = target_idx /\ opVars' = opVars
        /\ state = "S_PUSH_RD_PARENT" => state' = "S_PUSH_DECIDE"
        /\ state = "S_POP_SIFT_RD_LEFT" => state' = "S_POP_SIFT_RD_RIGHT"
        /\ state = "S_POP_SIFT_RD_RIGHT" => state' = "S_POP_SIFT_DECIDE"
    BY <1>0, <1>2 DEF Complete, ReadParent, ReadRoot, ReadLast, ReadLeft, ReadRight, ReadPeek,
                      Written, Goto, idxVars, opVars
  <2>2. Same
    BY <1>2, ReadEffect
  <2>3. Content' = Content
    BY <1>2, <2>1, <2>2, SameContent DEF PushStates
  <2>4. AbsPending' = AbsPending /\ saved_op # "OP_PEEK"
    BY <1>0, <1>2, <2>1 DEF AbsPending, PushStates, SiftStates, opVars, CommandInv
  <2> QED BY <1>2, <2>1, <2>3, <2>4, Stutters
<1>3. CASE state = "S_POP_RD_LAST"
  <2>1. state' = "S_POP_SIFT_RD_LEFT" /\ opVars' = opVars
    BY <1>0, <1>3 DEF Complete, ReadParent, ReadRoot, ReadLast, ReadLeft, ReadRight, ReadPeek,
                      Written, Goto, opVars
  <2>2. /\ Top = size - 1 /\ Top' = size - 2 /\ size > 1 /\ At'[0] = At[size - 1]
        /\ \A i \in 1 .. Top' : At'[i] = At[i]
    BY <1>3, ReadEffect
  <2>3. /\ saved_op = "OP_POP" /\ popped_root = At[0] /\ ~Air /\ size \in Nat
    BY <1>0, <1>3, <2>2, TopRange DEF CommandInv, PopStates, Air, PushStates, SiftStates
  <2>4. /\ PQ!First = At[0] /\ At[0] \in Content
        /\ \A i \in 1 .. Top : At[i] # At[0]
    BY <2>2, <2>3, FirstIsRoot
  <2>5. Content = {At[i] : i \in 0 .. Top} /\ Content' = {At'[i] : i \in 0 .. Top'}
    <3>1. Indices = 0 .. Top /\ Indices' = 0 .. Top'
      BY <1>3, <2>1 DEF Indices, PushStates
    <3> QED BY <3>1, ContentIs, ContentNext DEF ContentAt
  <2>6. Content' = Content \ {At[0]}
    <3>1. \A i \in 0 .. Top : i = 0 \/ i \in 1 .. Top
      BY <2>2, <2>3
    <3>2. Content \ {At[0]} = {At[i] : i \in 1 .. Top}
      BY <2>4, <2>5, <3>1
    <3>3. \A i \in 1 .. Top : i \in 1 .. Top' \/ i = size - 1
      BY <2>2, <2>3
    <3>4. \A i \in 0 .. Top' : i \in 1 .. Top' \/ i = 0
      BY <2>2, <2>3
    <3>5. 0 \in 0 .. Top' /\ size - 1 \in 1 .. Top /\ \A i \in 1 .. Top' : i \in 1 .. Top /\ i \in 0 .. Top'
      BY <2>2, <2>3
    <3>6. {At'[i] : i \in 0 .. Top'} = {At[i] : i \in 1 .. Top}
      BY <2>2, <3>3, <3>4, <3>5
    <3> QED BY <2>5, <3>2, <3>6
  <2>7. /\ AbsPending = "OP_POP" /\ AbsPending' = "done" /\ AbsArg = NoNode /\ AbsArg' = NoNode
        /\ AbsAnswer' = At[0]
    BY <1>3, <2>1, <2>3 DEF AbsPending, AbsArg, AbsAnswer, RootOut, SiftStates, opVars
  <2>8. PQ!Pop
    BY <2>4, <2>6, <2>7 DEF PQ!Pop, AbsArg, AbsAnswer
  <2> QED BY <2>8 DEF AbsStep, PQ!Next
<1>4. CASE state = "S_PEEK_RD"
  <2>1. state' = "S_DONE" /\ opVars' = opVars
    BY <1>0, <1>4 DEF Complete, ReadParent, ReadRoot, ReadLast, ReadLeft, ReadRight, ReadPeek,
                      Written, Goto, opVars
  <2>2. size = 0 /\ saved_op = "OP_PEEK" /\ Same
    BY <1>0, <1>4, ReadEffect DEF IInv, RootInv, CommandInv
  <2>3. Content' = Content
    BY <1>4, <2>1, <2>2, SameContent DEF PushStates
  <2>4. Content = {}
    BY <1>4, <2>2 DEF Content, PushStates, SiftStates
  <2>5. AbsPending = "OP_PEEK" /\ AbsPending' = "done" /\ AbsArg = NoNode /\ AbsArg' = NoNode
    BY <1>4, <2>1, <2>2 DEF AbsPending, AbsArg, SiftStates, opVars
  <2>6. PQ!Peek
    BY <2>3, <2>4, <2>5 DEF PQ!Peek, AbsArg
  <2> QED BY <2>6 DEF AbsStep, PQ!Next
<1> QED BY <1>1, <1>2, <1>3, <1>4 DEF ReadStates

\* A completed write: the last one of a push adds the node.
LEMMA WriteRefines ==
  ASSUME SizesFit, OInv, OInv', NEW n, Delivered(n), state \in WriteStates
  PROVE  AbsStep
<1> USE HeapAssumption, MemoryAssumption
<1>0. IInv /\ SlotInv /\ HoleInv /\ CommandInv /\ KeysInv
  BY DEF OInv
<1>1. opVars' = opVars /\ cur_node' = cur_node /\ phase = "WAIT"
  BY WriteEffect DEF opVars, nodeVars, Delivered
<1>2. Top \in Int
  BY <1>0, TopRange
<1>3. CASE state = "S_PUSH_WR_DOWN"
  <2>1. /\ Swapped(target_idx, Parent(target_idx))
        /\ target_idx \in 1 .. Top /\ Parent(target_idx) \in 0 .. Top
        /\ target_idx' = Parent(target_idx) /\ state' = AfterWrDown
    BY <1>3, WriteEffect
  <2>2. state' \in {"S_PUSH_WR_FINAL", "S_PUSH_RD_PARENT"}
    BY <2>1 DEF AfterWrDown
  <2>3. Indices = (0 .. Top) \ {target_idx} /\ Indices' = (0 .. Top) \ {Parent(target_idx)}
    BY <1>3, <2>1, <2>2 DEF Indices, PushStates, Swapped
  <2>4. Content = {At[i] : i \in Indices} /\ Content' = {At'[i] : i \in Indices'}
    BY ContentIs, ContentNext DEF ContentAt
  <2>5. Content' = Content
    <3>1. target_idx \in 0 .. Top
      BY <1>2, <2>1
    <3> QED BY <2>1, <2>3, <2>4, <3>1, SwapSet DEF Swapped
  <2>6. AbsPending' = AbsPending /\ saved_op # "OP_PEEK"
    BY <1>0, <1>1, <1>3, <2>2 DEF AbsPending, PushStates, SiftStates, opVars, CommandInv
  <2> QED BY <1>1, <1>3, <2>2, <2>5, <2>6, Stutters
<1>4. CASE state = "S_POP_SIFT_WR_UP"
  <2>1. /\ Swapped(target_idx, BestIdx) /\ target_idx \in 0 .. Top /\ BestIdx \in 1 .. Top
        /\ state' = "S_POP_SIFT_RD_LEFT"
    BY <1>4, WriteEffect
  <2>2. Indices = 0 .. Top /\ Indices' = 0 .. Top
    BY <1>4, <2>1 DEF Indices, PushStates, Swapped
  <2>3. Content = {At[i] : i \in Indices} /\ Content' = {At'[i] : i \in Indices'}
    BY ContentIs, ContentNext DEF ContentAt
  <2>4. Content' = Content
    <3>1. BestIdx \in 0 .. Top
      BY <1>2, <2>1
    <3>2. /\ At'[target_idx] = At[BestIdx] /\ At'[BestIdx] = At[target_idx]
          /\ \A i \in 0 .. Top : i # target_idx /\ i # BestIdx => At'[i] = At[i]
      BY <2>1 DEF Swapped
    <3> QED BY <2>1, <2>2, <2>3, <3>1, <3>2, SwapSet
  <2>5. AbsPending' = AbsPending /\ saved_op # "OP_PEEK"
    BY <1>0, <1>4, <2>1 DEF AbsPending, SiftStates, CommandInv
  <2> QED BY <1>1, <1>4, <2>1, <2>4, <2>5, Stutters
<1>5. CASE state = "S_PUSH_WR_FINAL"
  <2>1. Same /\ state' = "S_DONE"
    BY <1>5, WriteEffect
  <2>2. /\ Air /\ target_idx \in 0 .. Top /\ saved_op = "OP_PUSH" /\ cur_node = saved_op_data
        /\ target_idx \in 0 .. IdxSpan - 1
    BY <1>0, <1>5, TopRange DEF HoleInv, Air, PushStates, CommandInv
  <2>3. At[target_idx] = saved_op_data
    BY <2>2, AtValue
  <2>4. Indices = (0 .. Top) \ {target_idx} /\ Indices' = 0 .. Top
    BY <1>5, <2>1 DEF Indices, PushStates, Same
  <2>5. Content = {At[i] : i \in Indices} /\ Content' = {At'[i] : i \in Indices'}
    BY ContentIs, ContentNext DEF ContentAt
  <2>6. Content' = Content \cup {saved_op_data}
    BY <2>1, <2>2, <2>3, <2>4, <2>5 DEF Same
  <2>7. /\ AbsPending = "OP_PUSH" /\ AbsPending' = "done"
        /\ AbsArg = saved_op_data /\ AbsArg' = saved_op_data
        /\ AbsAnswer = NoNode /\ AbsAnswer' = NoNode
    BY <1>1, <1>5, <2>1, <2>2 DEF AbsPending, AbsArg, AbsAnswer, SiftStates, opVars
  <2>8. PQ!Push
    BY <2>6, <2>7 DEF PQ!Push, AbsArg, AbsAnswer
  <2> QED BY <2>8 DEF AbsStep, PQ!Next
<1>6. CASE state \in {"S_POP_SIFT_WR_FINAL", "S_UPDATE_WR"}
  <2>1. Same /\ state' = "S_DONE"
    BY <1>6, WriteEffect
  <2>2. Content' = Content
    BY <1>6, <2>1, SameContent DEF PushStates
  <2>3. AbsPending' = AbsPending /\ saved_op # "OP_PEEK"
    BY <1>0, <1>1, <1>6, <2>1 DEF AbsPending, SiftStates, CommandInv
  <2> QED BY <1>1, <1>6, <2>1, <2>2, <2>3, Stutters
<1> QED BY <1>3, <1>4, <1>5, <1>6 DEF WriteStates

\* Every timely use of the heap is a step of the queue or none.
LEMMA UseRefines ==
  ASSUME SizesFit, OInv, OInv', TimelyUse
  PROVE  AbsStep
<1>1. CASE \/ PopCommand \/ PeekCommand \/ Finish
           \/ \E n \in Node : TimelyPush(n) \/ RootUpdate(n)
  BY <1>1, CommandRefines
<1>2. CASE Answer
  BY <1>2, IssueRefines DEF Answer
<1>3. CASE Step
  <2> USE <1>3 DEF Step
  <2>1. CASE Compute \/ NoChild
    BY <2>1, ComputeRefines
  <2>2. CASE IssuePriv \/ IssueVirt \/ VirtRetry
    BY <2>2, IssueRefines
  <2>3. CASE ReadCached \/ PrivDone \/ VirtDone
    <3>1. PICK n : Delivered(n)
      BY <2>3, Delivers
    <3>2. state \in ReadStates \cup WriteStates
      BY <3>1 DEF Delivered, Wanted
    <3> QED BY <3>1, <3>2, ReadRefines, WriteRefines
  <2> QED BY <2>1, <2>2, <2>3 DEF Busy
<1>4. CASE TimelyPass
  <2>1. /\ state' = state /\ phase' = phase /\ node_cache' = node_cache /\ opVars' = opVars
    BY <1>4 DEF TimelyPass, Pass, heapVars
  <2>2. Content' = Content
    BY <1>4, PassOrder
  <2>3. AbsPending' = AbsPending
    BY <2>1 DEF AbsPending, opVars
  <2> QED BY <2>1, <2>2, <2>3, Stutters
<1> QED BY <1>1, <1>2, <1>3, <1>4 DEF TimelyUse

\* Every step of the heap, a reset included, is a step of the queue or none.
LEMMA NextRefines ==
  ASSUME SizesFit
  PROVE  OInv /\ (Reset \/ OInv') /\ [Next]_vars => AbsStep
<1> SUFFICES ASSUME OInv, Reset \/ OInv', [Next]_vars PROVE AbsStep
  OBVIOUS
<1>1. CASE Reset
  <2>1. state' = "S_IDLE" /\ size' = 0
    BY <1>1 DEF Reset, HeapReset
  <2>2. Content' = {} /\ AbsPending' = "none" /\ AbsArg' = NoNode /\ AbsAnswer' = NoNode
    BY <2>1 DEF Content, AbsPending, AbsArg, AbsAnswer, PushStates, SiftStates
  <2>3. PQ!Reset
    BY <2>2 DEF PQ!Reset, AbsArg, AbsAnswer
  <2> QED BY <2>3 DEF AbsStep, PQ!Next
<1>2. CASE OInv' /\ ~Reset
  BY <1>2, UseRefines, NextIsTimely
<1> QED BY <1>1, <1>2

\* The initial heap is an empty queue.
LEMMA InitRefines == Init => PQ!Init
BY DEF Init, HeapInit, PQ!Init, Content, AbsPending, PushStates, SiftStates

-----------------------------------------------------------------------------
(* What a heap that is part of a system may be relied on for.               *)

\* n is the node the queue answers next.
Leads(n) == n \in Content /\ \A m \in Content \ {n} : Precedes(n, m)

\* The nodes are told apart by their timestamps, from which that of a node
\* being pushed differs too.
LEMMA ContentKeys ==
  ASSUME SizesFit, OInv
  PROVE  /\ \A n \in Content : n \in Node /\ n.ts < now_ts
         /\ \A m, n \in Content : m.ts = n.ts => m = n
         /\ state \in PushStates => \A n \in Content : n.ts # saved_op_data.ts
<1>1. Content = {At[i] : i \in Indices} /\ KeysInv /\ IInv /\ SlotInv /\ HoleInv /\ CommandInv
  BY ContentIs DEF ContentAt, OInv
<1>2. \A i \in Indices : i \in 0 .. Top
  BY DEF Indices
<1>3. \A i \in 0 .. Top :
        /\ At[i] \in Node /\ At[i].ts < now_ts
        /\ \A j \in 0 .. Top : At[i].ts = At[j].ts => i = j
  BY <1>1 DEF KeysInv
<1>4. ASSUME state \in PushStates PROVE \A n \in Content : n.ts # saved_op_data.ts
  <2>1. /\ target_idx \in 0 .. Top /\ target_idx \in 0 .. IdxSpan - 1
        /\ saved_op_data = cur_node /\ Air
    BY <1>1, <1>4, TopRange DEF HoleInv, Air, CommandInv
  <2>2. At[target_idx] = saved_op_data
    BY <2>1, AtValue
  <2>3. target_idx \notin Indices
    BY <1>4 DEF Indices
  <2> QED BY <1>1, <1>2, <1>3, <2>1, <2>2, <2>3
<1> QED BY <1>1, <1>2, <1>3, <1>4

\* Only one node leads.
LEMMA OneLeads ==
  ASSUME SizesFit, OInv, NEW n, Leads(n)
  PROVE  PQ!First = n /\ Content # {}
<1>1. ASSUME NEW k \in Content, \A m \in Content \ {k} : Precedes(k, m) PROVE k = n
  <2>1. SUFFICES ASSUME k # n PROVE FALSE
    OBVIOUS
  <2>2. Precedes(n, k) /\ Precedes(k, n) /\ n \in Node /\ k \in Node
    BY <1>1, <2>1, ContentKeys DEF Leads
  <2> QED BY <2>2, Comparator
<1>2. PQ!First = CHOOSE k \in Content : \A m \in Content \ {k} : Precedes(k, m)
  BY DEF PQ!First
<1> QED BY <1>1, <1>2 DEF Leads

\* Between two commands the root is cached and leads, and size counts.
LEMMA RestLeads ==
  ASSUME SizesFit, OInv, state \in {"S_IDLE", "S_DONE"}
  PROVE  /\ size = 0 <=> Content = {}
         /\ size > 0 => CacheHit(0) /\ Leads(node_cache[0])
<1> USE HeapAssumption, MemoryAssumption
<1>0. IInv /\ SlotInv /\ ~Air /\ size \in 0 .. IdxSpan - 1
  BY TopRange DEF OInv, Air, PushStates, SiftStates
<1>1. Content = {Mem(i) : i \in 0 .. size - 1}
  BY DEF Content, PushStates, SiftStates
<1>2. size = 0 <=> Content = {}
  BY <1>0, <1>1
<1>3. ASSUME size > 0 PROVE CacheHit(0) /\ Leads(node_cache[0])
  <2>1. CacheHit(0) /\ node_cache[0] = priv[0]
    BY <1>0, <1>3 DEF IInv, RootInv, CacheCoherent, SiftStates, WriteStates
  <2>2. At[0] = priv[0]
    BY <1>0, AtValue DEF Mem, IsPrivate
  <2>3. Leads(At[0])
    BY <1>0, <1>3, FirstIsRoot DEF Leads
  <2> QED BY <2>1, <2>2, <2>3
<1> QED BY <1>2, <1>3

\* What a command has pending when it was taken, and what its end, a late
\* answer and the passing of time leave alone.
LEMMA Called ==
  /\ \A n : CmdPush(n) => AbsPending' = "OP_PUSH" /\ saved_op' = "OP_PUSH" /\ saved_op_data' = n
  /\ CmdPop => AbsPending' = "OP_POP" /\ saved_op' = "OP_POP"
  /\ \A n : CmdUpdate(n) /\ CacheHit(0) /\ UpdateKeysOk(n) =>
       AbsPending' = "OP_UPDATE" /\ saved_op' = "OP_UPDATE" /\ saved_op_data' = n
  /\ Done => AbsPending = "done"
  /\ UNCHANGED heapVars => AbsPending' = AbsPending
BY DEF CmdPush, CmdPop, CmdUpdate, Done, Goto, AbsPending, SiftStates, heapVars, opVars

\* A dropped answer changes no node.
LEMMA AnswerKeeps ==
  ASSUME SizesFit, OInv, Answer
  PROVE  Content' = Content
<1>1. OInv' /\ Same
  BY PortOrder DEF Answer, Same
<1>2. state' = state /\ target_idx' = target_idx
  BY DEF Answer, LateAnswer, heapVars, idxVars
<1> QED BY <1>1, <1>2, SameContent

\* The effect a pending command has on the queue.
Effect ==
  CASE saved_op = "OP_PUSH"   -> Content' = Content \cup {saved_op_data}
    [] saved_op = "OP_POP"    -> \A n : Leads(n) => Content' = Content \ {n}
    [] saved_op = "OP_UPDATE" -> \A n : Leads(n) => Content' = (Content \ {n}) \cup {saved_op_data}
    [] OTHER                  -> Content' = Content

\* A step of a heap at work has no effect, or the whole effect of the command.
LEMMA StepEffect ==
  ASSUME SizesFit, OInv, OInv', Step
  PROVE  /\ state # "S_IDLE" /\ state' # "S_IDLE"
         /\ saved_op' = saved_op /\ saved_op_data' = saved_op_data
         /\ \/ Content' = Content /\ AbsPending' = AbsPending
            \/ AbsPending = saved_op /\ AbsPending' = "done" /\ Effect
<1>1. /\ state # "S_IDLE" /\ state' # "S_IDLE"
      /\ saved_op' = saved_op /\ saved_op_data' = saved_op_data
  BY StepStays DEF OInv
<1>2. saved_op \in {"OP_PUSH", "OP_POP", "OP_PEEK", "OP_UPDATE"}
  BY DEF OInv, IInv, TypeOK, HeapTypeOK
<1>3. AbsPending \in {"done", saved_op} /\ AbsPending' \in {"done", saved_op}
  BY <1>1 DEF AbsPending
<1>4. [PQ!Next]_(PQ!pqVars)
  BY UseRefines DEF AbsStep, TimelyUse
<1>5. CASE UNCHANGED PQ!pqVars
  BY <1>1, <1>5 DEF PQ!pqVars
<1>6. CASE PQ!Push
  BY <1>1, <1>2, <1>3, <1>6 DEF PQ!Push, Effect
<1>7. CASE PQ!Pop
  BY <1>1, <1>2, <1>3, <1>7, OneLeads DEF PQ!Pop, Effect
<1>8. CASE PQ!Peek
  BY <1>1, <1>2, <1>3, <1>8 DEF PQ!Peek, Effect
<1>9. CASE PQ!Update
  BY <1>1, <1>2, <1>3, <1>9, OneLeads DEF PQ!Update, Effect
<1>10. ~PQ!RefuseUpdate /\ ~PQ!Return /\ ~PQ!Reset /\ \A op : ~PQ!Call(op)
  BY <1>2, <1>3 DEF PQ!RefuseUpdate, PQ!Return, PQ!Reset, PQ!Call
<1> QED BY <1>1, <1>4, <1>5, <1>6, <1>7, <1>8, <1>9, <1>10 DEF PQ!Next

-----------------------------------------------------------------------------
(* The theorems.                                                            *)

\* Up to and including the first reset every step of the heap is a step of
\* PriorityQueue: nothing is lost or doubled, POP and PEEK answer the best node,
\* UPDATE changes that node and no other, for every size of the tiers.
THEOREM RefinesUntilReset ==
  ASSUME SizesFit
  PROVE  Spec => PQ!Init /\ [][resets = 0 => AbsStep]_vars
<1>1. BeforeReset /\ BeforeReset' /\ [Next]_vars => [resets = 0 => AbsStep]_vars
  <2> SUFFICES ASSUME BeforeReset, BeforeReset', [Next]_vars, resets = 0 PROVE AbsStep
    OBVIOUS
  <2>1. OInv
    BY DEF BeforeReset
  <2>2. Reset \/ OInv'
    BY <2>1, NextOrder
  <2> QED BY <2>1, <2>2, NextRefines
<1> QED BY <1>1, AlwaysOrder, InitRefines, PTL DEF Spec

\* The heap of a board that is never reset is a priority queue.
THEOREM HeapImplementsQueue ==
  ASSUME SizesFit, MaxResets = 0
  PROVE  Spec => ImplementsPriorityQueue
<1>1. Init => resets = 0
  BY DEF Init
<1>2. BeforeReset /\ resets = 0 /\ [Next]_vars => (resets = 0)' /\ AbsStep
  <2> SUFFICES ASSUME BeforeReset, resets = 0, [Next]_vars PROVE resets' = 0 /\ AbsStep
    OBVIOUS
  <2>1. ~Reset
    BY DEF Reset
  <2>2. resets' = 0
    BY <2>1 DEF Next, vars, PushCommand, PopCommand, PeekCommand, UpdateCommand, Finish,
                Step, Answer
  <2>3. OInv /\ OInv'
    BY <2>1, NextOrder DEF BeforeReset
  <2> QED BY <2>2, <2>3, NextRefines
<1>3. Spec => [](BeforeReset)
  BY AlwaysOrder
<1> QED BY <1>1, <1>2, <1>3, InitRefines, PTL DEF Spec, ImplementsPriorityQueue, PQ!Spec, AbsStep
=============================================================================
