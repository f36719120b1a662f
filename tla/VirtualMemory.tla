---------------------------- MODULE VirtualMemory ----------------------------
(***************************************************************************)
(* What the two heaps of one symbol engine see of the virtual memory tier: *)
(* the engine's single-in-flight port (symbol_engine.sv, "MMU port mux")   *)
(* and, behind it, the page table and the per-partition slot allocator of  *)
(* mmu.sv.  The queues, walkers, arbiter and banks between the port and    *)
(* the answer are abstracted to an arbitrary delay: a request is           *)
(* translated, served and answered in one step, any time after it was      *)
(* accepted.                                                               *)
(***************************************************************************)
EXTENDS Integers, FiniteSets

CONSTANTS
  PrivateNodes,  \* heap indices below this one are in the private BRAM (64)
  VaSpan,        \* virtual node indices of one heap: VA[9:0] (1024)
  Slots,         \* physical slots of one partition: 15 pages x 64 (960)
  NoNode         \* "no valid node here"

ASSUME MemoryAssumption ==
  /\ PrivateNodes \in Nat
  /\ VaSpan \in Nat \ {0}
  /\ Slots \in Nat

\* A heap node.  The type bit and the symbol of the 86-bit payload are the
\* same for every node of one heap and are left out.
Node == [price : Nat, ts : Nat, amount : Nat]

ASSUME NoNodeAssumption == NoNode \notin Node

\* VA[10]: the two heaps (partitions) of an engine.
Kinds == {"bid", "ask"}

Unmapped == -1
Vas == 0 .. VaSpan - 1

\* Nothing is in flight on the port.
NoReq == [op |-> "read", va |-> 0, wdata |-> NoNode]

VARIABLES
  mmu_owner,   \* heap whose request is in flight on the port, or "idle"
  mmu_req,     \* that request
  page_table,  \* slot each VA of each heap is mapped to
  alloc_ptr,   \* slots each partition has handed out since the last reset
  bank         \* contents of each partition's slots

memVars == <<mmu_owner, mmu_req, page_table, alloc_ptr, bank>>

MemoryTypeOK ==
  /\ mmu_owner \in Kinds \cup {"idle"}
  /\ mmu_req \in [op : {"read", "write"}, va : Vas, wdata : Node \cup {NoNode}]
  /\ page_table \in [Kinds -> [Vas -> (0 .. Slots - 1) \cup {Unmapped}]]
  /\ alloc_ptr \in [Kinds -> 0 .. Slots]
  /\ bank \in [Kinds -> [0 .. Slots - 1 -> Node \cup {NoNode}]]

MemoryInit ==
  /\ mmu_owner = "idle"
  /\ mmu_req = NoReq
  /\ page_table = [k \in Kinds |-> [va \in Vas |-> Unmapped]]
  /\ alloc_ptr = [k \in Kinds |-> 0]
  /\ bank = [k \in Kinds |-> [s \in 0 .. Slots - 1 |-> NoNode]]

IsPrivate(idx) == idx < PrivateNodes

\* make_va: the index is taken relative to the private tier and truncated.
MakeVa(idx) == (idx - PrivateNodes) % VaSpan

\* Mutant: the mux does not check that the port is free; the request is taken
\* behind the one in flight, whose answer comes first.
VirtAccept_NoOwnerCheck(k, op, idx, wdata) ==
  /\ mmu_owner' = k
  /\ mmu_req' = IF mmu_owner = "idle"
                THEN [op |-> op, va |-> MakeVa(idx), wdata |-> wdata] ELSE mmu_req
  /\ UNCHANGED <<page_table, alloc_ptr, bank>>

\* A request of heap k is granted the port (nothing else in flight) and the
\* MMU is ready to take it.
VirtAccept(k, op, idx, wdata) ==
  /\ mmu_owner = "idle"
  /\ mmu_owner' = k
  /\ mmu_req' = [op |-> op, va |-> MakeVa(idx), wdata |-> wdata]
  /\ UNCHANGED <<page_table, alloc_ptr, bank>>

\* The translation the walker finds, or the slot it allocates.
Mapped == page_table[mmu_owner][mmu_req.va] # Unmapped
Slot == IF Mapped THEN page_table[mmu_owner][mmu_req.va]
                  ELSE alloc_ptr[mmu_owner]
ServedData == bank[mmu_owner][Slot]

AllocNext == IF Mapped THEN alloc_ptr ELSE [alloc_ptr EXCEPT ![mmu_owner] = @ + 1]

\* The request in flight is answered with resp_valid.  A read of an address
\* that was never mapped allocates a slot too.
VirtServe ==
  /\ mmu_owner # "idle"
  /\ Mapped \/ alloc_ptr[mmu_owner] < Slots
  /\ page_table' = [page_table EXCEPT ![mmu_owner][mmu_req.va] = Slot]
  /\ alloc_ptr' = AllocNext
  /\ bank' = IF mmu_req.op = "write"
             THEN [bank EXCEPT ![mmu_owner][Slot] = mmu_req.wdata]
             ELSE bank
  /\ mmu_owner' = "idle"
  /\ mmu_req' = NoReq

\* The walker faults, its partition being full: resp_reject.
VirtReject ==
  /\ mmu_owner # "idle"
  /\ ~Mapped /\ alloc_ptr[mmu_owner] = Slots
  /\ mmu_owner' = "idle"
  /\ mmu_req' = NoReq
  /\ UNCHANGED <<page_table, alloc_ptr, bank>>

\* Reset drops the request and the allocation pointers; the page table and
\* the banks are RAM that reset does not touch.
MemoryReset ==
  /\ mmu_owner' = "idle"
  /\ mmu_req' = NoReq
  /\ alloc_ptr' = [k \in Kinds |-> 0]
  /\ UNCHANGED <<page_table, bank>>
=============================================================================
