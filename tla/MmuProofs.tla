----------------------------- MODULE MmuProofs -------------------------------
(***************************************************************************)
(* Theorems about Mmu, for every number of engines, banks and pages, every *)
(* depth of the queues and any programs: requests are neither lost nor     *)
(* doubled, only full partitions reject, and a read returns the last write.*)
(***************************************************************************)
EXTENDS Mmu, FiniteSetTheorems, WellFoundedInduction, TLAPS

-----------------------------------------------------------------------------
(* The invariant.                                                           *)

Reqs == [key : Keys, wr : BOOLEAN, data : Nat]
Pas == (0 .. NumBanks * PagesPerBank - 1) \X (0 .. NodesPerPage - 1)
Locals == (0 .. PagesPerBank - 1) \X (0 .. NodesPerPage - 1)

WalkerRegs ==
  [st : {"IDLE", "LOOKUP", "ALLOCATE", "DONE", "FAULT"}, req : Reqs \cup {NoRequest},
   rdata : Pas \cup {NoSlot}, pa : Pas \cup {NoSlot}]
SlotRegs == [page : 0 .. PagesPerPartition - 1, node : 0 .. NodesPerPage - 1, full : BOOLEAN]
Entries == [req : Reqs, pa : Pas]
BankRegs ==
  [st : {"IDLE", "PHASE_0", "PHASE_1", "PHASE_2", "DONE_READ"}, wr : BOOLEAN,
   at : Locals \cup {NoSlot}, data : Nat, read : Seq(Nat), valid : BOOLEAN,
   wdone : BOOLEAN, rdata : Seq(Nat)]
Answers == [valid : BOOLEAN, e : Engines, data : Seq(Nat)]

EngineTypes ==
  /\ port \in [Engines -> {"idle", "req", "wait"}]
  /\ ip \in [Engines -> Nat] /\ \A e \in Engines : ip[e] \in 1 .. Len(Program[e])
  /\ rr_pointer \in Engines

WalkerTypes ==
  /\ fifo_in \in [Walkers -> Seq(Reqs)]
  /\ ptw \in [Walkers -> WalkerRegs]
  /\ \A w \in Walkers : /\ ptw[w].st # "IDLE" => ptw[w].req \in Reqs
                        /\ ptw[w].st = "DONE" => ptw[w].pa \in Pas
  /\ rr_priority \in Walkers

TableTypes ==
  /\ next_slot \in [Partitions -> SlotRegs]
  /\ DOMAIN page_table \subseteq Keys
  /\ page_table \in [DOMAIN page_table -> Pas]

BankTypes ==
  /\ bank_fifo \in [Banks -> Seq(Entries)]
  /\ va_fifo \in [Banks -> Seq(Engines)]
  /\ bank \in [Banks -> BankRegs]
  /\ \A b \in Banks : bank[b].st # "IDLE" => bank[b].at \in Locals
  /\ resp_buf \in [Banks -> Answers]

RamTypes ==
  /\ ram \in [Banks -> [Locals -> [Words -> Nat]]]
  /\ written \in [Keys -> Nat]

Types == EngineTypes /\ WalkerTypes /\ TableTypes /\ BankTypes /\ RamTypes

\* A place stays free for the request a busy walker may send back.
RoomInv ==
  /\ \A w \in Walkers :
       Len(fifo_in[w]) <= IF ptw[w].st = "IDLE" THEN InDepth ELSE InDepth - 1
  /\ \A b \in Banks : Len(bank_fifo[b]) <= BankDepth

\* A bank has one access at a time, and its answer buffer is free when it is
\* through with it: the head of the tracking FIFO is whom the answer is for.
BankInv ==
  \A b \in Banks :
    /\ Completes(b) => bank[b].st = "IDLE" /\ ~ resp_buf[b].valid
    /\ ~ (bank[b].valid /\ bank[b].wdone)
    /\ resp_buf[b].valid => bank[b].st \in {"IDLE", "PHASE_0"}
    /\ bank[b].st = "DONE_READ" => ~ bank[b].wr
    /\ Len(va_fifo[b]) = IF bank[b].st # "IDLE" \/ Completes(b) THEN 1 ELSE 0

\* Where the request of engine e is.
InInput(e, w, i) == i \in 1 .. Len(fifo_in[w]) /\ fifo_in[w][i].key[1] = e
InWalker(e, w) == ptw[w].st # "IDLE" /\ ptw[w].req.key[1] = e
InQueue(e, b, i) == i \in 1 .. Len(bank_fifo[b]) /\ bank_fifo[b][i].req.key[1] = e
InBank(e, b) == Len(va_fifo[b]) = 1 /\ va_fifo[b][1] = e
InAnswer(e, b) == resp_buf[b].valid /\ resp_buf[b].e = e

NoInput(e) == \A w \in Walkers : \A i \in 1 .. Len(fifo_in[w]) : ~ InInput(e, w, i)
NoWalker(e) == \A w \in Walkers : ~ InWalker(e, w)
NoQueue(e) == \A b \in Banks : \A i \in 1 .. Len(bank_fifo[b]) : ~ InQueue(e, b, i)
NoBank(e) == \A b \in Banks : ~ InBank(e, b)
NoAnswerFor(e) == \A b \in Banks : ~ InAnswer(e, b)

OnlyInput(e) ==
  /\ NoWalker(e) /\ NoQueue(e) /\ NoBank(e) /\ NoAnswerFor(e)
  /\ \E w \in Walkers : \E i \in 1 .. Len(fifo_in[w]) :
       /\ InInput(e, w, i)
       /\ \A v \in Walkers : \A j \in 1 .. Len(fifo_in[v]) : InInput(e, v, j) => v = w /\ j = i
OnlyWalker(e) ==
  /\ NoInput(e) /\ NoQueue(e) /\ NoBank(e) /\ NoAnswerFor(e)
  /\ \E w \in Walkers : InWalker(e, w) /\ \A v \in Walkers : InWalker(e, v) => v = w
OnlyQueue(e) ==
  /\ NoInput(e) /\ NoWalker(e) /\ NoBank(e) /\ NoAnswerFor(e)
  /\ \E b \in Banks : \E i \in 1 .. Len(bank_fifo[b]) :
       /\ InQueue(e, b, i)
       /\ \A c \in Banks : \A j \in 1 .. Len(bank_fifo[c]) : InQueue(e, c, j) => c = b /\ j = i
OnlyBank(e) ==
  /\ NoInput(e) /\ NoWalker(e) /\ NoQueue(e) /\ NoAnswerFor(e)
  /\ \E b \in Banks : InBank(e, b) /\ \A c \in Banks : InBank(e, c) => c = b
OnlyAnswer(e) ==
  /\ NoInput(e) /\ NoWalker(e) /\ NoQueue(e) /\ NoBank(e)
  /\ \E b \in Banks : InAnswer(e, b) /\ \A c \in Banks : InAnswer(e, c) => c = b
Nowhere(e) == NoInput(e) /\ NoWalker(e) /\ NoQueue(e) /\ NoBank(e) /\ NoAnswerFor(e)
Somewhere(e) == OnlyInput(e) \/ OnlyWalker(e) \/ OnlyQueue(e) \/ OnlyBank(e) \/ OnlyAnswer(e)

\* RequestsKept, place by place.
KeptInv == \A e \in Engines : IF port[e] = "wait" THEN Somewhere(e) ELSE Nowhere(e)

\* What is in a place is what the engine asked for.
SameInv ==
  /\ \A w \in Walkers : \A i \in 1 .. Len(fifo_in[w]) :
       fifo_in[w][i] = Request(fifo_in[w][i].key[1])
  /\ \A w \in Walkers : ptw[w].st # "IDLE" => ptw[w].req = Request(ptw[w].req.key[1])
  /\ \A b \in Banks : \A i \in 1 .. Len(bank_fifo[b]) :
       bank_fifo[b][i].req = Request(bank_fifo[b][i].req.key[1])

\* What a walker read from the page table is still true when it uses it.
WalkInv ==
  \A w \in Walkers :
    LET t == ptw[w] IN
    /\ t.st = "LOOKUP" =>
         t.rdata = IF t.req.key \in DOMAIN page_table THEN page_table[t.req.key] ELSE NoSlot
    /\ t.st = "ALLOCATE" => t.req.key \notin DOMAIN page_table
    /\ t.st = "DONE" => t.req.key \in DOMAIN page_table /\ t.pa = page_table[t.req.key]
    /\ t.st = "FAULT" => /\ t.req.key \notin DOMAIN page_table
                         /\ next_slot[Partition(t.req.key)].full

FlowInv == RoomInv /\ BankInv /\ KeptInv /\ SameInv /\ WalkInv

\* Slot <<page, node>> of a partition was handed out.
Below(s, page, node) == s.full \/ page < s.page \/ (page = s.page /\ node < s.node)

\* A mapped address has a slot of its own, handed out by its partition.
SlotInv ==
  /\ \A k \in DOMAIN page_table : \E page \in 0 .. PagesPerPartition - 1 :
       /\ page_table[k][1] = Partition(k) * PagesPerPartition + page
       /\ Below(next_slot[Partition(k)], page, page_table[k][2])
  /\ \A k, l \in DOMAIN page_table : page_table[k] = page_table[l] => k = l

BankOf(pa) == pa[1] \div PagesPerBank

\* Queued accesses have their slots and are in the right queue.
QueueInv ==
  \A b \in Banks : \A i \in 1 .. Len(bank_fifo[b]) :
    LET q == bank_fifo[b][i] IN
    q.req.key \in DOMAIN page_table /\ q.pa = page_table[q.req.key] /\ BankOf(q.pa) = b

\* Bank b serves the request of engine e.
ServesReq(b, e) ==
  LET r == Request(e) IN
  /\ r.key \in DOMAIN page_table /\ BankOf(page_table[r.key]) = b
  /\ bank[b].st # "IDLE" =>
       /\ bank[b].wr = r.wr /\ bank[b].data = r.data
       /\ bank[b].at = LocalSlot(b, page_table[r.key])
  /\ Completes(b) => bank[b].wdone = r.wr

\* n words of key k were read, all as last written.
ReadSoFar(s, n, k) == Len(s) = n /\ \A i \in 1 .. n : s[i] = written[k]

ReadInv ==
  \A b \in Banks :
    /\ Len(va_fifo[b]) = 1 =>
         LET e == va_fifo[b][1] IN
         /\ ServesReq(b, e)
         /\ InPhase(b) /\ ~ bank[b].wr => ReadSoFar(bank[b].read, Phase(bank[b].st), Request(e).key)
         /\ bank[b].st = "DONE_READ" => ReadSoFar(bank[b].read, 3, Request(e).key)
         /\ bank[b].valid => ReadSoFar(bank[b].rdata, 3, Request(e).key)
    /\ resp_buf[b].valid =>
         LET r == Request(resp_buf[b].e) IN
         r.key \in DOMAIN page_table /\ (~ r.wr => ReadSoFar(resp_buf[b].data, 3, r.key))

\* Bank b has put word x of key k into the RAM, the engine's write being under way.
WordDone(b, k, x) ==
  /\ Request(k[1]).wr /\ Request(k[1]).key = k
  /\ \/ InBank(k[1], b) /\ (Completes(b) \/ (InPhase(b) /\ x < Phase(bank[b].st)))
     \/ InAnswer(k[1], b)

\* The RAM at the slot of key k.
Stored(k, x) ==
  LET b == BankOf(page_table[k]) IN ram[b][LocalSlot(b, page_table[k])][x]

\* The RAM holds what was written last, or what is being written; a slot that was
\* not handed out holds zeros.
RamInv ==
  /\ \A k \in DOMAIN page_table : \A x \in Words :
       Stored(k, x) = IF \E b \in Banks : WordDone(b, k, x) THEN Request(k[1]).data ELSE written[k]
  /\ \A k \in Keys \ DOMAIN page_table : written[k] = 0
  /\ \A b \in Banks : \A a \in Locals :
       (\A k \in DOMAIN page_table : BankOf(page_table[k]) = b => LocalSlot(b, page_table[k]) # a)
         => \A x \in Words : ram[b][a][x] = 0

MemInv == SlotInv /\ QueueInv /\ ReadInv /\ RamInv

IInv == Types /\ FlowInv /\ MemInv

-----------------------------------------------------------------------------
(* Keys, requests, and the engines the arbitration picks.                   *)

LEMMA Sizes ==
  /\ NumEngines \in Nat \ {0} /\ InDepth \in Nat \ {0, 1} /\ BankDepth \in Nat \ {0}
  /\ TrackDepth \in Nat \ {0} /\ NumBanks \in Nat \ {0} /\ PagesPerBank \in Nat \ {0}
  /\ PagesPerPartition \in Nat \ {0} /\ NodesPerPage \in Nat \ {0}
BY MmuAssumption

\* A key belongs to an engine, and only keys of one engine share a partition.
LEMMA KeyFacts ==
  /\ \A k \in Keys : k[1] \in Engines /\ k[2] \in {0, 1} /\ Partition(k) \in Partitions
  /\ \A k, l \in Keys : Partition(k) = Partition(l) => k[1] = l[1]
<1>1. ASSUME NEW k \in Keys PROVE k[1] \in Engines /\ k[2] \in {0, 1}
  <2>1. PICK e \in Engines : \E i \in 1 .. Len(Program[e]) :
          k = <<e, Program[e][i].k, Program[e][i].idx>>
    BY DEF Keys
  <2>2. PICK i \in 1 .. Len(Program[e]) : k = <<e, Program[e][i].k, Program[e][i].idx>>
    BY <2>1
  <2>3. Program[e][i] \in Steps
    BY MmuAssumption
  <2> QED BY <2>2, <2>3 DEF Steps
<1>2. \A k \in Keys : Partition(k) \in Partitions
  <2> SUFFICES ASSUME NEW k \in Keys PROVE 2 * k[1] + k[2] \in 0 .. 2 * NumEngines - 1
    BY DEF Partition, Partitions
  <2>1. k[1] \in 0 .. NumEngines - 1 /\ k[2] \in {0, 1}
    BY <1>1 DEF Engines
  <2> QED BY ONLY <2>1, Sizes
<1>3. ASSUME NEW k \in Keys, NEW l \in Keys, Partition(k) = Partition(l) PROVE k[1] = l[1]
  <2>1. k[1] \in Int /\ k[2] \in {0, 1} /\ l[1] \in Int /\ l[2] \in {0, 1}
    BY <1>1, Sizes DEF Engines
  <2>2. 2 * k[1] + k[2] = 2 * l[1] + l[2]
    BY <1>3 DEF Partition
  <2> QED BY ONLY <2>1, <2>2
<1> QED BY <1>1, <1>2, <1>3

\* An engine asks for its own keys.
LEMMA RequestFacts ==
  ASSUME EngineTypes, NEW e \in Engines
  PROVE  Request(e) \in Reqs /\ Request(e).key[1] = e /\ Request(e).key \in Keys
<1>1. ip[e] \in 1 .. Len(Program[e]) /\ Program[e] \in Seq(Steps)
  BY MmuAssumption DEF EngineTypes
<1>2. Program[e][ip[e]] \in Steps
  BY <1>1
<1> DEFINE p == Program[e][ip[e]]
<1>3. <<e, p.k, p.idx>> \in Keys
  BY <1>1 DEF Keys
<1>4. p.wr \in BOOLEAN /\ p.data \in Nat
  BY <1>2 DEF Steps
<1>5. Request(e) = [key |-> <<e, p.k, p.idx>>, wr |-> p.wr, data |-> p.data]
  BY DEF Request
<1> HIDE DEF p
<1> QED BY <1>3, <1>4, <1>5 DEF Reqs

LEMMA ModRange == \A x \in Int : \A n \in Nat \ {0} : x % n \in 0 .. n - 1
OBVIOUS

\* The round-robin scan finds one of those who ask.
LEMMA ScanFinds ==
  ASSUME NEW r \in Engines, NEW S \in SUBSET Engines, S # {}
  PROVE  NextFrom(r, S) \in S
<1> DEFINE D(e) == (e - r) % NumEngines
           T == {D(e) : e \in S}
<1>1. T \subseteq Nat /\ T # {} /\ \A e \in S : D(e) \in Nat
  <2>1. \A e \in S : e - r \in Int /\ NumEngines \in Nat \ {0}
    BY Sizes DEF Engines
  <2>2. \A e \in S : D(e) \in 0 .. NumEngines - 1
    BY ONLY <2>1, ModRange
  <2>3. \A e \in S : D(e) \in Nat
    BY ONLY <2>1, <2>2
  <2> HIDE DEF D
  <2> QED BY <2>3
<1>2. PICK x \in T : \A y \in T : ~(<<y, x>> \in OpToRel(<, Nat))
  <2> HIDE DEF T
  <2> QED BY <1>1, NatLessThanWellFounded, WFMin
<1>3. \A y \in T : ~(y < x)
  <2>1. OpToRel(<, Nat) = {ss \in Nat \X Nat : ss[1] < ss[2]}
    BY Zenon DEF OpToRel
  <2>2. SUFFICES ASSUME NEW y \in T, y < x PROVE <<y, x>> \in OpToRel(<, Nat)
    BY <1>2
  <2>3. <<y, x>> \in Nat \X Nat /\ <<y, x>>[1] < <<y, x>>[2]
    BY <1>1, <2>2
  <2> QED BY ONLY <2>1, <2>3
<1>4. PICK e \in S : D(e) = x
  OBVIOUS
<1>5. \A f \in S : D(f) \in T /\ D(f) \in Nat
  BY <1>1
<1>6. \A f \in S : D(e) <= D(f)
  <2> HIDE DEF D, T
  <2> QED BY <1>1, <1>3, <1>4, <1>5
<1> QED BY <1>4, <1>6 DEF NextFrom

\* Who is taken asked, and two who are taken differ.
LEMMA Winners ==
  ASSUME EngineTypes
  PROVE  /\ AcceptFirst => First \in Engines /\ port[First] = "req"
         /\ AcceptSecond => /\ AcceptFirst /\ Second \in Engines /\ port[Second] = "req"
                            /\ Second # First
<1>1. Asking \in SUBSET Engines /\ rr_pointer \in Engines
  BY DEF Asking, EngineTypes
<1>2. Asking # {} => First \in Asking
  BY <1>1, ScanFinds DEF First
<1>3. ASSUME Asking # {}, Asking \ {First} = {} PROVE Cardinality(Asking) = 1
  <2>1. Asking = {First}
    BY <1>2, <1>3
  <2> QED BY <2>1, FS_Singleton
<1>4. AcceptSecond => Asking \ {First} # {}
  BY <1>3 DEF AcceptSecond, AcceptFirst
<1>5. AcceptSecond => Second \in Asking \ {First}
  BY <1>1, <1>4, ScanFinds DEF Second
<1> QED BY <1>2, <1>5 DEF Asking, AcceptFirst, AcceptSecond

-----------------------------------------------------------------------------
(* Sequences and slots.                                                     *)

LEMMA TailFacts ==
  ASSUME NEW S, NEW s \in Seq(S), s # << >>
  PROVE  /\ Tail(s) \in Seq(S) /\ Len(s) \in Nat \ {0} /\ Len(Tail(s)) = Len(s) - 1
         /\ \A i \in 1 .. Len(s) - 1 : Tail(s)[i] = s[i + 1]
         /\ Head(s) = s[1] /\ s[1] \in S
OBVIOUS

LEMMA JoinOne ==
  ASSUME NEW S, NEW s \in Seq(S), NEW x \in S
  PROVE  /\ s \o <<x>> \in Seq(S) /\ Len(s \o <<x>>) = Len(s) + 1
         /\ \A i \in 1 .. Len(s) : (s \o <<x>>)[i] = s[i]
         /\ (s \o <<x>>)[Len(s) + 1] = x
OBVIOUS

LEMMA JoinNone ==
  ASSUME NEW S, NEW s \in Seq(S)
  PROVE  s \o << >> = s
OBVIOUS

LEMMA JoinFacts ==
  ASSUME NEW S, NEW s \in Seq(S), NEW t \in Seq(S)
  PROVE  /\ s \o t \in Seq(S) /\ Len(s \o t) = Len(s) + Len(t)
         /\ \A i \in 1 .. Len(s) : (s \o t)[i] = s[i]
         /\ \A i \in 1 .. Len(t) : (s \o t)[Len(s) + i] = t[i]
OBVIOUS

\* The pages of a partition are visible pages, and no other partition's.
LEMMA PageRange ==
  ASSUME NEW p \in Partitions, NEW page \in 0 .. PagesPerPartition - 1
  PROVE  p * PagesPerPartition + page \in 0 .. NumBanks * PagesPerBank - 1
<1> DEFINE P == PagesPerPartition
           d == 2 * NumEngines - 1 - p
<1>1. P \in Nat \ {0} /\ p \in Nat /\ d \in Nat /\ NumEngines \in Nat
  BY Sizes DEF Partitions
<1>2. d * P \in Nat /\ p * P \in Nat
  BY <1>1
<1>3. d * P = 2 * NumEngines * P - P - p * P
  BY <1>1
<1>4. NumBanks * PagesPerBank \in Nat /\ NumBanks * PagesPerBank >= 2 * NumEngines * P
  BY MmuAssumption
<1>5. 2 * NumEngines * P \in Nat /\ page \in 0 .. P - 1
  BY <1>1
<1> HIDE DEF d, P
<1> QED
  <2> DEFINE a == d * P
             c == p * P
             m == 2 * NumEngines * P
             n == NumBanks * PagesPerBank
  <2>1. a \in Nat /\ c \in Nat /\ m \in Nat /\ n \in Nat /\ a = m - P - c /\ n >= m
        /\ page \in 0 .. P - 1 /\ P \in Nat \ {0}
    BY <1>1, <1>2, <1>3, <1>4, <1>5
  <2> HIDE DEF a, c, m, n
  <2>2. c + page \in 0 .. n - 1
    BY ONLY <2>1
  <2> QED BY <2>2 DEF c, n, P

LEMMA PagesApart ==
  ASSUME NEW p \in Partitions, NEW q \in Partitions,
         NEW x \in 0 .. PagesPerPartition - 1, NEW y \in 0 .. PagesPerPartition - 1,
         p * PagesPerPartition + x = q * PagesPerPartition + y
  PROVE  p = q /\ x = y
<1>1. ASSUME NEW P \in Nat \ {0}, NEW i \in Nat, NEW j \in Nat, i < j,
             NEW u \in 0 .. P - 1, NEW v \in 0 .. P - 1
      PROVE  i * P + u # j * P + v
  <2>1. j - i - 1 \in Nat /\ (j - i - 1) * P \in Nat
    BY <1>1
  <2>2. (j - i - 1) * P = j * P - i * P - P /\ i * P \in Nat /\ j * P \in Nat
    BY <1>1
  <2> QED BY <1>1, <2>1, <2>2
<1>2. PagesPerPartition \in Nat \ {0} /\ p \in Nat /\ q \in Nat
  BY Sizes DEF Partitions
<1>3. p = q
  BY <1>1, <1>2
<1>4. p * PagesPerPartition \in Nat
  BY <1>2
<1> QED BY <1>3, <1>4, <1>2

LEMMA DivFacts ==
  ASSUME NEW n \in Nat \ {0}, NEW m \in Nat \ {0}, NEW x \in 0 .. m * n - 1
  PROVE  x \div n \in 0 .. m - 1 /\ x - (x \div n) * n \in 0 .. n - 1
<1> DEFINE b == x \div n
<1>0. m * n \in Nat
  OBVIOUS
<1>1. x \in Nat /\ x < m * n
  BY <1>0
<1>2. b \in Int /\ x = n * b + (x % n) /\ x % n \in 0 .. n - 1
  BY <1>1
<1>3. n * b = b * n
  BY <1>2
<1> HIDE DEF b
<1>4. b >= 0
  <2>1. SUFFICES ASSUME b < 0 PROVE FALSE
    BY <1>2
  <2>2. -b - 1 \in Nat /\ n * (-b - 1) \in Nat
    BY <1>2, <2>1
  <2>3. n * (-b - 1) = 0 - n * b - n /\ n * b \in Int
    BY <1>2
  <2> QED BY <1>1, <1>2, <2>2, <2>3
<1>5. b <= m - 1
  <2>1. SUFFICES ASSUME b >= m PROVE FALSE
    BY <1>2
  <2>2. b - m \in Nat /\ n * (b - m) \in Nat
    BY <1>2, <2>1
  <2>3. n * (b - m) = n * b - m * n /\ n * b \in Int /\ m * n \in Int
    BY <1>2
  <2> QED BY <1>1, <1>2, <2>2, <2>3
<1>6. x - b * n = x % n
  <2>1. PICK y \in Int : y = n * b /\ y = b * n
    BY <1>2, <1>3
  <2>2. PICK z \in Int : z = x % n
    BY <1>2
  <2>3. x = y + z /\ x \in Int
    BY <1>1, <1>2, <2>1, <2>2
  <2>4. x - y = z
    BY ONLY <2>3
  <2> QED BY ONLY <2>1, <2>2, <2>4
<1> QED BY <1>2, <1>4, <1>5, <1>6 DEF b

\* The bank of a slot and the address in it: the clamp of BankId is never
\* needed, and different slots are different places.
LEMMA PlaceFacts ==
  /\ \A pa \in Pas : BankOf(pa) \in Banks /\ LocalSlot(BankOf(pa), pa) \in Locals
  /\ \A pa, qa \in Pas : \A b \in Banks : LocalSlot(b, pa) = LocalSlot(b, qa) => pa = qa
<1>1. ASSUME NEW pa \in Pas PROVE BankOf(pa) \in Banks /\ LocalSlot(BankOf(pa), pa) \in Locals
  <2>1. pa[1] \in 0 .. NumBanks * PagesPerBank - 1 /\ pa[2] \in 0 .. NodesPerPage - 1
    BY DEF Pas
  <2>2. /\ pa[1] \div PagesPerBank \in 0 .. NumBanks - 1
        /\ pa[1] - (pa[1] \div PagesPerBank) * PagesPerBank \in 0 .. PagesPerBank - 1
    BY ONLY <2>1, Sizes, DivFacts
  <2> QED BY <2>1, <2>2 DEF BankOf, Banks, LocalSlot, Locals
<1>2. ASSUME NEW pa \in Pas, NEW qa \in Pas, NEW b \in Banks,
             LocalSlot(b, pa) = LocalSlot(b, qa)
      PROVE  pa = qa
  <2>1. pa[1] - b * PagesPerBank = qa[1] - b * PagesPerBank /\ pa[2] = qa[2]
    BY <1>2 DEF LocalSlot
  <2>2. b * PagesPerBank \in Int
    BY Sizes DEF Banks
  <2>3. pa[1] \in Int /\ qa[1] \in Int
    BY DEF Pas
  <2>4. pa[1] = qa[1]
    BY ONLY <2>1, <2>2, <2>3
  <2> QED BY <2>1, <2>4 DEF Pas
<1> QED BY <1>1, <1>2

-----------------------------------------------------------------------------
(* What an edge does to a walker and to its input FIFO.                     *)

LEMMA AllocRange ==
  ASSUME Types, NEW w \in Walkers, ptw[w].st # "IDLE"
  PROVE  /\ ptw[w].req \in Reqs /\ ptw[w].req.key \in Keys
         /\ Partition(ptw[w].req.key) \in Partitions
         /\ AllocSlot(w) \in Pas
<1>1. ptw[w].req \in Reqs
  BY DEF Types, WalkerTypes
<1>2. ptw[w].req.key \in Keys
  BY <1>1 DEF Reqs
<1>3. PICK p \in Partitions : p = Partition(ptw[w].req.key)
  BY <1>2, KeyFacts
<1>4. next_slot[p] \in SlotRegs
  BY <1>3 DEF Types, TableTypes
<1>5. next_slot[p].page \in 0 .. PagesPerPartition - 1 /\ next_slot[p].node \in 0 .. NodesPerPage - 1
  BY <1>4 DEF SlotRegs
<1>6. p * PagesPerPartition + next_slot[p].page \in 0 .. NumBanks * PagesPerBank - 1
  BY <1>5, PageRange
<1>7. AllocSlot(w) = <<p * PagesPerPartition + next_slot[p].page, next_slot[p].node>>
  BY <1>3 DEF AllocSlot
<1> QED BY <1>1, <1>2, <1>3, <1>5, <1>6, <1>7 DEF Pas

\* The walk of a walker, edge by edge.
LEMMA WalkerStep ==
  ASSUME Types, NEW w \in Walkers, NEW t, t = ptw[w], NEW u, u = WalkerNext(w)
  PROVE  /\ Pop(w) => /\ t.st = "IDLE" /\ u.st = "LOOKUP" /\ u.req = fifo_in[w][1]
                      /\ u.req \in Reqs /\ fifo_in[w] # << >>
                      /\ u.rdata = IF u.req.key \in DOMAIN page_table
                                   THEN page_table[u.req.key] ELSE NoSlot
         /\ t.st = "IDLE" /\ ~ Pop(w) => u.st = "IDLE" /\ fifo_in[w] = << >>
         /\ t.st = "LOOKUP" => /\ u.req = t.req
                               /\ t.rdata # NoSlot => u.st = "DONE" /\ u.pa = t.rdata
                               /\ t.rdata = NoSlot => u.st = "ALLOCATE"
         /\ t.st = "ALLOCATE" => /\ u.req = t.req
                                 /\ AllocAvail(w) => u.st = "DONE" /\ u.pa = AllocSlot(w)
                                 /\ ~ AllocAvail(w) => u.st = "FAULT"
         /\ t.st \in {"DONE", "FAULT"} => u.st = "IDLE"
         /\ u \in WalkerRegs /\ (u.st = "DONE" => u.pa \in Pas) /\ (u.st # "IDLE" => u.req \in Reqs)
<1>1. t \in WalkerRegs /\ fifo_in[w] \in Seq(Reqs)
  BY DEF Types, WalkerTypes
<1>2. t.st # "IDLE" => t.req \in Reqs
  BY DEF Types, WalkerTypes
<1>3. CASE Pop(w)
  <2>1. fifo_in[w] # << >> /\ t.st = "IDLE"
    BY <1>3 DEF Pop
  <2>2. PICK r \in Reqs : r = Head(fifo_in[w]) /\ r = fifo_in[w][1]
    BY <1>1, <2>1, TailFacts
  <2>3. PICK d : d = IF r.key \in DOMAIN page_table THEN page_table[r.key] ELSE NoSlot
    OBVIOUS
  <2>4. d \in Pas \cup {NoSlot}
    BY <2>3 DEF Types, TableTypes
  <2>5. u = [t EXCEPT !.st = "LOOKUP", !.req = r, !.rdata = d]
    <3>1. u = LET h == Head(fifo_in[w])
              IN  [t EXCEPT !.st = "LOOKUP", !.req = h,
                            !.rdata = IF h.key \in DOMAIN page_table THEN page_table[h.key]
                                      ELSE NoSlot]
      BY <1>3, <2>1 DEF WalkerNext, Pop
    <3> QED BY <2>2, <2>3, <3>1
  <2> QED BY <1>1, <1>3, <2>1, <2>2, <2>3, <2>4, <2>5 DEF WalkerRegs
<1>4. CASE t.st = "IDLE" /\ ~ Pop(w)
  <2>1. u = t
    BY <1>4 DEF WalkerNext
  <2> QED BY <1>1, <1>4, <2>1 DEF Pop
<1>5. CASE t.st = "LOOKUP"
  <2>1. u = IF t.rdata # NoSlot THEN [t EXCEPT !.st = "DONE", !.pa = t.rdata]
            ELSE [t EXCEPT !.st = "ALLOCATE"]
    BY <1>5 DEF WalkerNext, Pop
  <2>2. ~ Pop(w)
    BY <1>5 DEF Pop
  <2> QED BY <1>1, <1>2, <1>5, <2>1, <2>2 DEF WalkerRegs
<1>6. CASE t.st = "ALLOCATE"
  <2>1. u = IF AllocAvail(w) THEN [t EXCEPT !.st = "DONE", !.pa = AllocSlot(w)]
            ELSE [t EXCEPT !.st = "FAULT"]
    BY <1>6 DEF WalkerNext, Pop
  <2>2. ~ Pop(w)
    BY <1>6 DEF Pop
  <2>3. PICK a \in Pas : a = AllocSlot(w)
    BY <1>6, AllocRange
  <2> QED BY <1>1, <1>2, <1>6, <2>1, <2>2, <2>3 DEF WalkerRegs
<1>7. CASE t.st \in {"DONE", "FAULT"}
  <2>1. u = IdleWalker
    BY <1>7 DEF WalkerNext, Pop
  <2>2. ~ Pop(w)
    BY <1>7 DEF Pop
  <2> QED BY <1>1, <1>7, <2>1, <2>2 DEF WalkerRegs, IdleWalker
<1> QED BY <1>1, <1>3, <1>4, <1>5, <1>6, <1>7 DEF WalkerRegs

\* The input FIFO that an engine is taken to.
To(e) == IF e = First THEN FirstTo ELSE 1 - FirstTo

\* What is written to an input FIFO: the request that comes back, or that of an
\* engine that is taken, and there is room for it.
LEMMA Sent ==
  ASSUME Types, RoomInv
  PROVE  /\ \A w \in Walkers : Rejected(w) =>
              /\ FifoWrite(w) = <<ptw[w].req>> /\ ptw[w].req \in Reqs
              /\ ptw[w].st = "DONE" /\ Len(fifo_in[w]) <= InDepth - 1
         /\ \A e \in Engines : Ready(e) =>
              /\ port[e] = "req" /\ To(e) \in Walkers /\ FifoWrite(To(e)) = <<Request(e)>>
              /\ ~ Rejected(To(e)) /\ Len(fifo_in[To(e)]) < InDepth - 1
         /\ \A w \in Walkers :
              \/ Rejected(w)
              \/ \E e \in Engines : Ready(e) /\ To(e) = w
              \/ FifoWrite(w) = << >>
<1> USE DEF Walkers
<1>1. ASSUME NEW w \in Walkers, Rejected(w)
      PROVE  /\ FifoWrite(w) = <<ptw[w].req>> /\ ptw[w].req \in Reqs
             /\ ptw[w].st = "DONE" /\ Len(fifo_in[w]) <= InDepth - 1
  <2>1. ptw[w].st = "DONE"
    BY <1>1 DEF Rejected, PaValid
  <2>2. FifoWrite(w) = <<ptw[w].req>>
    BY <1>1 DEF FifoWrite
  <2> QED BY <2>1, <2>2 DEF RoomInv, Types, WalkerTypes
<1>2. FirstTo \in Walkers /\ 1 - FirstTo \in Walkers /\ 1 - FirstTo # FirstTo
  BY DEF FirstTo
<1>3. AcceptFirst => /\ First \in Engines /\ port[First] = "req" /\ ~ Rejected(FirstTo)
                     /\ Len(fifo_in[FirstTo]) < InDepth - 1
                     /\ FifoWrite(FirstTo) = <<Request(First)>>
  <2>1. SUFFICES ASSUME AcceptFirst
                 PROVE  /\ First \in Engines /\ port[First] = "req" /\ ~ Rejected(FirstTo)
                        /\ Len(fifo_in[FirstTo]) < InDepth - 1
                        /\ FifoWrite(FirstTo) = <<Request(First)>>
    OBVIOUS
  <2>2. HasSpace(FirstTo)
    BY <2>1 DEF AcceptFirst
  <2>3. ~ Rejected(FirstTo) /\ Len(fifo_in[FirstTo]) < InDepth - 1
    BY <2>2 DEF HasSpace
  <2>4. FifoWrite(FirstTo) = <<Request(First)>>
    BY <2>1, <2>3 DEF FifoWrite
  <2> QED BY <2>1, <2>3, <2>4, Winners DEF Types
<1>4. AcceptSecond => /\ AcceptFirst /\ Second \in Engines /\ port[Second] = "req" /\ Second # First
                      /\ ~ Rejected(1 - FirstTo) /\ Len(fifo_in[1 - FirstTo]) < InDepth - 1
                      /\ FifoWrite(1 - FirstTo) = <<Request(Second)>>
  <2>1. SUFFICES ASSUME AcceptSecond
                 PROVE  /\ ~ Rejected(1 - FirstTo) /\ Len(fifo_in[1 - FirstTo]) < InDepth - 1
                        /\ FifoWrite(1 - FirstTo) = <<Request(Second)>>
    BY Winners DEF Types
  <2>2. HasSpace(1 - FirstTo)
    BY <2>1 DEF AcceptSecond
  <2>3. ~ Rejected(1 - FirstTo) /\ Len(fifo_in[1 - FirstTo]) < InDepth - 1
    BY <2>2 DEF HasSpace
  <2>4. FifoWrite(1 - FirstTo) = <<Request(Second)>>
    BY <1>2, <2>1, <2>3 DEF FifoWrite
  <2> QED BY <2>3, <2>4
<1>5. ASSUME NEW e \in Engines, Ready(e)
      PROVE  /\ port[e] = "req" /\ To(e) \in Walkers /\ FifoWrite(To(e)) = <<Request(e)>>
             /\ ~ Rejected(To(e)) /\ Len(fifo_in[To(e)]) < InDepth - 1
  <2>1. CASE AcceptFirst /\ e = First
    BY <1>2, <1>3, <2>1 DEF To
  <2>2. CASE AcceptSecond /\ e = Second
    BY <1>2, <1>4, <2>2 DEF To
  <2> QED BY <1>5, <2>1, <2>2 DEF Ready
<1>6. ASSUME NEW w \in Walkers, ~ Rejected(w), ~ \E e \in Engines : Ready(e) /\ To(e) = w
      PROVE  FifoWrite(w) = << >>
  <2>1. ~ (AcceptFirst /\ FirstTo = w)
    BY <1>3, <1>6 DEF Ready, To
  <2>2. ~ (AcceptSecond /\ FirstTo # w)
    <3>1. SUFFICES ASSUME AcceptSecond, FirstTo # w PROVE FALSE
      OBVIOUS
    <3>2. w = 1 - FirstTo
      BY <1>2, <3>1
    <3> QED BY <1>4, <1>6, <3>1, <3>2 DEF Ready, To
  <2> QED BY <1>6, <2>1, <2>2 DEF FifoWrite
<1> QED BY <1>1, <1>5, <1>6

Popped(w) == IF Pop(w) THEN 1 ELSE 0

\* What becomes of an input FIFO: the head leaves when the walker is free, and
\* what is written comes last.
LEMMA InputStep ==
  ASSUME Types, RoomInv, NEW w \in Walkers, NEW u, u = FifoNext(w),
         NEW d, d = Popped(w)
  PROVE  /\ d \in {0, 1} /\ Len(fifo_in[w]) - d \in Nat /\ u \in Seq(Reqs)
         /\ \A i \in 1 .. Len(fifo_in[w]) - d : u[i] = fifo_in[w][i + d]
         /\ FifoWrite(w) = << >> => Len(u) = Len(fifo_in[w]) - d
         /\ \A r \in Reqs : FifoWrite(w) = <<r>> =>
              Len(u) = Len(fifo_in[w]) - d + 1 /\ u[Len(u)] = r
         /\ FifoWrite(w) = << >> \/ \E r \in Reqs : FifoWrite(w) = <<r>>
         /\ Len(u) <= IF WalkerNext(w).st = "IDLE" THEN InDepth ELSE InDepth - 1
<1> USE DEF Popped
<1>1. fifo_in[w] \in Seq(Reqs)
  BY DEF Types, WalkerTypes
<1>2. PICK kept : kept = IF Pop(w) THEN Tail(fifo_in[w]) ELSE fifo_in[w]
  OBVIOUS
<1>3. /\ kept \in Seq(Reqs) /\ d \in {0, 1} /\ Len(kept) = Len(fifo_in[w]) - d
      /\ \A i \in 1 .. Len(kept) : kept[i] = fifo_in[w][i + d]
  <2>1. CASE Pop(w)
    <3>1. fifo_in[w] # << >> /\ kept = Tail(fifo_in[w]) /\ d = 1
      BY <1>2, <2>1 DEF Pop
    <3>2. /\ Tail(fifo_in[w]) \in Seq(Reqs) /\ Len(Tail(fifo_in[w])) = Len(fifo_in[w]) - 1
          /\ \A i \in 1 .. Len(fifo_in[w]) - 1 : Tail(fifo_in[w])[i] = fifo_in[w][i + 1]
      BY <1>1, <3>1, TailFacts
    <3> QED BY ONLY <3>1, <3>2
  <2>2. CASE ~ Pop(w)
    BY <1>1, <1>2, <2>2
  <2> QED BY <2>1, <2>2
<1>4. Len(kept) \in Nat
  BY <1>3
<1>5. FifoWrite(w) = << >> \/ \E r \in Reqs : FifoWrite(w) = <<r>>
  BY Sent, RequestFacts DEF Types
<1>6. FifoWrite(w) # << >> => Len(fifo_in[w]) # InDepth
  <2>1. InDepth \in Nat /\ Len(fifo_in[w]) \in Nat
    BY <1>1, Sizes
  <2> QED BY <2>1, Sent
<1>7. u = kept \o FifoWrite(w)
  <2>1. CASE FifoWrite(w) = << >>
    BY <1>2, <1>3, <2>1, JoinNone DEF FifoNext
  <2>2. CASE FifoWrite(w) # << >>
    BY <1>2, <1>6, <2>2 DEF FifoNext
  <2> QED BY <2>1, <2>2
<1>8. FifoWrite(w) = << >> => u = kept
  BY <1>3, <1>7, JoinNone
<1>9. ASSUME NEW r \in Reqs, FifoWrite(w) = <<r>>
      PROVE  /\ u \in Seq(Reqs) /\ Len(u) = Len(kept) + 1 /\ u[Len(u)] = r
             /\ \A i \in 1 .. Len(kept) : u[i] = kept[i]
  BY <1>3, <1>7, <1>9, JoinOne
<1>10. Len(u) <= IF WalkerNext(w).st = "IDLE" THEN InDepth ELSE InDepth - 1
  <2>1. Len(u) = Len(kept) \/ (FifoWrite(w) # << >> /\ Len(u) = Len(kept) + 1)
    BY <1>5, <1>8, <1>9
  <2>2. Len(fifo_in[w]) <= IF ptw[w].st = "IDLE" THEN InDepth ELSE InDepth - 1
    BY DEF RoomInv
  <2>3. InDepth \in Nat \ {0, 1} /\ Len(fifo_in[w]) \in Nat
    BY <1>1, Sizes
  <2>4. FifoWrite(w) # << >> => \/ Len(fifo_in[w]) < InDepth - 1
                                \/ ptw[w].st = "DONE" /\ Len(fifo_in[w]) <= InDepth - 1
    BY Sent
  <2>5. CASE Pop(w)
    <3>1. d = 1 /\ ptw[w].st = "IDLE"
      BY <2>5 DEF Pop
    <3> QED BY <1>3, <2>1, <2>2, <2>3, <2>4, <3>1
  <2>6. CASE ~ Pop(w) /\ ptw[w].st = "IDLE"
    <3>1. WalkerNext(w).st = "IDLE" /\ d = 0 /\ Len(fifo_in[w]) = 0
      BY <2>6, WalkerStep
    <3>2. Len(kept) = 0
      BY ONLY <1>3, <3>1
    <3>3. Len(u) = 0 \/ Len(u) = 1
      BY ONLY <2>1, <3>2
    <3>4. \A n \in Nat \ {0, 1} : 0 <= n /\ 1 <= n
      OBVIOUS
    <3>5. 0 <= InDepth /\ 1 <= InDepth
      BY <2>3, <3>4
    <3>6. Len(u) <= InDepth
      BY ONLY <3>3, <3>5, Zenon
    <3> QED BY <3>1, <3>6
  <2>7. CASE ptw[w].st \in {"DONE", "FAULT"}
    <3>1. WalkerNext(w).st = "IDLE" /\ d = 0
      BY <2>7, WalkerStep DEF Pop
    <3> QED BY <1>3, <2>1, <2>2, <2>3, <2>4, <2>7, <3>1
  <2>8. CASE ptw[w].st \in {"LOOKUP", "ALLOCATE"}
    <3>1. d = 0
      BY <2>8 DEF Pop
    <3> QED BY <1>3, <2>1, <2>2, <2>3, <2>4, <2>8, <3>1
  <2>9. ptw[w].st \in {"IDLE", "LOOKUP", "ALLOCATE", "DONE", "FAULT"}
    BY DEF Types, WalkerTypes, WalkerRegs
  <2> QED BY <2>5, <2>6, <2>7, <2>8, <2>9
<1> QED
  <2>1. u \in Seq(Reqs) /\ \A i \in 1 .. Len(kept) : u[i] = kept[i]
    BY <1>3, <1>5, <1>8, <1>9
  <2> QED BY <1>3, <1>4, <1>5, <1>8, <1>9, <1>10, <2>1

-----------------------------------------------------------------------------
(* What an edge does to a bank queue, a bank and its answer.                *)

LEMMA WholeSeq ==
  ASSUME NEW S, NEW s \in Seq(S)
  PROVE  SubSeq(s, 1, Len(s)) = s
OBVIOUS

Enters(w, b) == CanEnqueue(w) /\ BankId(w) = b
Entry(w) == [req |-> ptw[w].req, pa |-> ptw[w].pa]

\* A walker that is done goes to the bank of its slot, or back.
LEMMA DoneFacts ==
  ASSUME Types, NEW w \in Walkers, PaValid(w)
  PROVE  /\ ptw[w].st = "DONE" /\ BankId(w) \in Banks /\ BankId(w) = BankOf(ptw[w].pa)
         /\ Entry(w) \in Entries
<1>1. ptw[w].st = "DONE" /\ ptw[w].pa \in Pas /\ ptw[w].req \in Reqs
  BY DEF PaValid, Types, WalkerTypes
<1>2. BankOf(ptw[w].pa) \in 0 .. NumBanks - 1
  BY <1>1, PlaceFacts DEF Banks
<1>3. BankId(w) = BankOf(ptw[w].pa)
  <2>1. PICK b \in 0 .. NumBanks - 1 : b = ptw[w].pa[1] \div PagesPerBank
    BY <1>2 DEF BankOf
  <2>2. BankId(w) = IF b < NumBanks THEN b ELSE NumBanks - 1
    BY <2>1 DEF BankId
  <2> QED BY <2>1, <2>2, Sizes DEF BankOf
<1> QED BY <1>1, <1>2, <1>3 DEF Entry, Entries, Banks

\* Two requests for one queue only enter together when there is room for both.
LEMMA EnterRoom ==
  ASSUME Types, RoomInv, NEW b \in Banks
  PROVE  /\ \A w \in Walkers : Enters(w, b) => Len(bank_fifo[b]) <= BankDepth - 1
         /\ Enters(0, b) /\ Enters(1, b) => Len(bank_fifo[b]) <= BankDepth - 2
<1>1. Len(bank_fifo[b]) \in Nat /\ Len(bank_fifo[b]) <= BankDepth /\ BankDepth \in Nat \ {0}
  BY Sizes DEF Types, BankTypes, RoomInv
<1>2. ASSUME NEW w \in Walkers, Enters(w, b) PROVE Len(bank_fifo[b]) <= BankDepth - 1
  <2>1. ~ BankFull(b)
    BY <1>2 DEF Enters, CanEnqueue
  <2> QED BY <1>1, <2>1 DEF BankFull
<1>3. ASSUME Enters(0, b), Enters(1, b) PROVE Len(bank_fifo[b]) <= BankDepth - 2
  <2>1. SameBankCollision
    BY <1>3 DEF SameBankCollision, Enters, CanEnqueue
  <2>2. ~ AlmostFull(b)
    BY <1>3, <2>1 DEF Enters, CanEnqueue
  <2>3. Len(bank_fifo[b]) <= BankDepth - 1
    BY <1>2, <1>3 DEF Walkers
  <2> QED BY <1>1, <2>2, <2>3 DEF AlmostFull
<1> QED BY <1>2, <1>3

\* A queue that up to two entries join.
LEMMA TwoJoin ==
  ASSUME NEW S, NEW s \in Seq(S), NEW x, NEW y, NEW p \in BOOLEAN, NEW q \in BOOLEAN,
         p => x \in S, q => y \in S,
         NEW both, both = (IF p THEN <<x>> ELSE << >>) \o (IF q THEN <<y>> ELSE << >>),
         NEW n, n = Len(s), NEW u, u = s \o both
  PROVE  /\ n \in Nat /\ both \in Seq(S) /\ u \in Seq(S)
         /\ Len(both) = (IF p THEN 1 ELSE 0) + (IF q THEN 1 ELSE 0)
         /\ Len(u) = n + Len(both) /\ Len(u) \in Nat
         /\ \A i \in 1 .. n : u[i] = s[i]
         /\ p => u[n + 1] = x
         /\ q => u[Len(u)] = y
<1>1. CASE p /\ q
  <2>1. both = <<x>> \o <<y>> /\ <<x>> \in Seq(S) /\ Len(<<x>>) = 1 /\ <<x>>[1] = x
    BY <1>1
  <2>2. both \in Seq(S) /\ Len(both) = 2 /\ both[1] = x /\ both[2] = y
    BY ONLY <1>1, <2>1, JoinOne, q => y \in S
  <2>3. /\ u \in Seq(S) /\ Len(u) = n + 2 /\ \A i \in 1 .. n : u[i] = s[i]
        /\ \A i \in 1 .. 2 : u[n + i] = both[i]
    <3>0. both \in Seq(S)
      BY <2>2
    <3>1. /\ s \o both \in Seq(S) /\ Len(s \o both) = Len(s) + Len(both)
          /\ \A i \in 1 .. Len(s) : (s \o both)[i] = s[i]
          /\ \A i \in 1 .. Len(both) : (s \o both)[Len(s) + i] = both[i]
      BY ONLY <3>0, s \in Seq(S)
    <3> QED BY ONLY <2>2, <3>1, n = Len(s), u = s \o both
  <2>4. n \in Nat
    OBVIOUS
  <2> QED BY ONLY <1>1, <2>2, <2>3, <2>4
<1>2. CASE p /\ ~ q
  <2>1. both = <<x>> \o << >> /\ <<x>> \in Seq(S) /\ Len(<<x>>) = 1 /\ <<x>>[1] = x
    BY <1>2
  <2>2. both = <<x>>
    BY ONLY <2>1, JoinNone
  <2>3. u \in Seq(S) /\ Len(u) = n + 1 /\ u[n + 1] = x /\ \A i \in 1 .. n : u[i] = s[i]
    BY ONLY <1>2, <2>2, JoinOne, s \in Seq(S), p => x \in S, n = Len(s), u = s \o both
  <2>4. n \in Nat
    OBVIOUS
  <2> QED BY ONLY <1>2, <2>1, <2>2, <2>3, <2>4
<1>3. CASE ~ p /\ q
  <2>1. both = << >> \o <<y>> /\ << >> \in Seq(S) /\ Len(<< >>) = 0
    BY <1>3
  <2>2. both \in Seq(S) /\ Len(both) = 1 /\ both[1] = y
    BY ONLY <1>3, <2>1, JoinOne, q => y \in S
  <2>3. /\ u \in Seq(S) /\ Len(u) = n + 1 /\ \A i \in 1 .. n : u[i] = s[i]
        /\ \A i \in 1 .. 1 : u[n + i] = both[i]
    BY ONLY <2>2, JoinFacts, s \in Seq(S), n = Len(s), u = s \o both
  <2>4. n \in Nat
    OBVIOUS
  <2> QED BY ONLY <1>3, <2>2, <2>3, <2>4
<1>4. CASE ~ p /\ ~ q
  <2>1. both = << >> \o << >> /\ << >> \in Seq(S) /\ Len(<< >>) = 0
    BY <1>4
  <2>2. both = << >>
    BY ONLY <2>1, JoinNone
  <2>3. u = s
    BY <2>2, JoinNone
  <2>4. n \in Nat
    OBVIOUS
  <2> QED BY ONLY <1>4, <2>1, <2>2, <2>3, <2>4, s \in Seq(S), n = Len(s)
<1> QED BY <1>1, <1>2, <1>3, <1>4

Dispatched(b) == IF Dispatch(b) THEN 1 ELSE 0

\* u is the queue of bank b without its first d entries, n of them left, and
\* with the entries of the walkers behind.
QueueMove(b, u, d, n) ==
  /\ d \in {0, 1} /\ n \in Nat /\ u \in Seq(Entries) /\ Len(u) <= BankDepth
  /\ Len(u) = n + (IF Enters(0, b) THEN 1 ELSE 0) + (IF Enters(1, b) THEN 1 ELSE 0)
  /\ \A i \in 1 .. n : u[i] = bank_fifo[b][i + d]
  /\ Enters(0, b) => u[n + 1] = Entry(0)
  /\ Enters(1, b) => u[Len(u)] = Entry(1)

\* The head of a bank queue leaves when it is dispatched; what enters comes
\* last, walker 0 before walker 1.
LEMMA QueueStep ==
  ASSUME Types, RoomInv, NEW b \in Banks, NEW u, u = BankFifoNext(b),
         NEW d, d = Dispatched(b), NEW n, n = Len(bank_fifo[b]) - d
  PROVE  QueueMove(b, u, d, n)
<1> USE DEF Dispatched
<1> SUFFICES /\ d \in {0, 1} /\ n \in Nat /\ u \in Seq(Entries) /\ Len(u) <= BankDepth
             /\ Len(u) = n + (IF Enters(0, b) THEN 1 ELSE 0) + (IF Enters(1, b) THEN 1 ELSE 0)
             /\ \A i \in 1 .. n : u[i] = bank_fifo[b][i + d]
             /\ Enters(0, b) => u[n + 1] = Entry(0)
             /\ Enters(1, b) => u[Len(u)] = Entry(1)
  BY Zenon DEF QueueMove
<1>0. bank_fifo[b] \in Seq(Entries) /\ Len(bank_fifo[b]) \in Nat /\ BankDepth \in Nat
      /\ Len(bank_fifo[b]) <= BankDepth
  BY Sizes DEF Types, BankTypes, RoomInv
<1>1. PICK kept : kept = IF Dispatch(b) THEN Tail(bank_fifo[b]) ELSE bank_fifo[b]
  OBVIOUS
<1>2. /\ kept \in Seq(Entries) /\ Len(kept) = n /\ n \in Nat /\ n <= Len(bank_fifo[b])
      /\ d \in {0, 1} /\ \A i \in 1 .. n : kept[i] = bank_fifo[b][i + d]
  <2>1. CASE Dispatch(b)
    <3>1. bank_fifo[b] # << >> /\ kept = Tail(bank_fifo[b]) /\ d = 1
      BY <1>1, <2>1 DEF Dispatch
    <3>2. /\ Tail(bank_fifo[b]) \in Seq(Entries) /\ Len(bank_fifo[b]) \in Nat \ {0}
          /\ Len(Tail(bank_fifo[b])) = Len(bank_fifo[b]) - 1
          /\ \A i \in 1 .. Len(bank_fifo[b]) - 1 : Tail(bank_fifo[b])[i] = bank_fifo[b][i + 1]
      BY <1>0, <3>1, TailFacts
    <3> QED BY ONLY <3>1, <3>2, n = Len(bank_fifo[b]) - d
  <2>2. CASE ~ Dispatch(b)
    BY <1>0, <1>1, <2>2
  <2> QED BY <2>1, <2>2
<1>3. PICK p \in BOOLEAN : p = (CanEnqueue(0) /\ BankId(0) = b)
  BY Zenon
<1>4. PICK q \in BOOLEAN : q = (CanEnqueue(1) /\ BankId(1) = b)
  BY Zenon
<1>5. PICK both : both = (IF p THEN <<Entry(0)>> ELSE << >>) \o (IF q THEN <<Entry(1)>> ELSE << >>)
  OBVIOUS
<1>6. PICK room : room = BankDepth - Len(bank_fifo[b])
  OBVIOUS
<1>7. u = kept \o SubSeq(both, 1, IF Len(both) > room THEN room ELSE Len(both))
  BY <1>1, <1>3, <1>4, <1>5, <1>6 DEF BankFifoNext, Entry
<1>8. (p => Enters(0, b) /\ Entry(0) \in Entries) /\ (q => Enters(1, b) /\ Entry(1) \in Entries)
      /\ (Enters(0, b) => p) /\ (Enters(1, b) => q)
  BY <1>3, <1>4, DoneFacts DEF Enters, CanEnqueue, Walkers
<1>9. PICK v : v = kept \o both
  OBVIOUS
<1>10. /\ both \in Seq(Entries) /\ v \in Seq(Entries)
       /\ Len(both) = (IF p THEN 1 ELSE 0) + (IF q THEN 1 ELSE 0)
       /\ Len(v) = n + Len(both)
       /\ \A i \in 1 .. n : v[i] = kept[i]
       /\ p => v[n + 1] = Entry(0)
       /\ q => v[Len(v)] = Entry(1)
  <2>1. p => Entry(0) \in Entries
    BY <1>8
  <2>2. q => Entry(1) \in Entries
    BY <1>8
  <2> QED BY ONLY <1>2, <1>5, <1>9, <2>1, <2>2, TwoJoin, p \in BOOLEAN, q \in BOOLEAN
<1>11. Len(both) <= room
  <2>1. /\ p \/ q => Len(bank_fifo[b]) <= BankDepth - 1
        /\ p /\ q => Len(bank_fifo[b]) <= BankDepth - 2
    BY <1>8, EnterRoom DEF Walkers
  <2>2. Len(both) = (IF p THEN 1 ELSE 0) + (IF q THEN 1 ELSE 0)
    BY <1>10
  <2>3. CASE p /\ q
    BY ONLY <1>0, <1>6, <2>1, <2>2, <2>3
  <2>4. CASE ~ (p /\ q) /\ (p \/ q)
    <3>1. Len(both) = 1 /\ Len(bank_fifo[b]) <= BankDepth - 1
      BY ONLY <2>1, <2>2, <2>4
    <3> QED BY ONLY <1>0, <1>6, <3>1
  <2>5. CASE ~ p /\ ~ q
    BY ONLY <1>0, <1>6, <2>2, <2>5
  <2> QED BY <2>3, <2>4, <2>5
<1>12. u = v
  <2>1. ~ (Len(both) > room)
    <3>1. Len(both) \in Int /\ room \in Int
      BY ONLY <1>0, <1>6, <1>10
    <3> QED BY ONLY <1>11, <3>1
  <2>2. SubSeq(both, 1, Len(both)) = both
    BY <1>10, WholeSeq
  <2> QED BY <1>7, <1>9, <2>1, <2>2
<1>13. Len(u) <= BankDepth
  <2>1. PICK c \in Nat : c = Len(both) /\ c <= room
    BY ONLY <1>10, <1>11
  <2>2. Len(u) = n + c
    BY ONLY <1>10, <1>12, <2>1
  <2> QED BY ONLY <1>0, <1>2, <1>6, <2>1, <2>2
<1>14. p = Enters(0, b) /\ q = Enters(1, b)
  BY <1>3, <1>4 DEF Enters
<1>15. Len(u) = n + (IF Enters(0, b) THEN 1 ELSE 0) + (IF Enters(1, b) THEN 1 ELSE 0)
  BY ONLY <1>2, <1>10, <1>12, <1>14
<1>16. \A i \in 1 .. n : u[i] = bank_fifo[b][i + d]
  BY ONLY <1>2, <1>10, <1>12
<1> QED BY <1>2, <1>10, <1>12, <1>13, <1>14, <1>15, <1>16

LEMMA AppendFacts ==
  ASSUME NEW S, NEW s \in Seq(S), NEW x \in S
  PROVE  /\ Append(s, x) \in Seq(S) /\ Len(Append(s, x)) = Len(s) + 1
         /\ \A i \in 1 .. Len(s) : Append(s, x)[i] = s[i]
         /\ Append(s, x)[Len(s) + 1] = x
OBVIOUS

\* The head of a bank queue is an access for this bank.
LEMMA HeadFacts ==
  ASSUME Types, QueueInv, NEW b \in Banks, bank_fifo[b] # << >>
  PROVE  /\ Head(bank_fifo[b]) = bank_fifo[b][1] /\ Len(bank_fifo[b]) \in Nat \ {0}
         /\ bank_fifo[b][1] \in Entries /\ bank_fifo[b][1].req \in Reqs
         /\ bank_fifo[b][1].req.key[1] \in Engines
         /\ LocalSlot(b, bank_fifo[b][1].pa) \in Locals
<1>1. bank_fifo[b] \in Seq(Entries)
  BY DEF Types, BankTypes
<1>2. /\ Head(bank_fifo[b]) = bank_fifo[b][1] /\ bank_fifo[b][1] \in Entries
      /\ Len(bank_fifo[b]) \in Nat \ {0}
  BY <1>1, TailFacts
<1>3. bank_fifo[b][1].req \in Reqs /\ bank_fifo[b][1].pa \in Pas
  BY <1>2 DEF Entries
<1>4. BankOf(bank_fifo[b][1].pa) = b
  BY <1>2 DEF QueueInv
<1>5. bank_fifo[b][1].req.key \in Keys
  BY <1>3 DEF Reqs
<1> QED BY <1>2, <1>3, <1>4, <1>5, PlaceFacts, KeyFacts

\* The cycles of a bank.
LEMMA BankStep ==
  ASSUME Types, QueueInv, NEW b \in Banks, NEW t, t = bank[b], NEW u, u = BankNext(b)
  PROVE  /\ u \in BankRegs /\ (u.st # "IDLE" => u.at \in Locals)
         /\ u.valid = (t.st = "DONE_READ") /\ u.wdone = (t.st = "PHASE_2" /\ t.wr)
         /\ Dispatch(b) =>
              /\ t.st = "IDLE" /\ u.st = "PHASE_0" /\ u.read = << >>
              /\ u.wr = bank_fifo[b][1].req.wr /\ u.data = bank_fifo[b][1].req.data
              /\ u.at = LocalSlot(b, bank_fifo[b][1].pa)
         /\ InPhase(b) =>
              /\ u.wr = t.wr /\ u.data = t.data /\ u.at = t.at /\ u.st = AfterPhase(t)
              /\ ~ t.wr => u.read = Append(t.read, ram[b][t.at][Phase(t.st)])
         /\ t.st = "DONE_READ" => u.st = "IDLE" /\ u.rdata = t.read
         /\ t.st = "IDLE" /\ ~ Dispatch(b) => u.st = "IDLE"
<1>1. t \in BankRegs /\ (t.st # "IDLE" => t.at \in Locals)
  BY DEF Types, BankTypes
<1>2. PICK out : out = [t EXCEPT !.valid = (t.st = "DONE_READ"),
                                 !.wdone = (t.st = "PHASE_2" /\ t.wr),
                                 !.rdata = IF t.st = "DONE_READ" THEN t.read ELSE << >>]
  OBVIOUS
<1>3. /\ out \in BankRegs /\ out.st = t.st /\ out.wr = t.wr /\ out.at = t.at
      /\ out.data = t.data /\ out.read = t.read
      /\ out.valid = (t.st = "DONE_READ") /\ out.wdone = (t.st = "PHASE_2" /\ t.wr)
      /\ out.rdata = IF t.st = "DONE_READ" THEN t.read ELSE << >>
  <2>1. PICK v \in BOOLEAN : v = (t.st = "DONE_READ")
    BY Zenon
  <2>2. PICK x \in BOOLEAN : x = (t.st = "PHASE_2" /\ t.wr)
    BY Zenon
  <2>3. PICK r \in Seq(Nat) : r = IF t.st = "DONE_READ" THEN t.read ELSE << >>
    <3>1. t.read \in Seq(Nat)
      BY <1>1 DEF BankRegs
    <3>2. << >> \in Seq(Nat)
      OBVIOUS
    <3> QED BY ONLY <3>1, <3>2, Zenon
  <2>4. out = [t EXCEPT !.valid = v, !.wdone = x, !.rdata = r]
    BY <1>2, <2>1, <2>2, <2>3
  <2>5. /\ out \in BankRegs /\ out.st = t.st /\ out.wr = t.wr /\ out.at = t.at
        /\ out.data = t.data /\ out.read = t.read /\ out.valid = v /\ out.wdone = x /\ out.rdata = r
    BY ONLY <1>1, <2>4, v \in BOOLEAN, x \in BOOLEAN, r \in Seq(Nat) DEF BankRegs
  <2> QED BY <2>1, <2>2, <2>3, <2>5
<1>4. CASE Dispatch(b)
  <2>1. bank_fifo[b] # << >> /\ t.st = "IDLE"
    BY <1>4 DEF Dispatch
  <2>2. PICK h \in Entries : h = Head(bank_fifo[b]) /\ h = bank_fifo[b][1]
    BY <2>1, HeadFacts
  <2>3. PICK a \in Locals : a = LocalSlot(b, h.pa)
    BY <2>1, <2>2, HeadFacts
  <2>4. h.req.wr \in BOOLEAN /\ h.req.data \in Nat
    BY <2>2 DEF Entries, Reqs
  <2>5. u = [out EXCEPT !.st = "PHASE_0", !.wr = h.req.wr, !.at = a, !.data = h.req.data,
                        !.read = << >>]
    <3>1. u = LET q == Head(bank_fifo[b])
              IN  [out EXCEPT !.st = "PHASE_0", !.wr = q.req.wr, !.at = LocalSlot(b, q.pa),
                              !.data = q.req.data, !.read = << >>]
      <4>1. ~ InPhase(b)
        BY <2>1 DEF InPhase
      <4> QED BY ONLY <1>2, <1>4, <4>1, t = bank[b], u = BankNext(b) DEF BankNext
    <3> QED BY <2>2, <2>3, <3>1
  <2>6. /\ u \in BankRegs /\ u.st = "PHASE_0" /\ u.wr = h.req.wr /\ u.at = a
        /\ u.data = h.req.data /\ u.read = << >> /\ u.valid = out.valid /\ u.wdone = out.wdone
    <3>1. PICK f \in BOOLEAN : f = h.req.wr
      BY <2>4
    <3>2. PICK g \in Nat : g = h.req.data
      BY <2>4
    <3>3. << >> \in Seq(Nat)
      OBVIOUS
    <3>4. u = [out EXCEPT !.st = "PHASE_0", !.wr = f, !.at = a, !.data = g, !.read = << >>]
      BY <2>5, <3>1, <3>2
    <3>5. /\ u \in BankRegs /\ u.st = "PHASE_0" /\ u.wr = f /\ u.at = a
          /\ u.data = g /\ u.read = << >> /\ u.valid = out.valid /\ u.wdone = out.wdone
      BY ONLY <1>3, <3>3, <3>4, f \in BOOLEAN, g \in Nat, a \in Locals DEF BankRegs
    <3> QED BY <3>1, <3>2, <3>5
  <2>7. ~ InPhase(b)
    BY <2>1 DEF InPhase
  <2> QED BY <1>3, <1>4, <2>1, <2>2, <2>3, <2>6, <2>7
<1>5. CASE InPhase(b)
  <2>1. t.st \in {"PHASE_0", "PHASE_1", "PHASE_2"} /\ ~ Dispatch(b)
    BY <1>5 DEF InPhase, Dispatch
  <2>2. AfterPhase(t) \in {"IDLE", "PHASE_1", "PHASE_2", "DONE_READ"}
    BY <2>1 DEF AfterPhase
  <2>3. Phase(t.st) \in Words
    BY <2>1 DEF Phase, Words
  <2>4. ram[b][t.at][Phase(t.st)] \in Nat
    BY <1>1, <2>1, <2>3 DEF Types, RamTypes
  <2>5. CASE t.wr
    <3>1. u = [out EXCEPT !.st = AfterPhase(t)]
      BY <1>2, <1>5, <2>1, <2>5 DEF BankNext
    <3> QED BY <1>1, <1>3, <2>1, <2>2, <2>5, <3>1 DEF BankRegs
  <2>6. CASE ~ t.wr
    <3>1. PICK r \in Seq(Nat) : r = Append(t.read, ram[b][t.at][Phase(t.st)])
      BY <1>1, <2>4, AppendFacts DEF BankRegs
    <3>2. u = [out EXCEPT !.st = AfterPhase(t), !.read = r]
      BY <1>2, <1>3, <1>5, <2>1, <2>6, <3>1 DEF BankNext
    <3> QED BY <1>1, <1>3, <2>1, <2>2, <2>6, <3>1, <3>2 DEF BankRegs
  <2> QED BY <2>5, <2>6
<1>6. CASE ~ Dispatch(b) /\ ~ InPhase(b)
  <2>1. u = [IdleBank EXCEPT !.valid = out.valid, !.wdone = out.wdone, !.rdata = out.rdata]
    BY <1>2, <1>6 DEF BankNext
  <2>2. IdleBank \in BankRegs /\ IdleBank.st = "IDLE"
    BY DEF IdleBank, BankRegs
  <2>3. /\ u \in BankRegs /\ u.st = "IDLE" /\ u.valid = out.valid /\ u.wdone = out.wdone
        /\ u.rdata = out.rdata
    BY ONLY <1>3, <2>1, <2>2 DEF BankRegs
  <2> QED BY <1>3, <1>6, <2>3
<1> QED BY <1>4, <1>5, <1>6

\* The answer is for the head of the tracking FIFO, which holds nobody else.
LEMMA AnswerStep ==
  ASSUME Types, QueueInv, BankInv, NEW b \in Banks,
         NEW v, v = VaFifoNext(b), NEW a, a = RespNext(b)
  PROVE  /\ v \in Seq(Engines) /\ a \in Answers
         /\ Completes(b) => /\ Len(va_fifo[b]) = 1 /\ a.valid /\ a.e = va_fifo[b][1]
                            /\ a.data = IF bank[b].valid THEN bank[b].rdata ELSE << >>
         /\ ~ Completes(b) => ~ a.valid
         /\ Dispatch(b) => Len(v) = 1 /\ v[1] = bank_fifo[b][1].req.key[1]
         /\ ~ Dispatch(b) /\ Completes(b) => Len(v) = 0
         /\ ~ Dispatch(b) /\ ~ Completes(b) => v = va_fifo[b]
<1>1. va_fifo[b] \in Seq(Engines) /\ bank[b] \in BankRegs
  BY DEF Types, BankTypes
<1>2. PICK popped : popped = IF Completes(b) /\ ~ resp_buf[b].valid /\ va_fifo[b] # << >>
                             THEN Tail(va_fifo[b]) ELSE va_fifo[b]
  OBVIOUS
<1>3. v = IF Dispatch(b) THEN Append(popped, Head(bank_fifo[b]).req.key[1]) ELSE popped
  BY <1>2 DEF VaFifoNext
<1>4. Completes(b) => /\ ~ resp_buf[b].valid /\ Len(va_fifo[b]) = 1 /\ va_fifo[b] # << >>
                      /\ bank[b].st = "IDLE"
  <2>1. Completes(b) => ~ resp_buf[b].valid /\ Len(va_fifo[b]) = 1 /\ bank[b].st = "IDLE"
    BY DEF BankInv
  <2>2. Len(<< >>) # 1
    OBVIOUS
  <2> QED BY <2>1, <2>2, Zenon
<1>5. Completes(b) => popped \in Seq(Engines) /\ Len(popped) = 0
  <2>1. SUFFICES ASSUME Completes(b) PROVE popped \in Seq(Engines) /\ Len(popped) = 0
    OBVIOUS
  <2>2. popped = Tail(va_fifo[b]) /\ va_fifo[b] # << >>
    BY <1>2, <1>4, <2>1
  <2> QED BY <1>1, <1>4, <2>1, <2>2, TailFacts
<1>6. ~ Completes(b) => popped = va_fifo[b]
  BY <1>2
<1>7. Dispatch(b) => Len(popped) = 0 /\ popped \in Seq(Engines)
  <2>1. SUFFICES ASSUME Dispatch(b), ~ Completes(b) PROVE Len(popped) = 0 /\ popped \in Seq(Engines)
    BY <1>5
  <2>2. bank[b].st = "IDLE"
    BY <2>1 DEF Dispatch
  <2> QED BY <1>1, <1>6, <2>1, <2>2 DEF BankInv
<1>8. Dispatch(b) => v \in Seq(Engines) /\ Len(v) = 1 /\ v[1] = bank_fifo[b][1].req.key[1]
  <2>1. SUFFICES ASSUME Dispatch(b)
                 PROVE  v \in Seq(Engines) /\ Len(v) = 1 /\ v[1] = bank_fifo[b][1].req.key[1]
    OBVIOUS
  <2>2. bank_fifo[b] # << >>
    BY <2>1 DEF Dispatch
  <2>3. PICK x \in Engines : x = bank_fifo[b][1].req.key[1] /\ x = Head(bank_fifo[b]).req.key[1]
    BY <2>2, HeadFacts
  <2>4. v = Append(popped, x) /\ popped \in Seq(Engines) /\ Len(popped) = 0
    BY <1>3, <1>7, <2>1, <2>3
  <2> QED BY ONLY <2>3, <2>4, AppendFacts, x \in Engines
<1>9. Completes(b) => /\ a \in Answers /\ a.valid /\ a.e = va_fifo[b][1]
                      /\ a.data = IF bank[b].valid THEN bank[b].rdata ELSE << >>
  <2>1. SUFFICES ASSUME Completes(b)
                 PROVE  /\ a \in Answers /\ a.valid /\ a.e = va_fifo[b][1]
                        /\ a.data = IF bank[b].valid THEN bank[b].rdata ELSE << >>
    OBVIOUS
  <2>2. va_fifo[b][1] \in Engines /\ Head(va_fifo[b]) = va_fifo[b][1]
    BY <1>1, <1>4, <2>1, TailFacts
  <2>3. PICK dat \in Seq(Nat) : dat = IF bank[b].valid THEN bank[b].rdata ELSE << >>
    <3>1. bank[b].rdata \in Seq(Nat)
      BY <1>1 DEF BankRegs
    <3>2. << >> \in Seq(Nat)
      OBVIOUS
    <3> QED BY ONLY <3>1, <3>2, Zenon
  <2>4. a = [valid |-> TRUE, e |-> va_fifo[b][1], data |-> dat]
    BY <1>4, <2>1, <2>2, <2>3 DEF RespNext
  <2> QED BY <2>2, <2>3, <2>4 DEF Answers
<1>10. ~ Completes(b) => a \in Answers /\ ~ a.valid
  <2>1. ~ Completes(b) => a = NoAnswer
    BY DEF RespNext
  <2>2. << >> \in Seq(Nat) /\ 0 \in Engines
    BY Sizes DEF Engines
  <2>3. NoAnswer \in Answers /\ ~ NoAnswer.valid
    BY ONLY <2>2 DEF NoAnswer, Answers
  <2> QED BY ONLY <2>1, <2>3
<1> QED BY <1>1, <1>3, <1>4, <1>5, <1>6, <1>8, <1>9, <1>10

-----------------------------------------------------------------------------
(* An edge, register by register.                                           *)

LEMMA Edge ==
  ASSUME NEW raise \in SUBSET Engines, Clock(raise)
  PROVE  /\ \A w \in Walkers : fifo_in'[w] = FifoNext(w) /\ ptw'[w] = WalkerNext(w)
         /\ \A b \in Banks : /\ bank_fifo'[b] = BankFifoNext(b) /\ va_fifo'[b] = VaFifoNext(b)
                             /\ bank'[b] = BankNext(b) /\ ram'[b] = RamNext(b)
                             /\ resp_buf'[b] = RespNext(b)
         /\ next_slot' = NextSlots /\ page_table' = PageTableNext
BY DEF Clock

\* While an engine waits, it does not move on in its program.
LEMMA PortStep ==
  ASSUME EngineTypes, NEW raise \in SUBSET Engines, Clock(raise)
  PROVE  /\ EngineTypes'
         /\ \A e \in Engines :
              /\ port'[e] = "wait" <=> \/ port[e] = "req" /\ Ready(e)
                                       \/ port[e] = "wait" /\ ~ Answered(e)
              /\ port'[e] = "wait" => ip'[e] = ip[e] /\ Request(e)' = Request(e)
<1>1. \A e \in Engines : port'[e] = PortNext(e, raise)
  BY DEF Clock
<1>2. ASSUME NEW e \in Engines
      PROVE  /\ port'[e] \in {"idle", "req", "wait"}
             /\ port'[e] = "wait" <=> \/ port[e] = "req" /\ Ready(e)
                                      \/ port[e] = "wait" /\ ~ Answered(e)
  <2>1. CASE port[e] = "req" /\ Ready(e)
    BY <1>1, <2>1 DEF PortNext
  <2>2. CASE port[e] = "wait" /\ ~ Answered(e)
    BY <1>1, <2>2 DEF PortNext
  <2>3. CASE ~ (port[e] = "req" /\ Ready(e)) /\ ~ (port[e] = "wait" /\ ~ Answered(e))
    <3>1. port'[e] = IF e \in raise THEN "req" ELSE "idle"
      BY <1>1, <2>3 DEF PortNext
    <3> QED BY <2>3, <3>1
  <2> QED BY <2>1, <2>2, <2>3
<1>3. \A e \in Engines :
        ip'[e] = IF \/ Answered(e) /\ Over(e)
                    \/ port[e] = "req" /\ ~ Ready(e) /\ e \notin raise
                 THEN Step(e) ELSE ip[e]
  BY DEF Clock
<1>4. ASSUME NEW e \in Engines PROVE ip'[e] \in 1 .. Len(Program[e]) /\ ip'[e] \in Nat
  <2>1. ip[e] \in 1 .. Len(Program[e]) /\ Len(Program[e]) \in Nat \ {0} /\ ip[e] \in Nat
    BY MmuAssumption DEF EngineTypes
  <2>2. ip[e] % Len(Program[e]) \in 0 .. Len(Program[e]) - 1
    <3>1. ip[e] \in Int
      BY <2>1
    <3> QED BY ONLY <2>1, <3>1, ModRange, Zenon
  <2>3. Step(e) \in 1 .. Len(Program[e]) /\ Step(e) \in Nat
    BY ONLY <2>1, <2>2 DEF Step
  <2> QED BY ONLY <1>3, <2>1, <2>3, e \in Engines
<1>5. ASSUME NEW e \in Engines, port'[e] = "wait"
      PROVE  ip'[e] = ip[e] /\ Request(e)' = Request(e)
  <2>1. ip'[e] = ip[e]
    BY <1>2, <1>3, <1>5 DEF Answered
  <2> QED BY <2>1 DEF Request
<1>6. rr_pointer' \in Engines
  <2>1. rr_pointer' = PointerNext
    BY DEF Clock
  <2>2. \A x \in Engines : x \in Int /\ x + 1 \in Int
    BY Sizes DEF Engines
  <2>3. \A x \in Engines : (x + 1) % NumEngines \in Engines
    BY <2>2, ModRange, Sizes DEF Engines
  <2> QED BY <2>1, <2>3, Winners DEF PointerNext, EngineTypes
<1>7. port' \in [Engines -> {"idle", "req", "wait"}] /\ ip' \in [Engines -> Nat]
  <2>1. DOMAIN port' = Engines /\ DOMAIN ip' = Engines
    BY DEF Clock
  <2>2. port' = [e \in Engines |-> port'[e]] /\ ip' = [e \in Engines |-> ip'[e]]
    BY DEF Clock
  <2> QED BY <1>2, <1>4, <2>2
<1> QED BY <1>2, <1>4, <1>5, <1>6, <1>7 DEF EngineTypes

\* With one request per engine, two walkers never allocate in one partition.
LEMMA NoCollision ==
  ASSUME Types, KeptInv
  PROVE  /\ ~ SameAllocCollision
         /\ \A w \in Walkers : /\ PaValid(w) <=> ptw[w].st = "DONE"
                               /\ Fault(w) <=> ptw[w].st = "FAULT"
                               /\ AllocEff(w) <=> Alloc(w)
<1>1. ASSUME SameAllocCollision PROVE FALSE
  <2>1. /\ ptw[0].st = "ALLOCATE" /\ ptw[1].st = "ALLOCATE"
        /\ Partition(ptw[0].req.key) = Partition(ptw[1].req.key)
    BY <1>1 DEF SameAllocCollision, Alloc
  <2>2. ptw[0].req.key \in Keys /\ ptw[1].req.key \in Keys
    BY <2>1, AllocRange DEF Walkers
  <2>3. PICK e \in Engines : e = ptw[0].req.key[1] /\ e = ptw[1].req.key[1]
    BY <2>1, <2>2, KeyFacts
  <2>4. InWalker(e, 0) /\ InWalker(e, 1)
    BY <2>1, <2>3 DEF InWalker
  <2>5. ~ NoWalker(e)
    BY <2>4 DEF NoWalker, Walkers
  <2>6. ~ OnlyWalker(e)
    BY <2>4 DEF OnlyWalker, Walkers
  <2> QED BY <2>5, <2>6 DEF KeptInv, Somewhere, Nowhere, OnlyInput, OnlyQueue, OnlyBank, OnlyAnswer
<1> QED BY <1>1 DEF PaValid, Fault, AllocEff, Loses

-----------------------------------------------------------------------------
(* Where the request of an engine goes.                                     *)

LEMMA InputMoves ==
  ASSUME Types, RoomInv, NEW raise \in SUBSET Engines, Clock(raise), NEW e \in Engines,
         NEW w \in Walkers, NEW n, n = Len(fifo_in'[w]),
         NEW d, d = Popped(w)
  PROVE  /\ d \in {0, 1} /\ n \in Nat
         /\ \A j \in 1 .. n : InInput(e, w, j)' =>
              \/ InInput(e, w, j + d)
              \/ j = n /\ Rejected(w) /\ InWalker(e, w)
              \/ j = n /\ Ready(e) /\ To(e) = w
         /\ \A i \in 1 .. Len(fifo_in[w]) : InInput(e, w, i) /\ ~ (Pop(w) /\ i = 1) =>
              i - d \in 1 .. n /\ InInput(e, w, i - d)'
         /\ Rejected(w) /\ InWalker(e, w) => n \in 1 .. n /\ InInput(e, w, n)'
         /\ Ready(e) /\ To(e) = w => n \in 1 .. n /\ InInput(e, w, n)'
<1> DEFINE f == fifo_in[w]
           g == fifo_in'[w]
           m == Len(f) - d
<1>1. g = FifoNext(w)
  BY Edge
<1>2. f \in Seq(Reqs) /\ Len(f) \in Nat
  BY DEF Types, WalkerTypes
<1>3. /\ d \in {0, 1} /\ m \in Nat /\ g \in Seq(Reqs)
      /\ \A i \in 1 .. m : g[i] = f[i + d]
      /\ FifoWrite(w) = << >> => Len(g) = m
      /\ \A r \in Reqs : FifoWrite(w) = <<r>> => Len(g) = m + 1 /\ g[Len(g)] = r
      /\ FifoWrite(w) = << >> \/ \E r \in Reqs : FifoWrite(w) = <<r>>
  BY <1>1, InputStep
<1>4. n \in Nat /\ n = Len(g)
  BY <1>3
<1>5. \A i : InInput(e, w, i) <=> i \in 1 .. Len(f) /\ f[i].key[1] = e
  BY DEF InInput
<1>6. \A i : InInput(e, w, i)' <=> i \in 1 .. n /\ g[i].key[1] = e
  BY DEF InInput
<1>7. /\ Rejected(w) => /\ FifoWrite(w) = <<ptw[w].req>> /\ ptw[w].req \in Reqs
                        /\ ptw[w].st # "IDLE"
      /\ Ready(e) /\ To(e) = w => FifoWrite(w) = <<Request(e)>> /\ Request(e) \in Reqs
      /\ Request(e).key[1] = e
  BY Sent, RequestFacts DEF Types
<1>8. FifoWrite(w) # << >> => \/ Rejected(w)
                              \/ \E x \in Engines : Ready(x) /\ To(x) = w
  BY Sent
<1>9. ASSUME NEW x \in Engines, Ready(x), To(x) = w
      PROVE  FifoWrite(w) = <<Request(x)>> /\ Request(x) \in Reqs /\ Request(x).key[1] = x
  BY <1>9, Sent, RequestFacts DEF Types
<1>10. Rejected(w) => n = m + 1 /\ g[n] = ptw[w].req
  BY <1>3, <1>4, <1>7
<1>11. Ready(e) /\ To(e) = w => n = m + 1 /\ g[n] = Request(e)
  BY <1>3, <1>4, <1>7
<1>12. \A x \in Engines : Ready(x) /\ To(x) = w => n = m + 1 /\ g[n].key[1] = x
  BY <1>3, <1>4, <1>9
<1>13. ASSUME NEW j \in 1 .. n, InInput(e, w, j)', ~ InInput(e, w, j + d)
       PROVE  \/ j = n /\ Rejected(w) /\ InWalker(e, w)
              \/ j = n /\ Ready(e) /\ To(e) = w
  <2>1. g[j].key[1] = e
    BY <1>6, <1>13
  <2>2. ~ (j <= m)
    <3>1. SUFFICES ASSUME j <= m PROVE FALSE
      OBVIOUS
    <3>2. j \in 1 .. m /\ j + d \in 1 .. Len(f)
      <4> HIDE DEF f
      <4> QED BY ONLY <1>2, <1>3, <1>4, <3>1, j \in 1 .. n
    <3>3. g[j] = f[j + d]
      BY <1>3, <3>2
    <3> QED BY <1>5, <1>13, <2>1, <3>2, <3>3
  <2>3. n # m
    BY ONLY <1>3, <1>4, <2>2, j \in 1 .. n
  <2>4. FifoWrite(w) # << >>
    BY <1>3, <1>4, <2>3
  <2>5. n = m + 1 /\ j = n
    <3>1. n = m + 1
      BY <1>3, <1>4, <2>4
    <3> HIDE DEF m
    <3> QED BY ONLY <3>1, <1>3, <1>4, <2>2, j \in 1 .. n
  <2>6. CASE Rejected(w)
    BY <1>7, <1>10, <2>1, <2>5, <2>6 DEF InWalker
  <2>7. CASE \E x \in Engines : Ready(x) /\ To(x) = w
    BY <1>12, <2>1, <2>5, <2>7
  <2> QED BY <1>8, <2>4, <2>6, <2>7
<1>14. ASSUME NEW i \in 1 .. Len(f), InInput(e, w, i), ~ (Pop(w) /\ i = 1)
       PROVE  i - d \in 1 .. n /\ InInput(e, w, i - d)'
  <2>1. d = 0 \/ i # 1
    BY <1>14 DEF Popped
  <2>2. n = m \/ n = m + 1
    BY <1>3, <1>4
  <2>3. i - d \in 1 .. m /\ i - d \in 1 .. n /\ i - d + d = i
    <3> HIDE DEF f
    <3> QED BY ONLY <1>2, <1>3, <1>4, <2>1, <2>2, i \in 1 .. Len(f)
  <2>4. g[i - d] = f[i]
    BY <1>3, <2>3
  <2>5. f[i].key[1] = e
    BY <1>5, <1>14
  <2>6. InInput(e, w, i - d)' <=> i - d \in 1 .. n /\ g[i - d].key[1] = e
    BY <1>6
  <2> QED BY <2>3, <2>4, <2>5, <2>6
<1>15. m + 1 \in 1 .. (m + 1)
  <2> HIDE DEF m
  <2> QED BY <1>3
<1>16. Rejected(w) /\ InWalker(e, w) => n \in 1 .. n /\ InInput(e, w, n)'
  BY <1>6, <1>10, <1>15 DEF InWalker
<1>17. Ready(e) /\ To(e) = w => n \in 1 .. n /\ InInput(e, w, n)'
  BY <1>6, <1>7, <1>11, <1>15
<1> QED BY <1>3, <1>4, <1>13, <1>14, <1>16, <1>17

LEMMA WalkerMoves ==
  ASSUME Types, NEW raise \in SUBSET Engines, Clock(raise), NEW e \in Engines, NEW w \in Walkers
  PROVE  InWalker(e, w)' <=> \/ Pop(w) /\ InInput(e, w, 1)
                             \/ InWalker(e, w) /\ ptw[w].st \in {"LOOKUP", "ALLOCATE"}
<1>1. ptw'[w] = WalkerNext(w) /\ fifo_in[w] \in Seq(Reqs)
      /\ ptw[w].st \in {"IDLE", "LOOKUP", "ALLOCATE", "DONE", "FAULT"}
  BY Edge DEF Types, WalkerTypes, WalkerRegs
<1>2. InWalker(e, w)' <=> WalkerNext(w).st # "IDLE" /\ WalkerNext(w).req.key[1] = e
  BY <1>1 DEF InWalker
<1>3. CASE Pop(w)
  <2>1. /\ ptw[w].st = "IDLE" /\ WalkerNext(w).st = "LOOKUP"
        /\ WalkerNext(w).req = fifo_in[w][1] /\ fifo_in[w] # << >>
    BY <1>3, WalkerStep
  <2>2. 1 \in 1 .. Len(fifo_in[w])
    <3>1. Len(fifo_in[w]) \in Nat \ {0}
      BY <1>1, <2>1, TailFacts
    <3> QED BY ONLY <3>1
  <2> QED BY <1>2, <1>3, <2>1, <2>2 DEF InWalker, InInput
<1>4. CASE ptw[w].st = "IDLE" /\ ~ Pop(w)
  <2>1. WalkerNext(w).st = "IDLE"
    BY <1>4, WalkerStep
  <2> QED BY <1>2, <1>4, <2>1 DEF InWalker
<1>5. CASE ptw[w].st \in {"LOOKUP", "ALLOCATE"}
  <2>1. WalkerNext(w).st # "IDLE" /\ WalkerNext(w).req = ptw[w].req /\ ~ Pop(w)
    <3>1. ~ Pop(w)
      BY <1>5 DEF Pop
    <3>2. CASE ptw[w].st = "LOOKUP"
      BY <3>1, <3>2, WalkerStep
    <3>3. CASE ptw[w].st = "ALLOCATE"
      BY <3>1, <3>3, WalkerStep
    <3> QED BY <1>5, <3>2, <3>3
  <2> QED BY <1>2, <1>5, <2>1 DEF InWalker
<1>6. CASE ptw[w].st \in {"DONE", "FAULT"}
  <2>1. WalkerNext(w).st = "IDLE" /\ ~ Pop(w)
    BY <1>6, WalkerStep DEF Pop
  <2> QED BY <1>2, <1>6, <2>1 DEF InWalker
<1> QED BY <1>1, <1>3, <1>4, <1>5, <1>6

LEMMA QueueMoves ==
  ASSUME Types, RoomInv, NEW raise \in SUBSET Engines, Clock(raise), NEW e \in Engines,
         NEW b \in Banks, NEW n, n = Len(bank_fifo'[b]), NEW d, d = Dispatched(b),
         NEW m, m = Len(bank_fifo[b]) - d
  PROVE  /\ d \in {0, 1} /\ n \in Nat /\ m \in Nat
         /\ \A j \in 1 .. n : InQueue(e, b, j)' =>
              \/ InQueue(e, b, j + d)
              \/ j = m + 1 /\ Enters(0, b) /\ InWalker(e, 0)
              \/ j = n /\ Enters(1, b) /\ InWalker(e, 1)
         /\ \A i \in 1 .. Len(bank_fifo[b]) : InQueue(e, b, i) /\ ~ (Dispatch(b) /\ i = 1) =>
              i - d \in 1 .. n /\ InQueue(e, b, i - d)'
         /\ Enters(0, b) /\ InWalker(e, 0) => m + 1 \in 1 .. n /\ InQueue(e, b, m + 1)'
         /\ Enters(1, b) /\ InWalker(e, 1) => n \in 1 .. n /\ InQueue(e, b, n)'
<1> DEFINE f == bank_fifo[b]
           g == bank_fifo'[b]
<1>1. g = BankFifoNext(b)
  BY Edge
<1>2. f \in Seq(Entries) /\ Len(f) \in Nat
  BY DEF Types, BankTypes
<1>3. /\ d \in {0, 1} /\ m \in Nat /\ g \in Seq(Entries)
      /\ Len(g) = m + (IF Enters(0, b) THEN 1 ELSE 0) + (IF Enters(1, b) THEN 1 ELSE 0)
      /\ \A i \in 1 .. m : g[i] = f[i + d]
      /\ Enters(0, b) => g[m + 1] = Entry(0)
      /\ Enters(1, b) => g[Len(g)] = Entry(1)
  <2> HIDE DEF g
  <2>1. QueueMove(b, g, d, m)
    BY <1>1, QueueStep
  <2> QED BY ONLY <2>1 DEF QueueMove
<1>4. n \in Nat /\ n = Len(g)
  BY <1>3
<1>5. \A i : InQueue(e, b, i) <=> i \in 1 .. Len(f) /\ f[i].req.key[1] = e
  BY DEF InQueue
<1>6. \A i : InQueue(e, b, i)' <=> i \in 1 .. n /\ g[i].req.key[1] = e
  BY DEF InQueue
<1>7. \A w \in Walkers : Enters(w, b) =>
        ptw[w].st # "IDLE" /\ Entry(w).req = ptw[w].req
  BY DEF Enters, CanEnqueue, PaValid, Entry
<1>8. n = m + (IF Enters(0, b) THEN 1 ELSE 0) + (IF Enters(1, b) THEN 1 ELSE 0)
  BY <1>3, <1>4
<1>0. m = Len(f) - d
  OBVIOUS
<1>9. ASSUME NEW j \in 1 .. n, InQueue(e, b, j)', ~ InQueue(e, b, j + d)
      PROVE  \/ j = m + 1 /\ Enters(0, b) /\ InWalker(e, 0)
             \/ j = n /\ Enters(1, b) /\ InWalker(e, 1)
  <2>1. g[j].req.key[1] = e
    BY <1>6, <1>9
  <2>2. ~ (j <= m)
    <3>1. SUFFICES ASSUME j <= m PROVE FALSE
      OBVIOUS
    <3>2. j \in 1 .. m /\ j + d \in 1 .. Len(f)
      <4> HIDE DEF f
      <4> QED BY ONLY <1>2, <1>3, <1>4, <3>1, j \in 1 .. n, <1>0
    <3>3. g[j] = f[j + d]
      BY <1>3, <3>2
    <3> QED BY <1>5, <1>9, <2>1, <3>2, <3>3
  <2>3. \/ j = m + 1 /\ Enters(0, b)
        \/ j = n /\ Enters(1, b)
    BY ONLY <1>3, <1>4, <1>8, <2>2, j \in 1 .. n
  <2>4. CASE j = m + 1 /\ Enters(0, b)
    BY <1>3, <1>7, <2>1, <2>4 DEF InWalker, Walkers
  <2>5. CASE j = n /\ Enters(1, b)
    BY <1>3, <1>4, <1>7, <2>1, <2>5 DEF InWalker, Walkers
  <2> QED BY <2>3, <2>4, <2>5
<1>10. ASSUME NEW i \in 1 .. Len(f), InQueue(e, b, i), ~ (Dispatch(b) /\ i = 1)
       PROVE  i - d \in 1 .. n /\ InQueue(e, b, i - d)'
  <2>1. d = 0 \/ i # 1
    BY <1>10 DEF Dispatched
  <2>2. n >= m
    BY ONLY <1>3, <1>8
  <2>3. i - d \in 1 .. m /\ i - d \in 1 .. n /\ i - d + d = i
    <3> HIDE DEF f
    <3>1. PICK c \in Nat : c = Len(f)
      BY <1>2
    <3>2. d \in {0, 1} /\ m \in Nat /\ n \in Nat /\ i \in 1 .. c /\ m = c - d
      BY <1>0, <1>3, <1>4, <3>1
    <3> QED BY ONLY <2>1, <2>2, <3>2, c \in Nat
  <2>4. g[i - d] = f[i]
    BY <1>3, <2>3
  <2>5. f[i].req.key[1] = e
    BY <1>5, <1>10
  <2>6. InQueue(e, b, i - d)' <=> i - d \in 1 .. n /\ g[i - d].req.key[1] = e
    BY <1>6
  <2> QED BY <2>3, <2>4, <2>5, <2>6
<1>11. Enters(0, b) /\ InWalker(e, 0) => m + 1 \in 1 .. n /\ InQueue(e, b, m + 1)'
  <2>1. Enters(0, b) => m + 1 \in 1 .. n
    BY ONLY <1>3, <1>4, <1>8
  <2>2. Enters(0, b) => g[m + 1].req = ptw[0].req
    BY <1>3, <1>7 DEF Walkers
  <2> QED BY <1>6, <2>1, <2>2 DEF InWalker
<1>12. Enters(1, b) /\ InWalker(e, 1) => n \in 1 .. n /\ InQueue(e, b, n)'
  <2>1. Enters(1, b) => n \in 1 .. n
    BY ONLY <1>3, <1>4, <1>8
  <2>2. Enters(1, b) => g[n].req = ptw[1].req
    BY <1>3, <1>4, <1>7 DEF Walkers
  <2> QED BY <1>6, <2>1, <2>2 DEF InWalker
<1> QED BY <1>3, <1>4, <1>9, <1>10, <1>11, <1>12

LEMMA BankMoves ==
  ASSUME Types, QueueInv, BankInv, NEW raise \in SUBSET Engines, Clock(raise),
         NEW e \in Engines, NEW b \in Banks
  PROVE  /\ InBank(e, b)' <=> \/ Dispatch(b) /\ InQueue(e, b, 1)
                              \/ InBank(e, b) /\ ~ Completes(b)
         /\ InAnswer(e, b)' <=> InBank(e, b) /\ Completes(b)
<1>1. va_fifo'[b] = VaFifoNext(b) /\ resp_buf'[b] = RespNext(b)
  BY Edge
<1>2. PICK v : v = VaFifoNext(b)
  OBVIOUS
<1>3. PICK a : a = RespNext(b)
  OBVIOUS
<1>4. /\ Completes(b) => Len(va_fifo[b]) = 1 /\ a.valid /\ a.e = va_fifo[b][1]
      /\ ~ Completes(b) => ~ a.valid
      /\ Dispatch(b) => Len(v) = 1 /\ v[1] = bank_fifo[b][1].req.key[1]
      /\ ~ Dispatch(b) /\ Completes(b) => Len(v) = 0
      /\ ~ Dispatch(b) /\ ~ Completes(b) => v = va_fifo[b]
  BY <1>2, <1>3, AnswerStep
<1>5. InBank(e, b)' <=> Len(v) = 1 /\ v[1] = e
  BY <1>1, <1>2 DEF InBank
<1>6. InAnswer(e, b)' <=> a.valid /\ a.e = e
  BY <1>1, <1>3 DEF InAnswer
<1>7. Dispatch(b) => 1 \in 1 .. Len(bank_fifo[b])
  <2>1. Dispatch(b) => Len(bank_fifo[b]) \in Nat \ {0}
    BY HeadFacts DEF Dispatch
  <2> QED BY ONLY <2>1
<1>8. Dispatch(b) => ~ (InBank(e, b) /\ ~ Completes(b))
  <2>1. Dispatch(b) /\ ~ Completes(b) => Len(va_fifo[b]) = 0
    BY DEF Dispatch, BankInv
  <2> QED BY <2>1 DEF InBank
<1>9. InAnswer(e, b)' <=> InBank(e, b) /\ Completes(b)
  BY <1>4, <1>6 DEF InBank
<1>10. CASE Dispatch(b)
  BY <1>4, <1>5, <1>7, <1>8, <1>9, <1>10 DEF InQueue
<1>11. CASE ~ Dispatch(b) /\ Completes(b)
  BY <1>4, <1>5, <1>9, <1>11
<1>12. CASE ~ Dispatch(b) /\ ~ Completes(b)
  BY <1>4, <1>5, <1>9, <1>12 DEF InBank
<1> QED BY <1>10, <1>11, <1>12

\* Where the request of engine e is after an edge, from where it was.
LEMMA Origins ==
  ASSUME Types, RoomInv, BankInv, QueueInv, NEW raise \in SUBSET Engines, Clock(raise),
         NEW e \in Engines
  PROVE  /\ NoInput(e) /\ (\A w \in Walkers : ~ (Rejected(w) /\ InWalker(e, w))) /\ ~ Ready(e)
              => NoInput(e)'
         /\ (\A w \in Walkers : ~ (Pop(w) /\ InInput(e, w, 1)))
              /\ (\A w \in Walkers : InWalker(e, w) => ptw[w].st \notin {"LOOKUP", "ALLOCATE"})
              => NoWalker(e)'
         /\ NoQueue(e) /\ (\A w \in Walkers : ~ (CanEnqueue(w) /\ InWalker(e, w)))
              => NoQueue(e)'
         /\ NoBank(e) /\ (\A b \in Banks : ~ (Dispatch(b) /\ InQueue(e, b, 1)))
              => NoBank(e)' /\ NoAnswerFor(e)'
         /\ NoBank(e) => NoAnswerFor(e)'
<1>1. ASSUME NoInput(e), \A w \in Walkers : ~ (Rejected(w) /\ InWalker(e, w)), ~ Ready(e)
      PROVE  NoInput(e)'
  <2> SUFFICES ASSUME NEW w \in Walkers, NEW j, InInput(e, w, j)' PROVE FALSE
    BY DEF NoInput
  <2>1. j \in 1 .. Len(fifo_in'[w])
    BY DEF InInput
  <2>2. PICK d : d = Popped(w)
    OBVIOUS
  <2>3. InInput(e, w, j + d)
    BY <1>1, <2>1, <2>2, InputMoves
  <2> QED BY <1>1, <2>3 DEF NoInput, InInput
<1>2. ASSUME \A w \in Walkers : ~ (Pop(w) /\ InInput(e, w, 1)),
             \A w \in Walkers : InWalker(e, w) => ptw[w].st \notin {"LOOKUP", "ALLOCATE"}
      PROVE  NoWalker(e)'
  BY <1>2, WalkerMoves DEF NoWalker
<1>3. ASSUME NoQueue(e), \A w \in Walkers : ~ (CanEnqueue(w) /\ InWalker(e, w))
      PROVE  NoQueue(e)'
  <2> SUFFICES ASSUME NEW b \in Banks, NEW j, InQueue(e, b, j)' PROVE FALSE
    BY DEF NoQueue
  <2>1. j \in 1 .. Len(bank_fifo'[b])
    BY DEF InQueue
  <2>2. PICK d : d = Dispatched(b)
    OBVIOUS
  <2>3. \A w \in Walkers : ~ (Enters(w, b) /\ InWalker(e, w))
    BY <1>3 DEF Enters
  <2>4. InQueue(e, b, j + d)
    BY <2>1, <2>2, <2>3, QueueMoves DEF Walkers
  <2> QED BY <1>3, <2>4 DEF NoQueue, InQueue
<1>4. ASSUME NoBank(e) PROVE NoAnswerFor(e)'
  BY <1>4, BankMoves DEF NoBank, NoAnswerFor
<1>5. ASSUME NoBank(e), \A b \in Banks : ~ (Dispatch(b) /\ InQueue(e, b, 1))
      PROVE  NoBank(e)'
  BY <1>5, BankMoves DEF NoBank
<1> QED BY <1>1, <1>2, <1>3, <1>4, <1>5

\* An engine is answered by an answer buffer or by a walker that found no slot.
LEMMA WhoAnswers ==
  ASSUME Types, KeptInv, NEW e \in Engines
  PROVE  Answered(e) <=> /\ port[e] = "wait"
                         /\ \/ \E b \in Banks : InAnswer(e, b)
                            \/ \E w \in Walkers : InWalker(e, w) /\ ptw[w].st = "FAULT"
<1>1. \A w \in Walkers : Fault(w) <=> ptw[w].st = "FAULT"
  BY NoCollision
<1> QED BY <1>1 DEF Answered, RespValid, RespReject, InAnswer, InWalker

LEMMA KeptStep ==
  ASSUME Types, RoomInv, BankInv, KeptInv, QueueInv, NEW raise \in SUBSET Engines, Clock(raise)
  PROVE  KeptInv'
<1> SUFFICES ASSUME NEW e \in Engines
             PROVE  IF port'[e] = "wait" THEN Somewhere(e)' ELSE Nowhere(e)'
  BY DEF KeptInv
<1>1. port'[e] = "wait" <=> \/ port[e] = "req" /\ Ready(e)
                            \/ port[e] = "wait" /\ ~ Answered(e)
  BY PortStep DEF Types
<1>2. Ready(e) => port[e] = "req" /\ To(e) \in Walkers
  BY Sent
<1>3. \A w \in Walkers : /\ Rejected(w) \/ CanEnqueue(w) => ptw[w].st = "DONE"
                         /\ ptw[w].st = "DONE" => Rejected(w) \/ CanEnqueue(w)
                         /\ ~ (Rejected(w) /\ CanEnqueue(w))
                         /\ Pop(w) => ptw[w].st = "IDLE"
  BY NoCollision DEF Rejected, CanEnqueue, Pop
<1>4. \A w \in Walkers : \A i : InInput(e, w, i) => i \in 1 .. Len(fifo_in[w])
  BY DEF InInput
<1>5. \A b \in Banks : \A i : InQueue(e, b, i) => i \in 1 .. Len(bank_fifo[b])
  BY DEF InQueue
<1>6. CASE Nowhere(e) /\ port[e] # "wait"
  <2>1. /\ \A w \in Walkers : ~ InWalker(e, w)
        /\ \A w \in Walkers : ~ InInput(e, w, 1)
        /\ \A b \in Banks : ~ InQueue(e, b, 1)
    BY <1>4, <1>5, <1>6 DEF Nowhere, NoWalker, NoInput, NoQueue
  <2>2. NoWalker(e)' /\ NoQueue(e)' /\ NoBank(e)' /\ NoAnswerFor(e)'
    BY <1>6, <2>1, Origins DEF Nowhere
  <2>3. CASE ~ Ready(e)
    <3>1. NoInput(e)'
      BY <1>6, <2>1, <2>3, Origins DEF Nowhere
    <3> QED BY <1>1, <1>6, <2>2, <2>3, <3>1 DEF Nowhere
  <2>4. CASE Ready(e)
    <3>1. PICK w \in Walkers : w = To(e)
      BY <1>2, <2>4
    <3>2. PICK n : n = Len(fifo_in'[w])
      OBVIOUS
    <3>3. n \in 1 .. n /\ InInput(e, w, n)'
      BY <2>4, <3>1, <3>2, InputMoves
    <3>4. ASSUME NEW v \in Walkers, NEW j \in 1 .. Len(fifo_in'[v]), InInput(e, v, j)'
          PROVE  v = w /\ j = n
      <4>1. PICK d : d = Popped(v)
        OBVIOUS
      <4>2. ~ InInput(e, v, j + d)
        BY <1>4, <1>6 DEF Nowhere, NoInput
      <4> QED BY <2>1, <3>1, <3>2, <3>4, <4>1, <4>2, InputMoves
    <3>5. OnlyInput(e)'
      BY <2>2, <3>2, <3>3, <3>4 DEF OnlyInput
    <3> QED BY <1>1, <1>2, <2>4, <3>5 DEF Somewhere
  <2> QED BY <2>3, <2>4
<1>7. CASE OnlyInput(e) /\ port[e] = "wait"
  <2>1. PICK w \in Walkers : \E i \in 1 .. Len(fifo_in[w]) :
          /\ InInput(e, w, i)
          /\ \A v \in Walkers : \A j \in 1 .. Len(fifo_in[v]) : InInput(e, v, j) => v = w /\ j = i
    BY <1>7 DEF OnlyInput
  <2>2. PICK i \in 1 .. Len(fifo_in[w]) :
          /\ InInput(e, w, i)
          /\ \A v \in Walkers : \A j \in 1 .. Len(fifo_in[v]) : InInput(e, v, j) => v = w /\ j = i
    BY <2>1
  <2>3. /\ \A v \in Walkers : ~ InWalker(e, v)
        /\ \A b \in Banks : ~ InQueue(e, b, 1)
        /\ NoQueue(e) /\ NoBank(e) /\ ~ Ready(e)
    BY <1>2, <1>5, <1>7 DEF OnlyInput, NoWalker, NoQueue
  <2>4. port'[e] = "wait"
    BY <1>1, <1>7, <2>3, WhoAnswers DEF OnlyInput, NoAnswerFor
  <2>5. NoQueue(e)' /\ NoBank(e)' /\ NoAnswerFor(e)'
    BY <2>3, Origins
  <2>6. CASE Pop(w) /\ i = 1
    <3>1. InWalker(e, w)' /\ \A v \in Walkers : InWalker(e, v)' => v = w
      BY <1>4, <2>2, <2>3, <2>6, WalkerMoves
    <3>2. NoInput(e)'
      <4> SUFFICES ASSUME NEW v \in Walkers, NEW j, InInput(e, v, j)' PROVE FALSE
        BY DEF NoInput
      <4>1. j \in 1 .. Len(fifo_in'[v])
        BY DEF InInput
      <4>2. PICK d : d = Popped(v)
        OBVIOUS
      <4>3. InInput(e, v, j + d) /\ d \in {0, 1} /\ Len(fifo_in'[v]) \in Nat
        BY <2>3, <4>1, <4>2, InputMoves
      <4>4. v = w /\ j + d = 1
        BY <1>4, <2>2, <2>6, <4>3
      <4>5. d = 1
        BY <2>6, <4>2, <4>4 DEF Popped
      <4> QED BY ONLY <4>1, <4>3, <4>4, <4>5
    <3> QED BY <2>4, <2>5, <3>1, <3>2 DEF Somewhere, OnlyWalker
  <2>7. CASE ~ (Pop(w) /\ i = 1)
    <3>1. NoWalker(e)'
      <4>1. \A v \in Walkers : ~ (Pop(v) /\ InInput(e, v, 1))
        BY <1>4, <2>2, <2>7
      <4> QED BY <2>3, <4>1, Origins
    <3>2. PICK d : d = Popped(w)
      OBVIOUS
    <3>3. i - d \in 1 .. Len(fifo_in'[w]) /\ InInput(e, w, i - d)' /\ d \in {0, 1}
      BY <2>2, <2>7, <3>2, InputMoves
    <3>4. ASSUME NEW v \in Walkers, NEW j \in 1 .. Len(fifo_in'[v]), InInput(e, v, j)'
          PROVE  v = w /\ j = i - d
      <4>1. PICK c : c = Popped(v)
        OBVIOUS
      <4>2. InInput(e, v, j + c) /\ c \in {0, 1} /\ Len(fifo_in'[v]) \in Nat
        BY <2>3, <3>4, <4>1, InputMoves
      <4>3. v = w /\ j + c = i
        BY <1>4, <2>2, <4>2
      <4>4. c = d
        BY <3>2, <4>1, <4>3
      <4>5. j \in Int
        BY ONLY <4>2, j \in 1 .. Len(fifo_in'[v])
      <4>6. j = i - d
        BY ONLY <3>3, <4>2, <4>3, <4>4, <4>5
      <4> QED BY <4>3, <4>6
    <3> QED BY <2>4, <2>5, <3>1, <3>3, <3>4 DEF Somewhere, OnlyInput
  <2> QED BY <2>6, <2>7
<1>8. CASE OnlyWalker(e) /\ port[e] = "wait"
  <2>1. PICK w \in Walkers : InWalker(e, w) /\ \A v \in Walkers : InWalker(e, v) => v = w
    BY <1>8 DEF OnlyWalker
  <2>2. /\ \A v \in Walkers : ~ InInput(e, v, 1)
        /\ \A b \in Banks : ~ InQueue(e, b, 1)
        /\ NoInput(e) /\ NoQueue(e) /\ NoBank(e) /\ ~ Ready(e)
    BY <1>2, <1>4, <1>5, <1>8 DEF OnlyWalker, NoInput, NoQueue
  <2>3. NoBank(e)' /\ NoAnswerFor(e)'
    BY <2>2, Origins
  <2>4. Answered(e) <=> ptw[w].st = "FAULT"
    BY <1>8, <2>1, WhoAnswers DEF OnlyWalker, NoAnswerFor
  <2>5. ptw[w].st \in {"LOOKUP", "ALLOCATE", "DONE", "FAULT"}
    BY <2>1 DEF InWalker, Types, WalkerTypes, WalkerRegs
  <2>6. CASE ptw[w].st \in {"LOOKUP", "ALLOCATE"}
    <3>1. NoInput(e)' /\ NoQueue(e)'
      BY <1>3, <2>1, <2>2, <2>6, Origins
    <3>2. InWalker(e, w)' /\ \A v \in Walkers : InWalker(e, v)' => v = w
      BY <2>1, <2>2, <2>6, WalkerMoves
    <3> QED BY <1>1, <1>8, <2>3, <2>4, <2>6, <3>1, <3>2 DEF Somewhere, OnlyWalker
  <2>7. CASE ptw[w].st = "FAULT"
    <3>1. NoInput(e)' /\ NoQueue(e)' /\ NoWalker(e)'
      BY <1>3, <2>1, <2>2, <2>7, Origins
    <3> QED BY <1>1, <1>8, <2>3, <2>4, <2>7, <3>1 DEF Nowhere
  <2>8. CASE ptw[w].st = "DONE" /\ Rejected(w)
    <3>1. NoQueue(e)' /\ NoWalker(e)'
      BY <1>3, <2>1, <2>2, <2>8, Origins
    <3>2. PICK n : n = Len(fifo_in'[w])
      OBVIOUS
    <3>3. n \in 1 .. n /\ InInput(e, w, n)'
      BY <2>1, <2>8, <3>2, InputMoves
    <3>4. ASSUME NEW v \in Walkers, NEW j \in 1 .. Len(fifo_in'[v]), InInput(e, v, j)'
          PROVE  v = w /\ j = n
      <4>1. PICK d : d = Popped(v)
        OBVIOUS
      <4>2. ~ InInput(e, v, j + d)
        BY <1>4, <2>2 DEF NoInput
      <4> QED BY <2>1, <2>2, <3>2, <3>4, <4>1, <4>2, InputMoves
    <3> QED BY <1>1, <1>8, <2>3, <2>4, <2>8, <3>1, <3>2, <3>3, <3>4 DEF Somewhere, OnlyInput
  <2>9. CASE ptw[w].st = "DONE" /\ CanEnqueue(w)
    <3>1. NoInput(e)' /\ NoWalker(e)'
      BY <1>3, <2>1, <2>2, <2>9, Origins
    <3>2. PICK b \in Banks : Enters(w, b)
      BY <2>9, DoneFacts DEF Enters, CanEnqueue
    <3>3. PICK n : n = Len(bank_fifo'[b])
      OBVIOUS
    <3>4. PICK d : d = Dispatched(b)
      OBVIOUS
    <3>5. PICK m : m = Len(bank_fifo[b]) - d
      OBVIOUS
    <3>6. PICK i : i = IF w = 0 THEN m + 1 ELSE n
      OBVIOUS
    <3>7. i \in 1 .. n /\ InQueue(e, b, i)'
      BY <2>1, <3>2, <3>3, <3>4, <3>5, <3>6, QueueMoves DEF Walkers
    <3>8. ASSUME NEW c \in Banks, NEW j \in 1 .. Len(bank_fifo'[c]), InQueue(e, c, j)'
          PROVE  c = b /\ j = i
      <4>1. PICK x : x = Dispatched(c)
        OBVIOUS
      <4>2. PICK y : y = Len(bank_fifo[c]) - x
        OBVIOUS
      <4>3. ~ InQueue(e, c, j + x)
        BY <1>5, <2>2 DEF NoQueue
      <4>4. \/ j = y + 1 /\ Enters(0, c) /\ InWalker(e, 0)
            \/ j = Len(bank_fifo'[c]) /\ Enters(1, c) /\ InWalker(e, 1)
        BY <3>8, <4>1, <4>2, <4>3, QueueMoves
      <4>5. c = b
        BY <2>1, <3>2, <4>4 DEF Enters, Walkers
      <4>6. CASE w = 0
        BY <2>1, <3>4, <3>5, <3>6, <4>1, <4>2, <4>4, <4>5, <4>6 DEF Walkers
      <4>7. CASE w = 1
        BY <2>1, <3>3, <3>6, <4>4, <4>5, <4>7 DEF Walkers
      <4> QED BY <4>5, <4>6, <4>7 DEF Walkers
    <3> QED BY <1>1, <1>8, <2>3, <2>4, <2>9, <3>1, <3>3, <3>7, <3>8 DEF Somewhere, OnlyQueue
  <2> QED BY <1>3, <2>5, <2>6, <2>7, <2>8, <2>9
<1>9. CASE OnlyQueue(e) /\ port[e] = "wait"
  <2>1. PICK b \in Banks : \E i \in 1 .. Len(bank_fifo[b]) :
          /\ InQueue(e, b, i)
          /\ \A c \in Banks : \A j \in 1 .. Len(bank_fifo[c]) : InQueue(e, c, j) => c = b /\ j = i
    BY <1>9 DEF OnlyQueue
  <2>2. PICK i \in 1 .. Len(bank_fifo[b]) :
          /\ InQueue(e, b, i)
          /\ \A c \in Banks : \A j \in 1 .. Len(bank_fifo[c]) : InQueue(e, c, j) => c = b /\ j = i
    BY <2>1
  <2>3. /\ \A v \in Walkers : ~ InWalker(e, v)
        /\ \A v \in Walkers : ~ InInput(e, v, 1)
        /\ NoInput(e) /\ NoBank(e) /\ ~ Ready(e)
    BY <1>2, <1>4, <1>9 DEF OnlyQueue, NoWalker, NoInput
  <2>4. port'[e] = "wait"
    BY <1>1, <1>9, <2>3, WhoAnswers DEF OnlyQueue, NoAnswerFor
  <2>5. NoInput(e)' /\ NoWalker(e)' /\ NoAnswerFor(e)'
    BY <2>3, Origins
  <2>6. ASSUME NEW c \in Banks, NEW j \in 1 .. Len(bank_fifo'[c]), InQueue(e, c, j)',
               NEW x, x = Dispatched(c)
        PROVE  c = b /\ j = i - x /\ j \in Int /\ x \in {0, 1} /\ (x = 1 => j # 0)
    <3>1. PICK y : y = Len(bank_fifo[c]) - x
      OBVIOUS
    <3>2. InQueue(e, c, j + x) /\ x \in {0, 1} /\ Len(bank_fifo'[c]) \in Nat
      BY <2>3, <2>6, <3>1, QueueMoves DEF Walkers
    <3>3. c = b /\ j + x = i
      BY <1>5, <2>2, <3>2
    <3>4. j \in Int /\ j # 0
      BY ONLY <3>2, j \in 1 .. Len(bank_fifo'[c])
    <3>5. j = i - x
      BY ONLY <3>2, <3>3, <3>4
    <3> QED BY <3>2, <3>3, <3>4, <3>5
  <2>7. CASE Dispatch(b) /\ i = 1
    <3>1. InBank(e, b)' /\ \A c \in Banks : InBank(e, c)' => c = b
      BY <1>5, <2>2, <2>3, <2>7, BankMoves DEF NoBank
    <3>2. NoQueue(e)'
      <4> SUFFICES ASSUME NEW c \in Banks, NEW j, InQueue(e, c, j)' PROVE FALSE
        BY DEF NoQueue
      <4>1. j \in 1 .. Len(bank_fifo'[c])
        BY DEF InQueue
      <4>2. PICK x : x = Dispatched(c)
        OBVIOUS
      <4>3. c = b /\ j = i - x /\ j \in Int /\ (x = 1 => j # 0)
        BY <2>6, <4>1, <4>2
      <4>4. x = 1
        BY <2>7, <4>2, <4>3 DEF Dispatched
      <4> QED BY ONLY <2>7, <4>3, <4>4
    <3> QED BY <2>4, <2>5, <3>1, <3>2 DEF Somewhere, OnlyBank
  <2>8. CASE ~ (Dispatch(b) /\ i = 1)
    <3>1. NoBank(e)'
      <4>1. \A c \in Banks : ~ (Dispatch(c) /\ InQueue(e, c, 1))
        BY <1>5, <2>2, <2>8
      <4> QED BY <2>3, <4>1, Origins
    <3>2. PICK d : d = Dispatched(b)
      OBVIOUS
    <3>3. i - d \in 1 .. Len(bank_fifo'[b]) /\ InQueue(e, b, i - d)'
      <4>1. PICK m : m = Len(bank_fifo[b]) - d
        OBVIOUS
      <4>2. PICK n : n = Len(bank_fifo'[b])
        OBVIOUS
      <4>3. i - d \in 1 .. n /\ InQueue(e, b, i - d)'
        BY <2>2, <2>8, <3>2, <4>1, <4>2, QueueMoves
      <4> QED BY <4>2, <4>3
    <3>4. ASSUME NEW c \in Banks, NEW j \in 1 .. Len(bank_fifo'[c]), InQueue(e, c, j)'
          PROVE  c = b /\ j = i - d
      <4>1. PICK x : x = Dispatched(c)
        OBVIOUS
      <4>2. c = b /\ j = i - x
        BY <2>6, <3>4, <4>1
      <4> QED BY <3>2, <4>1, <4>2
    <3> QED BY <2>4, <2>5, <3>1, <3>3, <3>4 DEF Somewhere, OnlyQueue
  <2> QED BY <2>7, <2>8
<1>10. CASE OnlyBank(e) /\ port[e] = "wait"
  <2>1. PICK b \in Banks : InBank(e, b) /\ \A c \in Banks : InBank(e, c) => c = b
    BY <1>10 DEF OnlyBank
  <2>2. /\ \A v \in Walkers : ~ InWalker(e, v)
        /\ \A v \in Walkers : ~ InInput(e, v, 1)
        /\ \A c \in Banks : ~ InQueue(e, c, 1)
        /\ NoInput(e) /\ NoQueue(e) /\ ~ Ready(e)
    BY <1>2, <1>4, <1>5, <1>10 DEF OnlyBank, NoWalker, NoInput, NoQueue
  <2>3. port'[e] = "wait"
    BY <1>1, <1>10, <2>2, WhoAnswers DEF OnlyBank, NoAnswerFor
  <2>4. NoInput(e)' /\ NoWalker(e)' /\ NoQueue(e)'
    BY <2>2, Origins
  <2>5. CASE Completes(b)
    <3>1. /\ InAnswer(e, b)' /\ \A c \in Banks : InAnswer(e, c)' => c = b
          /\ NoBank(e)'
      BY <2>1, <2>2, <2>5, BankMoves DEF NoBank
    <3> QED BY <2>3, <2>4, <3>1 DEF Somewhere, OnlyAnswer
  <2>6. CASE ~ Completes(b)
    <3>1. /\ InBank(e, b)' /\ \A c \in Banks : InBank(e, c)' => c = b
          /\ NoAnswerFor(e)'
      BY <2>1, <2>2, <2>6, BankMoves DEF NoAnswerFor
    <3> QED BY <2>3, <2>4, <3>1 DEF Somewhere, OnlyBank
  <2> QED BY <2>5, <2>6
<1>11. CASE OnlyAnswer(e) /\ port[e] = "wait"
  <2>1. /\ \A v \in Walkers : ~ InWalker(e, v)
        /\ \A v \in Walkers : ~ InInput(e, v, 1)
        /\ \A c \in Banks : ~ InQueue(e, c, 1)
        /\ NoInput(e) /\ NoQueue(e) /\ NoBank(e) /\ ~ Ready(e)
    BY <1>2, <1>4, <1>5, <1>11 DEF OnlyAnswer, NoWalker, NoInput, NoQueue
  <2>2. Nowhere(e)'
    BY <2>1, Origins DEF Nowhere
  <2>3. Answered(e)
    BY <1>11, WhoAnswers DEF OnlyAnswer
  <2> QED BY <1>1, <1>11, <2>2, <2>3
<1> QED BY <1>6, <1>7, <1>8, <1>9, <1>10, <1>11 DEF KeptInv, Somewhere

-----------------------------------------------------------------------------
(* What an edge does to the allocator and the page table.                   *)

\* Advance moves to the slot after the one handed out.
LEMMA AdvanceFacts ==
  ASSUME NEW s \in SlotRegs, ~ s.full
  PROVE  /\ Advance(s) \in SlotRegs
         /\ Below(Advance(s), s.page, s.node) /\ ~ Below(s, s.page, s.node)
         /\ \A page \in 0 .. PagesPerPartition - 1, node \in 0 .. NodesPerPage - 1 :
              Below(s, page, node) => Below(Advance(s), page, node)
<1>1. PICK P \in Nat \ {0}, N \in Nat \ {0} : P = PagesPerPartition /\ N = NodesPerPage
  BY Sizes
<1>2. SlotRegs = [page : 0 .. P - 1, node : 0 .. N - 1, full : BOOLEAN]
  BY <1>1 DEF SlotRegs
<1>3. PICK x \in 0 .. P - 1, y \in 0 .. N - 1 : s.page = x /\ s.node = y
  BY <1>2
<1>4. PICK u : u = Advance(s)
  OBVIOUS
<1>5. ~ Below(s, s.page, s.node)
  BY <1>3 DEF Below
<1>0. 0 \in 0 .. N - 1
  BY ONLY N \in Nat \ {0}
<1>6. CASE y < N - 1
  <2>1. u = [s EXCEPT !.node = y + 1]
    BY <1>1, <1>3, <1>4, <1>6 DEF Advance
  <2>2. u \in SlotRegs /\ u.page = x /\ u.node = y + 1 /\ u.full = s.full
    BY ONLY <1>1, <1>2, <1>3, <1>6, <2>1, s \in SlotRegs
  <2> QED BY <1>1, <1>3, <1>4, <1>5, <2>2 DEF Below
<1>7. CASE ~ (y < N - 1) /\ x = P - 1
  <2>1. u = [s EXCEPT !.node = 0, !.full = TRUE]
    BY <1>1, <1>3, <1>4, <1>7 DEF Advance
  <2>2. u \in SlotRegs /\ u.full
    BY ONLY <1>0, <1>2, <1>3, <2>1, s \in SlotRegs
  <2> QED BY <1>4, <1>5, <2>2 DEF Below
<1>8. CASE ~ (y < N - 1) /\ x # P - 1
  <2>1. u = [s EXCEPT !.node = 0, !.page = x + 1]
    BY <1>1, <1>3, <1>4, <1>8 DEF Advance
  <2>2. u \in SlotRegs /\ u.page = x + 1 /\ u.node = 0 /\ u.full = s.full
    <3>1. x + 1 \in 0 .. P - 1
      BY ONLY <1>8, P \in Nat \ {0}, x \in 0 .. P - 1
    <3> QED BY ONLY <1>0, <1>2, <1>3, <2>1, <3>1, s \in SlotRegs
  <2>3. ASSUME NEW page \in 0 .. P - 1, NEW node \in 0 .. N - 1, Below(s, page, node)
        PROVE  page < x + 1
    BY <1>3, <2>3, ~ s.full DEF Below
  <2> QED BY <1>1, <1>3, <1>4, <1>5, <2>2, <2>3 DEF Below
<1> QED BY <1>6, <1>7, <1>8

\* Mappings are only added, for the keys of walkers that allocate, each with the
\* next slot of its partition, which moves on.
LEMMA TableStep ==
  ASSUME Types, KeptInv, WalkInv, NEW raise \in SUBSET Engines, Clock(raise)
  PROVE  /\ \A k : k \in DOMAIN page_table' <=>
              \/ k \in DOMAIN page_table
              \/ \E w \in Walkers : Alloc(w) /\ ptw[w].req.key = k
         /\ \A k \in DOMAIN page_table : page_table'[k] = page_table[k]
         /\ \A w \in Walkers : Alloc(w) =>
              /\ ptw[w].st = "ALLOCATE" /\ ptw[w].req.key \in Keys
              /\ ptw[w].req.key \notin DOMAIN page_table
              /\ page_table'[ptw[w].req.key] = AllocSlot(w)
              /\ ~ next_slot[Partition(ptw[w].req.key)].full
              /\ next_slot'[Partition(ptw[w].req.key)]
                   = Advance(next_slot[Partition(ptw[w].req.key)])
         /\ \A v, w \in Walkers : Alloc(v) /\ Alloc(w)
              /\ Partition(ptw[v].req.key) = Partition(ptw[w].req.key) => v = w
         /\ \A p \in Partitions :
              (~ \E w \in Walkers : Alloc(w) /\ Partition(ptw[w].req.key) = p)
                => next_slot'[p] = next_slot[p]
         /\ DOMAIN next_slot' = Partitions /\ next_slot' = [p \in Partitions |-> next_slot'[p]]
         /\ page_table' = [k \in DOMAIN page_table' |-> page_table'[k]]
<1>1. page_table' = PageTableNext /\ next_slot' = NextSlots
  BY Edge
<1>2. ~ SameAllocCollision /\ \A w \in Walkers : AllocEff(w) <=> Alloc(w)
  BY NoCollision
<1>3. NewMappings = {w \in Walkers : Alloc(w)}
  BY <1>2 DEF NewMappings
<1>4. DOMAIN page_table' = DOMAIN page_table \cup {ptw[w].req.key : w \in NewMappings}
  BY <1>1 DEF PageTableNext
<1>5. \A k \in DOMAIN page_table' :
        page_table'[k] = IF \E w \in NewMappings : ptw[w].req.key = k
                         THEN AllocSlot(CHOOSE w \in NewMappings : ptw[w].req.key = k)
                         ELSE page_table[k]
  BY <1>1 DEF PageTableNext
<1>6. \A v, w \in Walkers : Alloc(v) /\ Alloc(w)
        /\ Partition(ptw[v].req.key) = Partition(ptw[w].req.key) => v = w
  BY <1>2 DEF SameAllocCollision, Walkers
<1>7. ASSUME NEW w \in Walkers, Alloc(w)
      PROVE  /\ ptw[w].st = "ALLOCATE" /\ ptw[w].req.key \in Keys
             /\ ptw[w].req.key \notin DOMAIN page_table
             /\ ~ next_slot[Partition(ptw[w].req.key)].full
             /\ Partition(ptw[w].req.key) \in Partitions
  <2>1. ptw[w].st = "ALLOCATE" /\ ~ next_slot[Partition(ptw[w].req.key)].full
    BY <1>7 DEF Alloc, AllocAvail
  <2> QED BY <2>1, AllocRange DEF WalkInv
<1>8. ASSUME NEW w \in Walkers, Alloc(w)
      PROVE  page_table'[ptw[w].req.key] = AllocSlot(w)
  <2>1. PICK k : k = ptw[w].req.key
    OBVIOUS
  <2>2. w \in NewMappings /\ k \in DOMAIN page_table'
    BY <1>3, <1>4, <1>8, <2>1
  <2>3. \A v \in NewMappings : ptw[v].req.key = k => v = w
    BY <1>3, <1>6, <1>8, <2>1
  <2>4. (CHOOSE v \in NewMappings : ptw[v].req.key = k) = w
    BY <2>1, <2>2, <2>3
  <2>5. page_table'[k] = AllocSlot(CHOOSE v \in NewMappings : ptw[v].req.key = k)
    BY <1>5, <2>1, <2>2
  <2> QED BY <2>1, <2>4, <2>5
<1>9. ASSUME NEW k \in DOMAIN page_table PROVE page_table'[k] = page_table[k]
  <2>1. ~ \E w \in NewMappings : ptw[w].req.key = k
    BY <1>3, <1>7
  <2> QED BY <1>4, <1>5, <2>1
<1>10. \A k : k \in DOMAIN page_table' <=>
              \/ k \in DOMAIN page_table
              \/ \E w \in Walkers : Alloc(w) /\ ptw[w].req.key = k
  BY <1>3, <1>4
<1>11. \A p \in Partitions : next_slot'[p] =
         IF \E w \in Walkers : Alloc(w) /\ Partition(ptw[w].req.key) = p
         THEN Advance(next_slot[p]) ELSE next_slot[p]
  BY <1>1, <1>2 DEF NextSlots
<1>12. DOMAIN next_slot' = Partitions /\ next_slot' = [p \in Partitions |-> next_slot'[p]]
  BY <1>1 DEF NextSlots
<1>13. page_table' = [k \in DOMAIN page_table' |-> page_table'[k]]
  BY <1>1 DEF PageTableNext
<1> QED BY <1>6, <1>7, <1>8, <1>9, <1>10, <1>11, <1>12, <1>13

-----------------------------------------------------------------------------
(* The parts of the invariant that need no more than that.                  *)

LEMMA TypesStep ==
  ASSUME Types, RoomInv, BankInv, KeptInv, WalkInv, QueueInv,
         NEW raise \in SUBSET Engines, Clock(raise)
  PROVE  Types'
<1>1. EngineTypes'
  BY PortStep DEF Types
<1>2. WalkerTypes'
  <2>1. fifo_in' = [w \in Walkers |-> fifo_in'[w]] /\ ptw' = [w \in Walkers |-> ptw'[w]]
    BY DEF Clock
  <2>2. ASSUME NEW w \in Walkers
        PROVE  /\ fifo_in'[w] \in Seq(Reqs) /\ ptw'[w] \in WalkerRegs
               /\ ptw'[w].st # "IDLE" => ptw'[w].req \in Reqs
               /\ ptw'[w].st = "DONE" => ptw'[w].pa \in Pas
    <3>1. PICK f : f = FifoNext(w)
      OBVIOUS
    <3>2. PICK u : u = WalkerNext(w)
      OBVIOUS
    <3>3. f \in Seq(Reqs)
      BY <3>1, InputStep
    <3>4. u \in WalkerRegs /\ (u.st = "DONE" => u.pa \in Pas) /\ (u.st # "IDLE" => u.req \in Reqs)
      BY <3>2, WalkerStep
    <3> QED BY <3>1, <3>2, <3>3, <3>4, Edge
  <2>3. fifo_in' \in [Walkers -> Seq(Reqs)] /\ ptw' \in [Walkers -> WalkerRegs]
    BY <2>1, <2>2
  <2>4. rr_priority' \in Walkers
    <3>1. rr_priority' = PriorityNext /\ rr_priority \in {0, 1}
      BY DEF Clock, Types, WalkerTypes, Walkers
    <3> QED BY <3>1 DEF PriorityNext, Walkers
  <2> QED BY <2>2, <2>3, <2>4 DEF WalkerTypes
<1>3. TableTypes'
  <2>1. next_slot' \in [Partitions -> SlotRegs]
    <3>1. ASSUME NEW p \in Partitions PROVE next_slot'[p] \in SlotRegs
      <4>1. next_slot[p] \in SlotRegs
        BY DEF Types, TableTypes
      <4>2. CASE \E w \in Walkers : Alloc(w) /\ Partition(ptw[w].req.key) = p
        BY <4>1, <4>2, TableStep, AdvanceFacts
      <4>3. CASE ~ \E w \in Walkers : Alloc(w) /\ Partition(ptw[w].req.key) = p
        BY <4>1, <4>3, TableStep
      <4> QED BY <4>2, <4>3
    <3>2. next_slot' = [p \in Partitions |-> next_slot'[p]]
      BY TableStep
    <3> QED BY ONLY <3>1, <3>2
  <2>2. ASSUME NEW k \in DOMAIN page_table' PROVE k \in Keys /\ page_table'[k] \in Pas
    <3>1. CASE k \in DOMAIN page_table
      BY <3>1, TableStep DEF Types, TableTypes
    <3>2. CASE \E w \in Walkers : Alloc(w) /\ ptw[w].req.key = k
      <4>1. PICK w \in Walkers : Alloc(w) /\ ptw[w].req.key = k
        BY <3>2
      <4>2. ptw[w].st = "ALLOCATE" /\ k \in Keys /\ page_table'[k] = AllocSlot(w)
        BY <4>1, TableStep
      <4> QED BY <4>2, AllocRange
    <3> QED BY <3>1, <3>2, TableStep
  <2>3. page_table' = [k \in DOMAIN page_table' |-> page_table'[k]]
    BY TableStep
  <2>4. page_table' \in [DOMAIN page_table' -> Pas]
    BY ONLY <2>2, <2>3
  <2> QED BY <2>1, <2>2, <2>4 DEF TableTypes
<1>4. BankTypes'
  <2>1. /\ bank_fifo' = [b \in Banks |-> bank_fifo'[b]] /\ va_fifo' = [b \in Banks |-> va_fifo'[b]]
        /\ bank' = [b \in Banks |-> bank'[b]] /\ resp_buf' = [b \in Banks |-> resp_buf'[b]]
    BY DEF Clock
  <2>2. ASSUME NEW b \in Banks
        PROVE  /\ bank_fifo'[b] \in Seq(Entries) /\ va_fifo'[b] \in Seq(Engines)
               /\ bank'[b] \in BankRegs /\ resp_buf'[b] \in Answers
               /\ bank'[b].st # "IDLE" => bank'[b].at \in Locals
    <3>1. PICK f : f = BankFifoNext(b)
      OBVIOUS
    <3>2. f \in Seq(Entries)
      <4>1. PICK d : d = Dispatched(b)
        OBVIOUS
      <4>2. PICK n : n = Len(bank_fifo[b]) - d
        OBVIOUS
      <4>3. QueueMove(b, f, d, n)
        BY <3>1, <4>1, <4>2, QueueStep
      <4> QED BY ONLY <4>3 DEF QueueMove
    <3>3. PICK u : u = BankNext(b)
      OBVIOUS
    <3>4. u \in BankRegs /\ (u.st # "IDLE" => u.at \in Locals)
      BY <3>3, BankStep
    <3>5. PICK v : v = VaFifoNext(b)
      OBVIOUS
    <3>6. PICK a : a = RespNext(b)
      OBVIOUS
    <3>7. v \in Seq(Engines) /\ a \in Answers
      BY <3>5, <3>6, AnswerStep
    <3> QED BY <3>1, <3>2, <3>3, <3>4, <3>5, <3>6, <3>7, Edge
  <2>3. /\ bank_fifo' \in [Banks -> Seq(Entries)] /\ va_fifo' \in [Banks -> Seq(Engines)]
        /\ bank' \in [Banks -> BankRegs] /\ resp_buf' \in [Banks -> Answers]
    BY ONLY <2>1, <2>2
  <2> QED BY <2>2, <2>3 DEF BankTypes
<1>5. RamTypes'
  <2>1. ram' = [b \in Banks |-> ram'[b]] /\ written' = [k \in Keys |-> written'[k]]
    BY DEF Clock
  <2>2. ASSUME NEW b \in Banks PROVE ram'[b] \in [Locals -> [Words -> Nat]]
    <3>1. ram'[b] = RamNext(b) /\ ram[b] \in [Locals -> [Words -> Nat]]
      BY Edge DEF Types, RamTypes
    <3>2. CASE ~ (InPhase(b) /\ bank[b].wr)
      BY <3>1, <3>2 DEF RamNext
    <3>3. CASE InPhase(b) /\ bank[b].wr
      <4>1. ram'[b] = [ram[b] EXCEPT ![bank[b].at][Phase(bank[b].st)] = bank[b].data]
        BY <3>1, <3>3 DEF RamNext
      <4>2. bank[b].data \in Nat
        BY DEF Types, BankTypes, BankRegs
      <4>3. PICK at \in Locals : at = bank[b].at
        BY <3>3 DEF Types, BankTypes, InPhase
      <4>4. PICK x \in Words : x = Phase(bank[b].st)
        BY <3>3 DEF InPhase, Phase, Words
      <4>5. PICK g \in [Words -> Nat] : g = ram[b][at]
        BY <3>1
      <4>6. PICK h : h = [g EXCEPT ![x] = bank[b].data]
        OBVIOUS
      <4>7. h \in [Words -> Nat]
        BY ONLY <4>2, <4>6, g \in [Words -> Nat], x \in Words
      <4>8. ram'[b] = [ram[b] EXCEPT ![at] = h]
        BY <4>1, <4>3, <4>4, <4>5, <4>6
      <4> QED BY ONLY <3>1, <4>7, <4>8, at \in Locals
    <3> QED BY <3>2, <3>3
  <2>3. ASSUME NEW k \in Keys PROVE written'[k] \in Nat
    <3>1. PICK e \in Engines : e = k[1]
      BY KeyFacts
    <3>2. written'[k] = IF Answered(e) /\ RespValid(e) /\ Request(e).wr /\ Request(e).key = k
                        THEN Request(e).data ELSE written[k]
      BY <3>1 DEF Clock
    <3>3. written[k] \in Nat /\ Request(e).data \in Nat
      BY RequestFacts DEF Types, RamTypes, Reqs
    <3> QED BY <3>2, <3>3
  <2>4. ram' \in [Banks -> [Locals -> [Words -> Nat]]] /\ written' \in [Keys -> Nat]
    BY ONLY <2>1, <2>2, <2>3
  <2> QED BY <2>4 DEF RamTypes
<1> QED BY <1>1, <1>2, <1>3, <1>4, <1>5 DEF Types

LEMMA RoomStep ==
  ASSUME Types, RoomInv, NEW raise \in SUBSET Engines, Clock(raise)
  PROVE  RoomInv'
<1>1. ASSUME NEW w \in Walkers
      PROVE  Len(fifo_in'[w]) <= IF ptw'[w].st = "IDLE" THEN InDepth ELSE InDepth - 1
  <2>1. PICK u : u = FifoNext(w)
    OBVIOUS
  <2>2. PICK d : d = Popped(w)
    OBVIOUS
  <2>3. Len(u) <= IF WalkerNext(w).st = "IDLE" THEN InDepth ELSE InDepth - 1
    BY <2>1, <2>2, InputStep
  <2> QED BY <2>1, <2>3, Edge
<1>2. ASSUME NEW b \in Banks PROVE Len(bank_fifo'[b]) <= BankDepth
  <2>1. PICK f : f = BankFifoNext(b)
    OBVIOUS
  <2>2. PICK d : d = Dispatched(b)
    OBVIOUS
  <2>3. PICK n : n = Len(bank_fifo[b]) - d
    OBVIOUS
  <2>4. Len(f) <= BankDepth
    <3>1. QueueMove(b, f, d, n)
      BY <2>1, <2>2, <2>3, QueueStep
    <3> QED BY ONLY <3>1 DEF QueueMove
  <2> QED BY <2>1, <2>4, Edge
<1> QED BY <1>1, <1>2 DEF RoomInv

LEMMA BankInvStep ==
  ASSUME Types, QueueInv, BankInv, NEW raise \in SUBSET Engines, Clock(raise)
  PROVE  BankInv'
<1> SUFFICES ASSUME NEW b \in Banks
             PROVE  /\ Completes(b)' => bank'[b].st = "IDLE" /\ ~ resp_buf'[b].valid
                    /\ ~ (bank'[b].valid /\ bank'[b].wdone)
                    /\ resp_buf'[b].valid => bank'[b].st \in {"IDLE", "PHASE_0"}
                    /\ bank'[b].st = "DONE_READ" => ~ bank'[b].wr
                    /\ Len(va_fifo'[b]) = IF bank'[b].st # "IDLE" \/ Completes(b)' THEN 1 ELSE 0
  BY DEF BankInv
<1>1. PICK t : t = bank[b]
  OBVIOUS
<1>2. PICK u : u = BankNext(b)
  OBVIOUS
<1>3. PICK v : v = VaFifoNext(b)
  OBVIOUS
<1>4. PICK a : a = RespNext(b)
  OBVIOUS
<1>5. bank'[b] = u /\ va_fifo'[b] = v /\ resp_buf'[b] = a
  BY <1>2, <1>3, <1>4, Edge
<1>6. Completes(b)' <=> u.valid \/ u.wdone
  BY <1>5 DEF Completes
<1>7. /\ u.valid = (t.st = "DONE_READ") /\ u.wdone = (t.st = "PHASE_2" /\ t.wr)
      /\ Dispatch(b) => t.st = "IDLE" /\ u.st = "PHASE_0"
      /\ InPhase(b) => u.wr = t.wr /\ u.st = AfterPhase(t)
      /\ t.st = "DONE_READ" => u.st = "IDLE"
      /\ t.st = "IDLE" /\ ~ Dispatch(b) => u.st = "IDLE"
  BY <1>1, <1>2, BankStep
<1>8. /\ Completes(b) => a.valid
      /\ ~ Completes(b) => ~ a.valid
      /\ Dispatch(b) => Len(v) = 1
      /\ ~ Dispatch(b) /\ Completes(b) => Len(v) = 0
      /\ ~ Dispatch(b) /\ ~ Completes(b) => v = va_fifo[b]
  BY <1>3, <1>4, AnswerStep
<1>9. /\ Completes(b) => t.st = "IDLE"
      /\ Len(va_fifo[b]) = IF t.st # "IDLE" \/ Completes(b) THEN 1 ELSE 0
  BY <1>1 DEF BankInv
<1>10. t.st \in {"IDLE", "PHASE_0", "PHASE_1", "PHASE_2", "DONE_READ"} /\ t.wr \in BOOLEAN
  BY <1>1 DEF Types, BankTypes, BankRegs
<1>11. CASE t.st = "IDLE"
  <2>1. ~ u.valid /\ ~ u.wdone /\ u.st \in {"IDLE", "PHASE_0"}
    BY <1>7, <1>11
  <2>2. Len(v) = IF u.st # "IDLE" THEN 1 ELSE 0
    BY <1>7, <1>8, <1>9, <1>11
  <2> QED BY <1>5, <1>6, <2>1, <2>2
<1>12. CASE t.st \in {"PHASE_0", "PHASE_1", "PHASE_2"}
  <2>1. InPhase(b) /\ ~ Dispatch(b) /\ ~ Completes(b)
    BY <1>1, <1>9, <1>12 DEF InPhase, Dispatch
  <2>2. Len(v) = 1 /\ ~ a.valid
    BY <1>8, <1>9, <1>12, <2>1
  <2>3. u.st = AfterPhase(t) /\ u.wr = t.wr
    BY <1>7, <2>1
  <2>4. CASE t.st = "PHASE_0"
    BY <1>5, <1>6, <1>7, <2>2, <2>3, <2>4 DEF AfterPhase
  <2>5. CASE t.st = "PHASE_1"
    BY <1>5, <1>6, <1>7, <2>2, <2>3, <2>5 DEF AfterPhase
  <2>6. CASE t.st = "PHASE_2"
    <3>1. u.st = IF t.wr THEN "IDLE" ELSE "DONE_READ"
      BY <2>3, <2>6 DEF AfterPhase
    <3>2. ~ u.valid /\ u.wdone = t.wr
      BY <1>7, <1>10, <2>6, Zenon
    <3> QED BY <1>5, <1>6, <1>10, <2>2, <2>3, <3>1, <3>2
  <2> QED BY <1>12, <2>4, <2>5, <2>6
<1>13. CASE t.st = "DONE_READ"
  <2>1. ~ Dispatch(b) /\ ~ Completes(b)
    BY <1>1, <1>9, <1>13 DEF Dispatch
  <2>2. Len(v) = 1 /\ ~ a.valid
    BY <1>8, <1>9, <1>13, <2>1
  <2> QED BY <1>5, <1>6, <1>7, <1>13, <2>2
<1> QED BY <1>10, <1>11, <1>12, <1>13

\* An entry of a bank queue was there or has just entered.
LEMMA QueueFrom ==
  ASSUME Types, RoomInv, NEW b \in Banks, NEW u, u = BankFifoNext(b), NEW j \in 1 .. Len(u)
  PROVE  \/ \E i \in 1 .. Len(bank_fifo[b]) : u[j] = bank_fifo[b][i]
         \/ \E w \in Walkers : Enters(w, b) /\ u[j] = Entry(w)
<1>1. PICK d : d = Dispatched(b)
  OBVIOUS
<1>2. PICK n : n = Len(bank_fifo[b]) - d
  OBVIOUS
<1>3. /\ d \in {0, 1} /\ n \in Nat /\ u \in Seq(Entries)
      /\ Len(u) = n + (IF Enters(0, b) THEN 1 ELSE 0) + (IF Enters(1, b) THEN 1 ELSE 0)
      /\ \A i \in 1 .. n : u[i] = bank_fifo[b][i + d]
      /\ Enters(0, b) => u[n + 1] = Entry(0)
      /\ Enters(1, b) => u[Len(u)] = Entry(1)
  <2>1. QueueMove(b, u, d, n)
    BY <1>1, <1>2, QueueStep
  <2> QED BY ONLY <2>1 DEF QueueMove
<1>4. Len(bank_fifo[b]) \in Nat /\ Len(u) \in Nat
  BY <1>3 DEF Types, BankTypes
<1>5. CASE j <= n
  <2>1. j \in 1 .. n /\ j + d \in 1 .. Len(bank_fifo[b])
    BY ONLY <1>2, <1>3, <1>4, <1>5, j \in 1 .. Len(u)
  <2> QED BY <1>3, <2>1
<1>6. CASE ~ (j <= n)
  <2>1. (j = n + 1 /\ Enters(0, b)) \/ (j = Len(u) /\ Enters(1, b))
    BY ONLY <1>3, <1>4, <1>6, j \in 1 .. Len(u)
  <2> QED BY <1>3, <2>1 DEF Walkers
<1> QED BY <1>5, <1>6

\* A request is in one place, and its engine waits.
LEMMA OnePlace ==
  ASSUME KeptInv, NEW e \in Engines
  PROVE  /\ \A v \in Walkers : InWalker(e, v) =>
              /\ \A w \in Walkers : InWalker(e, w) => w = v
              /\ \A w \in Walkers : \A i \in 1 .. Len(fifo_in[w]) : ~ InInput(e, w, i)
              /\ \A b \in Banks : \A i \in 1 .. Len(bank_fifo[b]) : ~ InQueue(e, b, i)
              /\ \A b \in Banks : ~ InBank(e, b) /\ ~ InAnswer(e, b)
         /\ \A b \in Banks : \A i \in 1 .. Len(bank_fifo[b]) : InQueue(e, b, i) =>
              \A c \in Banks : ~ InBank(e, c) /\ ~ InAnswer(e, c)
         /\ \A b \in Banks : InBank(e, b) =>
              \A c \in Banks : ~ InAnswer(e, c) /\ (InBank(e, c) => c = b)
         /\ \A b \in Banks : InBank(e, b) \/ InAnswer(e, b) => port[e] = "wait"
         /\ \A b, c \in Banks : InAnswer(e, b) /\ InAnswer(e, c) => b = c
<1>1. port[e] # "wait" => Nowhere(e)
  BY DEF KeptInv
<1>2. port[e] = "wait" =>
        OnlyInput(e) \/ OnlyWalker(e) \/ OnlyQueue(e) \/ OnlyBank(e) \/ OnlyAnswer(e)
  BY DEF KeptInv, Somewhere
<1>3. CASE Nowhere(e)
  BY <1>3 DEF Nowhere, NoInput, NoWalker, NoQueue, NoBank, NoAnswerFor
<1>4. CASE OnlyInput(e) /\ port[e] = "wait"
  BY <1>4 DEF OnlyInput, NoWalker, NoQueue, NoBank, NoAnswerFor
<1>5. CASE OnlyWalker(e) /\ port[e] = "wait"
  BY <1>5 DEF OnlyWalker, NoInput, NoQueue, NoBank, NoAnswerFor
<1>6. CASE OnlyQueue(e) /\ port[e] = "wait"
  BY <1>6 DEF OnlyQueue, NoInput, NoWalker, NoBank, NoAnswerFor
<1>7. CASE OnlyBank(e) /\ port[e] = "wait"
  BY <1>7 DEF OnlyBank, NoInput, NoWalker, NoQueue, NoAnswerFor
<1>8. CASE OnlyAnswer(e) /\ port[e] = "wait"
  BY <1>8 DEF OnlyAnswer, NoInput, NoWalker, NoQueue, NoBank
<1> QED BY <1>1, <1>2, <1>3, <1>4, <1>5, <1>6, <1>7, <1>8

\* What is in a place after an edge was asked for before it.
LEMMA StillAsked ==
  ASSUME Types, KeptInv', NEW raise \in SUBSET Engines, Clock(raise), NEW e \in Engines,
         \/ \E w \in Walkers : InWalker(e, w)' \/ \E i : InInput(e, w, i)'
         \/ \E b \in Banks : InBank(e, b)' \/ InAnswer(e, b)' \/ \E i : InQueue(e, b, i)'
  PROVE  Request(e)' = Request(e) /\ port'[e] = "wait"
<1>1. ~ Nowhere(e)'
  <2>1. \A w \in Walkers : \A i : InInput(e, w, i)' => i \in 1 .. Len(fifo_in'[w])
    BY DEF InInput
  <2>2. \A b \in Banks : \A i : InQueue(e, b, i)' => i \in 1 .. Len(bank_fifo'[b])
    BY DEF InQueue
  <2> QED BY <2>1, <2>2 DEF Nowhere, NoInput, NoWalker, NoQueue, NoBank, NoAnswerFor
<1>2. port'[e] = "wait"
  BY <1>1 DEF KeptInv
<1> QED BY <1>2, PortStep DEF Types

LEMMA SameStep ==
  ASSUME Types, Types', RoomInv, SameInv, KeptInv', NEW raise \in SUBSET Engines, Clock(raise)
  PROVE  SameInv'
<1>1. ASSUME NEW w \in Walkers, NEW j \in 1 .. Len(fifo_in'[w])
      PROVE  fifo_in'[w][j] = Request(fifo_in[w][j].key[1])'
  <2>1. PICK g : g = FifoNext(w)
    OBVIOUS
  <2>2. PICK d : d = Popped(w)
    OBVIOUS
  <2>3. fifo_in'[w] = g
    BY <2>1, Edge
  <2>4. PICK r : r = g[j]
    OBVIOUS
  <2>5. r \in Reqs
    BY <2>3, <2>4 DEF Types, WalkerTypes
  <2>6. PICK e \in Engines : e = r.key[1]
    BY <2>5, KeyFacts DEF Reqs
  <2>7. InInput(e, w, j)'
    BY <2>3, <2>4, <2>6 DEF InInput
  <2>8. Request(e)' = Request(e)
    BY <2>7, StillAsked
  <2>9. PICK m : m = Len(fifo_in[w]) - d
    OBVIOUS
  <2>10. /\ d \in {0, 1} /\ m \in Nat /\ g \in Seq(Reqs)
         /\ \A i \in 1 .. m : g[i] = fifo_in[w][i + d]
         /\ FifoWrite(w) = << >> => Len(g) = m
         /\ \A q \in Reqs : FifoWrite(w) = <<q>> => Len(g) = m + 1 /\ g[Len(g)] = q
         /\ FifoWrite(w) = << >> \/ \E q \in Reqs : FifoWrite(w) = <<q>>
    BY <2>1, <2>2, <2>9, InputStep
  <2>11. r = Request(e)
    <3>1. CASE j <= m
      <4>1. Len(fifo_in[w]) \in Nat
        BY DEF Types, WalkerTypes
      <4>2. Len(g) \in Nat /\ j \in 1 .. Len(g)
        BY <2>3, <2>10
      <4>3. j \in 1 .. m /\ j + d \in 1 .. Len(fifo_in[w])
        BY ONLY <2>9, <2>10, <3>1, <4>1, <4>2
      <4>4. r = fifo_in[w][j + d]
        BY <2>4, <2>10, <4>3
      <4> QED BY <2>6, <4>3, <4>4 DEF SameInv
    <3>2. CASE ~ (j <= m)
      <4>1. j \in 1 .. Len(g) /\ Len(g) \in Nat
        BY <2>3, <2>10
      <4>2. Len(g) # m
        BY ONLY <2>10, <3>2, <4>1
      <4>3. PICK q \in Reqs : FifoWrite(w) = <<q>>
        BY <2>10, <4>2
      <4>4. Len(g) = m + 1 /\ g[Len(g)] = q
        BY <2>10, <4>3
      <4>5. j = Len(g)
        BY ONLY <2>10, <3>2, <4>1, <4>4
      <4>6. FifoWrite(w) = <<r>>
        BY <2>4, <4>3, <4>4, <4>5
      <4>7. CASE Rejected(w)
        <5>1. FifoWrite(w) = <<ptw[w].req>> /\ ptw[w].st # "IDLE"
          BY <4>7, Sent
        <5>2. r = ptw[w].req
          BY <4>6, <5>1
        <5> QED BY <2>6, <5>1, <5>2 DEF SameInv
      <4>8. CASE \E x \in Engines : Ready(x) /\ To(x) = w
        <5>1. PICK x \in Engines : Ready(x) /\ To(x) = w
          BY <4>8
        <5>2. FifoWrite(w) = <<Request(x)>> /\ Request(x).key[1] = x
          BY <5>1, Sent, RequestFacts DEF Types
        <5>3. r = Request(x)
          BY <4>6, <5>2
        <5> QED BY <2>6, <5>2, <5>3
      <4> QED BY <4>3, <4>7, <4>8, Sent
    <3> QED BY <3>1, <3>2
  <2>12. Request(fifo_in[w][j].key[1])' = Request(e)'
    BY <2>3, <2>4, <2>6 DEF Request
  <2> QED BY <2>3, <2>4, <2>8, <2>11, <2>12
<1>2. ASSUME NEW w \in Walkers, ptw'[w].st # "IDLE"
      PROVE  ptw'[w].req = Request(ptw[w].req.key[1])'
  <2>1. PICK u : u = WalkerNext(w)
    OBVIOUS
  <2>2. ptw'[w] = u /\ u.st # "IDLE" /\ u.req \in Reqs
    <3>1. ptw'[w] = u /\ u.st # "IDLE"
      BY <1>2, <2>1, Edge
    <3> QED BY <2>1, <3>1, WalkerStep
  <2>3. PICK e \in Engines : e = u.req.key[1]
    BY <2>2, KeyFacts DEF Reqs
  <2>4. InWalker(e, w)'
    BY <2>2, <2>3 DEF InWalker
  <2>5. Request(e)' = Request(e)
    BY <2>4, StillAsked
  <2>6. u.req = Request(e)
    <3>1. CASE Pop(w)
      <4>1. u.req = fifo_in[w][1] /\ fifo_in[w] # << >> /\ fifo_in[w] \in Seq(Reqs)
        BY <2>1, <3>1, WalkerStep DEF Types, WalkerTypes
      <4>2. Len(fifo_in[w]) \in Nat \ {0}
        BY <4>1, TailFacts
      <4>3. 1 \in 1 .. Len(fifo_in[w])
        BY ONLY <4>2
      <4> QED BY <2>3, <4>1, <4>3 DEF SameInv
    <3>2. CASE ~ Pop(w)
      <4>1. ptw[w].st \in {"IDLE", "LOOKUP", "ALLOCATE", "DONE", "FAULT"}
        BY DEF Types, WalkerTypes, WalkerRegs
      <4>2. u.req = ptw[w].req /\ ptw[w].st # "IDLE"
        BY <2>1, <2>2, <3>2, <4>1, WalkerStep
      <4> QED BY <2>3, <4>2 DEF SameInv
    <3> QED BY <3>1, <3>2
  <2>7. Request(ptw[w].req.key[1])' = Request(e)'
    BY <2>2, <2>3 DEF Request
  <2> QED BY <2>2, <2>5, <2>6, <2>7
<1>3. ASSUME NEW b \in Banks, NEW j \in 1 .. Len(bank_fifo'[b])
      PROVE  bank_fifo'[b][j].req = Request(bank_fifo[b][j].req.key[1])'
  <2>1. PICK g : g = BankFifoNext(b)
    OBVIOUS
  <2>2. bank_fifo'[b] = g
    BY <2>1, Edge
  <2>3. PICK r : r = g[j].req
    OBVIOUS
  <2>4. r \in Reqs
    <3>1. g[j] \in Entries
      BY <2>2 DEF Types, BankTypes
    <3> QED BY <2>3, <3>1 DEF Entries
  <2>5. PICK e \in Engines : e = r.key[1]
    BY <2>4, KeyFacts DEF Reqs
  <2>6. InQueue(e, b, j)'
    BY <2>2, <2>3, <2>5 DEF InQueue
  <2>7. Request(e)' = Request(e)
    BY <2>6, StillAsked
  <2>8. r = Request(e)
    <3>1. \/ \E i \in 1 .. Len(bank_fifo[b]) : g[j] = bank_fifo[b][i]
          \/ \E w \in Walkers : Enters(w, b) /\ g[j] = Entry(w)
      BY <2>1, <2>2, QueueFrom
    <3>2. CASE \E i \in 1 .. Len(bank_fifo[b]) : g[j] = bank_fifo[b][i]
      BY <2>3, <2>5, <3>2 DEF SameInv
    <3>3. CASE \E w \in Walkers : Enters(w, b) /\ g[j] = Entry(w)
      <4>1. PICK w \in Walkers : Enters(w, b) /\ g[j] = Entry(w)
        BY <3>3
      <4>2. ptw[w].st # "IDLE" /\ r = ptw[w].req
        BY <2>3, <4>1 DEF Enters, CanEnqueue, PaValid, Entry
      <4> QED BY <2>5, <4>2 DEF SameInv
    <3> QED BY <3>1, <3>2, <3>3
  <2>9. Request(bank_fifo[b][j].req.key[1])' = Request(e)'
    BY <2>2, <2>3, <2>5 DEF Request
  <2> QED BY <2>2, <2>3, <2>7, <2>8, <2>9
<1> QED BY <1>1, <1>2, <1>3 DEF SameInv

-----------------------------------------------------------------------------
(* Walks, slots and queues: a page table entry changes only by the walker   *)
(* that has its engine's one request.                                       *)

LEMMA WalkStep ==
  ASSUME Types, KeptInv, WalkInv, NEW raise \in SUBSET Engines, Clock(raise)
  PROVE  WalkInv'
<1>1. NoSlot \notin Pas
  BY DEF Pas, NoSlot
<1>2. ASSUME NEW k \in Keys, ~ \E w \in Walkers : Alloc(w) /\ ptw[w].req.key = k
      PROVE  /\ k \in DOMAIN page_table' <=> k \in DOMAIN page_table
             /\ k \in DOMAIN page_table => page_table'[k] = page_table[k]
  BY <1>2, TableStep
<1>3. \A v \in Walkers : Alloc(v) => ptw[v].st = "ALLOCATE" /\ ptw[v].req.key \in Keys
  BY TableStep
<1>4. ASSUME NEW w \in Walkers, NEW t, t = ptw[w], t.st # "IDLE", ~ Alloc(w)
      PROVE  ~ \E v \in Walkers : Alloc(v) /\ ptw[v].req.key = t.req.key
  <2>1. PICK e \in Engines : e = t.req.key[1]
    BY <1>4, AllocRange, KeyFacts
  <2>2. SUFFICES ASSUME NEW v \in Walkers, Alloc(v), ptw[v].req.key = t.req.key PROVE FALSE
    OBVIOUS
  <2>3. InWalker(e, v) /\ InWalker(e, w)
    BY <1>3, <1>4, <2>1, <2>2 DEF InWalker
  <2> QED BY <1>4, <2>2, <2>3, OnePlace
<1> SUFFICES ASSUME NEW w \in Walkers, NEW t, t = ptw[w], NEW u, u = ptw'[w], NEW k, k = u.req.key
             PROVE  /\ u.st = "LOOKUP" =>
                         u.rdata = IF k \in DOMAIN page_table' THEN page_table'[k] ELSE NoSlot
                    /\ u.st = "ALLOCATE" => k \notin DOMAIN page_table'
                    /\ u.st = "DONE" => k \in DOMAIN page_table' /\ u.pa = page_table'[k]
                    /\ u.st = "FAULT" => /\ k \notin DOMAIN page_table'
                                         /\ next_slot'[Partition(k)].full
  BY DEF WalkInv, Partition
<1>5. u = WalkerNext(w)
  BY Edge
<1>6. t.st \in {"IDLE", "LOOKUP", "ALLOCATE", "DONE", "FAULT"}
  BY DEF Types, WalkerTypes, WalkerRegs
<1>7. t.st # "IDLE" => t.req.key \in Keys /\ Partition(t.req.key) \in Partitions
  BY AllocRange
<1>8. CASE Pop(w)
  <2>1. /\ u.st = "LOOKUP" /\ u.req = fifo_in[w][1] /\ u.req \in Reqs /\ fifo_in[w] # << >>
        /\ u.rdata = IF u.req.key \in DOMAIN page_table THEN page_table[u.req.key] ELSE NoSlot
    BY <1>5, <1>8, WalkerStep
  <2>2. k \in Keys
    BY <2>1 DEF Reqs
  <2>3. PICK e \in Engines : e = k[1]
    BY <2>2, KeyFacts
  <2>4. 1 \in 1 .. Len(fifo_in[w])
    <3>1. fifo_in[w] \in Seq(Reqs)
      BY DEF Types, WalkerTypes
    <3>2. Len(fifo_in[w]) \in Nat \ {0}
      BY <2>1, <3>1, TailFacts
    <3> QED BY ONLY <3>2
  <2>5. InInput(e, w, 1)
    BY <2>1, <2>3, <2>4 DEF InInput
  <2>6. ~ \E v \in Walkers : Alloc(v) /\ ptw[v].req.key = k
    <3> SUFFICES ASSUME NEW v \in Walkers, Alloc(v), ptw[v].req.key = k PROVE FALSE
      OBVIOUS
    <3>1. InWalker(e, v)
      BY <1>3, <2>3 DEF InWalker
    <3> QED BY <2>4, <2>5, <3>1, OnePlace
  <2> QED BY <1>2, <2>1, <2>2, <2>6
<1>9. CASE t.st = "IDLE" /\ ~ Pop(w)
  BY <1>5, <1>9, WalkerStep
<1>10. CASE t.st = "LOOKUP"
  <2>1. /\ u.req = t.req
        /\ t.rdata # NoSlot => u.st = "DONE" /\ u.pa = t.rdata
        /\ t.rdata = NoSlot => u.st = "ALLOCATE"
    BY <1>5, <1>10, WalkerStep
  <2>2. t.rdata = IF k \in DOMAIN page_table THEN page_table[k] ELSE NoSlot
    BY <1>10, <2>1 DEF WalkInv
  <2>3. k \in DOMAIN page_table => page_table[k] \in Pas
    BY DEF Types, TableTypes
  <2>4. ~ Alloc(w)
    BY <1>10 DEF Alloc
  <2>5. ~ \E v \in Walkers : Alloc(v) /\ ptw[v].req.key = k
    BY <1>4, <1>10, <2>1, <2>4
  <2> QED BY <1>1, <1>2, <1>7, <1>10, <2>1, <2>2, <2>3, <2>5
<1>11. CASE t.st = "ALLOCATE" /\ AllocAvail(w)
  <2>1. u.st = "DONE" /\ u.pa = AllocSlot(w) /\ u.req = t.req
    BY <1>5, <1>11, WalkerStep
  <2>2. Alloc(w)
    BY <1>11 DEF Alloc
  <2> QED BY <2>1, <2>2, TableStep
<1>12. CASE t.st = "ALLOCATE" /\ ~ AllocAvail(w)
  <2>1. u.st = "FAULT" /\ u.req = t.req
    BY <1>5, <1>12, WalkerStep
  <2>2. ~ Alloc(w) /\ k \notin DOMAIN page_table /\ next_slot[Partition(k)].full
    BY <1>12, <2>1 DEF Alloc, AllocAvail, WalkInv
  <2>3. ~ \E v \in Walkers : Alloc(v) /\ ptw[v].req.key = k
    BY <1>4, <1>12, <2>1, <2>2
  <2>4. k \notin DOMAIN page_table'
    BY <1>2, <1>7, <1>12, <2>1, <2>2, <2>3
  <2>5. ~ \E v \in Walkers : Alloc(v) /\ Partition(ptw[v].req.key) = Partition(k)
    BY <2>2, TableStep
  <2>6. next_slot'[Partition(k)] = next_slot[Partition(k)]
    BY <1>7, <1>12, <2>1, <2>5, TableStep
  <2> QED BY <2>1, <2>2, <2>4, <2>6
<1>13. CASE t.st \in {"DONE", "FAULT"}
  BY <1>5, <1>13, WalkerStep
<1> QED BY <1>6, <1>8, <1>9, <1>10, <1>11, <1>12, <1>13

LEMMA SlotStep ==
  ASSUME Types, KeptInv, WalkInv, SlotInv, NEW raise \in SUBSET Engines, Clock(raise)
  PROVE  SlotInv'
<1>1. \A k \in DOMAIN page_table : k \in Keys /\ Partition(k) \in Partitions /\ page_table[k] \in Pas
  BY KeyFacts DEF Types, TableTypes
<1>2. \A p \in Partitions : /\ next_slot[p] \in SlotRegs
                            /\ next_slot[p].page \in 0 .. PagesPerPartition - 1
                            /\ next_slot[p].node \in 0 .. NodesPerPage - 1
  BY DEF Types, TableTypes, SlotRegs
<1>3. ASSUME NEW w \in Walkers, Alloc(w)
      PROVE  LET k == ptw[w].req.key
                 p == Partition(k)
             IN  /\ k \in Keys /\ p \in Partitions /\ ~ next_slot[p].full
                 /\ page_table'[k] = <<p * PagesPerPartition + next_slot[p].page, next_slot[p].node>>
                 /\ next_slot'[p] = Advance(next_slot[p])
  <2>1. /\ ptw[w].st = "ALLOCATE" /\ page_table'[ptw[w].req.key] = AllocSlot(w)
        /\ ~ next_slot[Partition(ptw[w].req.key)].full
        /\ next_slot'[Partition(ptw[w].req.key)] = Advance(next_slot[Partition(ptw[w].req.key)])
    BY <1>3, TableStep
  <2> QED BY <2>1, AllocRange DEF AllocSlot
<1>4. ASSUME NEW p \in Partitions, NEW page \in 0 .. PagesPerPartition - 1,
             NEW node \in 0 .. NodesPerPage - 1, Below(next_slot[p], page, node)
      PROVE  Below(next_slot'[p], page, node)
  <2>1. CASE \E w \in Walkers : Alloc(w) /\ Partition(ptw[w].req.key) = p
    BY <1>2, <1>4, <2>1, AdvanceFacts, TableStep
  <2>2. CASE ~ \E w \in Walkers : Alloc(w) /\ Partition(ptw[w].req.key) = p
    BY <1>4, <2>2, TableStep
  <2> QED BY <2>1, <2>2
<1>5. ASSUME NEW k \in DOMAIN page_table'
      PROVE  \E page \in 0 .. PagesPerPartition - 1 :
               /\ page_table'[k][1] = Partition(k) * PagesPerPartition + page
               /\ Below(next_slot'[Partition(k)], page, page_table'[k][2])
  <2>1. CASE k \in DOMAIN page_table
    <3>1. PICK page \in 0 .. PagesPerPartition - 1 :
            /\ page_table[k][1] = Partition(k) * PagesPerPartition + page
            /\ Below(next_slot[Partition(k)], page, page_table[k][2])
      BY <2>1 DEF SlotInv
    <3>2. page_table[k][2] \in 0 .. NodesPerPage - 1
      BY <1>1, <2>1 DEF Pas
    <3>3. page_table'[k] = page_table[k]
      BY <2>1, TableStep
    <3> QED BY <1>1, <1>4, <2>1, <3>1, <3>2, <3>3
  <2>2. CASE \E w \in Walkers : Alloc(w) /\ ptw[w].req.key = k
    <3>1. PICK w \in Walkers : Alloc(w) /\ ptw[w].req.key = k
      BY <2>2
    <3>2. PICK p \in Partitions : p = Partition(k)
      BY <1>3, <3>1
    <3>3. /\ page_table'[k] = <<p * PagesPerPartition + next_slot[p].page, next_slot[p].node>>
          /\ next_slot'[p] = Advance(next_slot[p]) /\ ~ next_slot[p].full
      BY <1>3, <3>1, <3>2
    <3>4. Below(next_slot'[p], next_slot[p].page, next_slot[p].node)
      BY <1>2, <3>3, AdvanceFacts
    <3> QED BY <1>2, <3>2, <3>3, <3>4
  <2> QED BY <2>1, <2>2, TableStep
<1>6. ASSUME NEW w \in Walkers, Alloc(w), NEW l \in DOMAIN page_table
      PROVE  page_table'[ptw[w].req.key] # page_table[l]
  <2>1. PICK p \in Partitions : p = Partition(ptw[w].req.key)
    BY <1>3, <1>6
  <2>2. /\ page_table'[ptw[w].req.key] = <<p * PagesPerPartition + next_slot[p].page, next_slot[p].node>>
        /\ ~ next_slot[p].full
    BY <1>3, <1>6, <2>1
  <2>3. PICK page \in 0 .. PagesPerPartition - 1 :
          /\ page_table[l][1] = Partition(l) * PagesPerPartition + page
          /\ Below(next_slot[Partition(l)], page, page_table[l][2])
    BY DEF SlotInv
  <2>4. SUFFICES ASSUME page_table'[ptw[w].req.key] = page_table[l] PROVE FALSE
    OBVIOUS
  <2>5. /\ p * PagesPerPartition + next_slot[p].page = Partition(l) * PagesPerPartition + page
        /\ page_table[l][2] = next_slot[p].node
    BY <2>2, <2>3, <2>4
  <2>6. p = Partition(l) /\ page = next_slot[p].page
    BY <1>1, <1>2, <2>5, PagesApart
  <2> QED BY <1>2, <2>2, <2>3, <2>5, <2>6, AdvanceFacts
<1>7. ASSUME NEW v \in Walkers, NEW w \in Walkers, Alloc(v), Alloc(w),
             page_table'[ptw[v].req.key] = page_table'[ptw[w].req.key]
      PROVE  v = w
  <2>1. PICK p \in Partitions : p = Partition(ptw[v].req.key)
    BY <1>3, <1>7
  <2>2. PICK q \in Partitions : q = Partition(ptw[w].req.key)
    BY <1>3, <1>7
  <2>3. page_table'[ptw[v].req.key] = <<p * PagesPerPartition + next_slot[p].page, next_slot[p].node>>
    BY <1>3, <1>7, <2>1
  <2>4. page_table'[ptw[w].req.key] = <<q * PagesPerPartition + next_slot[q].page, next_slot[q].node>>
    BY <1>3, <1>7, <2>2
  <2>5. p * PagesPerPartition + next_slot[p].page = q * PagesPerPartition + next_slot[q].page
    <3>1. PICK x : x = p * PagesPerPartition + next_slot[p].page
      OBVIOUS
    <3>2. PICK y : y = q * PagesPerPartition + next_slot[q].page
      OBVIOUS
    <3>3. <<x, next_slot[p].node>> = <<y, next_slot[q].node>>
      BY <1>7, <2>3, <2>4, <3>1, <3>2
    <3>4. x = y
      BY ONLY <3>3
    <3> QED BY <3>1, <3>2, <3>4
  <2>6. p = q
    BY <1>2, <2>5, PagesApart
  <2> QED BY <1>7, <2>1, <2>2, <2>6, TableStep
<1>8. ASSUME NEW k \in DOMAIN page_table', NEW l \in DOMAIN page_table',
             page_table'[k] = page_table'[l]
      PROVE  k = l
  <2>1. \A x \in {k, l} : x \in DOMAIN page_table \/ \E w \in Walkers : Alloc(w) /\ ptw[w].req.key = x
    BY TableStep
  <2>2. \A x \in DOMAIN page_table : page_table'[x] = page_table[x]
    BY TableStep
  <2>3. CASE k \in DOMAIN page_table /\ l \in DOMAIN page_table
    BY <1>8, <2>2, <2>3 DEF SlotInv
  <2>4. CASE k \in DOMAIN page_table /\ l \notin DOMAIN page_table
    BY <1>6, <1>8, <2>1, <2>2, <2>4
  <2>5. CASE k \notin DOMAIN page_table /\ l \in DOMAIN page_table
    BY <1>6, <1>8, <2>1, <2>2, <2>5
  <2>6. CASE k \notin DOMAIN page_table /\ l \notin DOMAIN page_table
    BY <1>7, <1>8, <2>1, <2>6
  <2> QED BY <2>3, <2>4, <2>5, <2>6
<1>9. ASSUME NEW k \in DOMAIN page_table' PROVE Partition(k)' = Partition(k)
  BY DEF Partition
<1> QED BY <1>5, <1>8, <1>9 DEF SlotInv, Below

LEMMA QueueInvStep ==
  ASSUME Types, RoomInv, KeptInv, WalkInv, QueueInv, NEW raise \in SUBSET Engines, Clock(raise)
  PROVE  QueueInv'
<1> SUFFICES ASSUME NEW b \in Banks, NEW j \in 1 .. Len(bank_fifo'[b]),
                    NEW q, q = bank_fifo'[b][j]
             PROVE  /\ q.req.key \in DOMAIN page_table' /\ q.pa = page_table'[q.req.key]
                    /\ BankOf(q.pa) = b
  BY DEF QueueInv, BankOf
<1>1. PICK g : g = BankFifoNext(b)
  OBVIOUS
<1>2. bank_fifo'[b] = g
  BY <1>1, Edge
<1>3. \A k \in DOMAIN page_table : k \in DOMAIN page_table' /\ page_table'[k] = page_table[k]
  BY TableStep
<1>4. \/ \E i \in 1 .. Len(bank_fifo[b]) : q = bank_fifo[b][i]
      \/ \E w \in Walkers : Enters(w, b) /\ q = Entry(w)
  BY <1>1, <1>2, QueueFrom
<1>5. CASE \E i \in 1 .. Len(bank_fifo[b]) : q = bank_fifo[b][i]
  BY <1>3, <1>5 DEF QueueInv
<1>6. CASE \E w \in Walkers : Enters(w, b) /\ q = Entry(w)
  <2>1. PICK w \in Walkers : Enters(w, b) /\ q = Entry(w)
    BY <1>6
  <2>2. PaValid(w) /\ BankId(w) = b
    BY <2>1 DEF Enters, CanEnqueue
  <2>3. ptw[w].st = "DONE" /\ BankOf(ptw[w].pa) = b
    BY <2>2, DoneFacts
  <2>4. q.req = ptw[w].req /\ q.pa = ptw[w].pa
    BY <2>1 DEF Entry
  <2>5. ptw[w].req.key \in DOMAIN page_table /\ ptw[w].pa = page_table[ptw[w].req.key]
    BY <2>3 DEF WalkInv
  <2> QED BY <1>3, <2>3, <2>4, <2>5
<1> QED BY <1>4, <1>5, <1>6

-----------------------------------------------------------------------------
(* Reads and writes.                                                        *)

\* Whom a busy bank serves.
LEMMA Served ==
  ASSUME Types, BankInv, ReadInv, NEW b \in Banks, bank[b].st # "IDLE"
  PROVE  \E e \in Engines :
           /\ InBank(e, b) /\ va_fifo[b][1] = e /\ ~ Completes(b) /\ Request(e).key[1] = e
           /\ Request(e).key \in DOMAIN page_table /\ BankOf(page_table[Request(e).key]) = b
           /\ bank[b].at = LocalSlot(b, page_table[Request(e).key])
           /\ bank[b].wr = Request(e).wr /\ bank[b].data = Request(e).data
<1>1. Len(va_fifo[b]) = 1 /\ ~ Completes(b)
  BY DEF BankInv
<1>2. va_fifo[b][1] \in Engines
  <2>1. va_fifo[b] \in Seq(Engines)
    BY DEF Types, BankTypes
  <2> QED BY <1>1, <2>1
<1>3. PICK e \in Engines : e = va_fifo[b][1]
  BY <1>2
<1>4. ServesReq(b, e)
  BY <1>1, <1>3 DEF ReadInv
<1>5. Request(e).key[1] = e
  BY RequestFacts DEF Types
<1> QED BY <1>1, <1>3, <1>4, <1>5 DEF ServesReq, InBank

\* What the RAM of a bank holds after an edge.
LEMMA RamStep ==
  ASSUME Types, NEW raise \in SUBSET Engines, Clock(raise),
         NEW b \in Banks, NEW a \in Locals, NEW x \in Words
  PROVE  ram'[b][a][x] = IF InPhase(b) /\ bank[b].wr /\ bank[b].at = a /\ Phase(bank[b].st) = x
                         THEN bank[b].data ELSE ram[b][a][x]
<1>1. ram'[b] = RamNext(b) /\ ram[b] \in [Locals -> [Words -> Nat]]
  BY Edge DEF Types, RamTypes
<1>2. CASE ~ (InPhase(b) /\ bank[b].wr)
  BY <1>1, <1>2 DEF RamNext
<1>3. CASE InPhase(b) /\ bank[b].wr
  <2>1. PICK at \in Locals : at = bank[b].at
    BY <1>3 DEF Types, BankTypes, InPhase
  <2>2. PICK y \in Words : y = Phase(bank[b].st)
    BY <1>3 DEF InPhase, Phase, Words
  <2>3. ram'[b] = [ram[b] EXCEPT ![at][y] = bank[b].data]
    BY <1>1, <1>3, <2>1, <2>2 DEF RamNext
  <2>4. PICK g \in [Words -> Nat] : g = ram[b][at]
    BY <1>1
  <2>5. ram'[b] = [ram[b] EXCEPT ![at] = [g EXCEPT ![y] = bank[b].data]]
    BY <2>3, <2>4
  <2>6. CASE a = at
    <3>1. ram'[b][a] = [g EXCEPT ![y] = bank[b].data]
      BY <1>1, <2>5, <2>6
    <3> QED BY <1>3, <2>1, <2>2, <2>4, <2>6, <3>1
  <2>7. CASE a # at
    <3>1. ram'[b][a] = ram[b][a]
      BY <1>1, <2>5, <2>7
    <3> QED BY <2>1, <2>7, <3>1
  <2> QED BY <2>6, <2>7
<1> QED BY <1>2, <1>3

\* A write counts when it is answered.
LEMMA WrittenStep ==
  ASSUME Types, KeptInv, NEW raise \in SUBSET Engines, Clock(raise), NEW k \in Keys,
         NEW e \in Engines, e = k[1]
  PROVE  written'[k] = IF (\E c \in Banks : InAnswer(e, c)) /\ Request(e).wr /\ Request(e).key = k
                       THEN Request(e).data ELSE written[k]
<1>1. written'[k] = IF Answered(e) /\ RespValid(e) /\ Request(e).wr /\ Request(e).key = k
                    THEN Request(e).data ELSE written[k]
  BY DEF Clock
<1>2. RespValid(e) <=> \E c \in Banks : InAnswer(e, c)
  BY DEF RespValid, InAnswer
<1>3. RespValid(e) => Answered(e)
  BY <1>2, OnePlace DEF Answered
<1> QED BY <1>1, <1>2, <1>3

\* A request in a bank or an answer buffer keeps its place until it moves on.
LEMMA BankFrom ==
  ASSUME Types, BankInv, KeptInv, QueueInv, NEW raise \in SUBSET Engines, Clock(raise),
         NEW e \in Engines
  PROVE  /\ \A b, c \in Banks : InBank(e, b) /\ (InBank(e, c)' \/ InAnswer(e, c)') => c = b
         /\ \A b, c \in Banks : InAnswer(e, b) => ~ InBank(e, c)' /\ ~ InAnswer(e, c)'
         /\ \A w \in Walkers, c \in Banks : InWalker(e, w) => ~ InBank(e, c)' /\ ~ InAnswer(e, c)'
<1>1. \A c \in Banks : Dispatch(c) /\ InQueue(e, c, 1) => 1 \in 1 .. Len(bank_fifo[c])
  BY DEF InQueue
<1> QED BY <1>1, BankMoves, OnePlace

\* One more word, equal to the ones before.
LEMMA ReadMore ==
  ASSUME NEW s \in Seq(Nat), NEW n \in Nat, NEW y \in Nat, NEW z, z = Append(s, y),
         Len(s) = n, \A i \in 1 .. n : s[i] = y
  PROVE  Len(z) = n + 1 /\ \A i \in 1 .. n + 1 : z[i] = y
<1>1. /\ Len(z) = n + 1 /\ \A i \in 1 .. n : z[i] = s[i]
      /\ z[n + 1] = y
  BY AppendFacts
<1>2. \A i \in 1 .. n + 1 : i \in 1 .. n \/ i = n + 1
  OBVIOUS
<1> QED BY <1>1, <1>2

\* The bank a read is in finds the word that was written last.
LEMMA WordFound ==
  ASSUME Types, BankInv, ReadInv, RamInv, NEW b \in Banks, InPhase(b), ~ bank[b].wr,
         NEW e \in Engines, e = va_fifo[b][1]
  PROVE  ram[b][bank[b].at][Phase(bank[b].st)] = written[Request(e).key]
<1>1. bank[b].st # "IDLE"
  BY DEF InPhase
<1>2. PICK k : k = Request(e).key
  OBVIOUS
<1>3. /\ k \in DOMAIN page_table /\ BankOf(page_table[k]) = b
      /\ bank[b].at = LocalSlot(b, page_table[k]) /\ ~ Request(e).wr /\ k[1] = e
  BY <1>1, <1>2, Served
<1>4. PICK x \in Words : x = Phase(bank[b].st)
  BY DEF InPhase, Phase, Words
<1>5. Stored(k, x) = written[k]
  <2>1. ~ \E c \in Banks : WordDone(c, k, x)
    BY <1>3 DEF WordDone
  <2> QED BY <1>3, <2>1 DEF RamInv
<1>6. Stored(k, x) = ram[b][bank[b].at][x]
  BY <1>3 DEF Stored
<1> QED BY <1>2, <1>4, <1>5, <1>6

LEMMA ReadStep ==
  ASSUME Types, Types', BankInv, KeptInv, KeptInv', SameInv, WalkInv, QueueInv, ReadInv, RamInv,
         NEW raise \in SUBSET Engines, Clock(raise)
  PROVE  ReadInv'
<1>1. \A k \in DOMAIN page_table : k \in DOMAIN page_table' /\ page_table'[k] = page_table[k]
  BY TableStep
<1> SUFFICES ASSUME NEW b \in Banks,
                    NEW t, t = bank[b], NEW u, u = bank'[b],
                    NEW v, v = va_fifo'[b], NEW a, a = resp_buf'[b]
             PROVE  /\ Len(v) = 1 => \A e \in Engines : e = v[1] =>
                         /\ ServesReq(b, e)'
                         /\ InPhase(b)' /\ ~ u.wr =>
                              ReadSoFar(u.read, Phase(u.st), Request(e).key)'
                         /\ u.st = "DONE_READ" => ReadSoFar(u.read, 3, Request(e).key)'
                         /\ u.valid => ReadSoFar(u.rdata, 3, Request(e).key)'
                    /\ a.valid => \A e \in Engines : e = a.e =>
                         /\ Request(e).key' \in DOMAIN page_table'
                         /\ ~ Request(e).wr' => ReadSoFar(a.data, 3, Request(e).key)'
  <2>1. \A b \in Banks : Len(va_fifo'[b]) = 1 => va_fifo'[b][1] \in Engines
    <3>1. \A b \in Banks : va_fifo'[b] \in Seq(Engines)
      BY DEF Types, BankTypes
    <3> QED BY ONLY <3>1
  <2>2. \A b \in Banks : resp_buf'[b].e \in Engines
    BY DEF Types, BankTypes, Answers
  <2> QED BY <2>1, <2>2 DEF ReadInv
<1>2. u = BankNext(b) /\ v = VaFifoNext(b) /\ a = RespNext(b)
  BY Edge
<1>3. /\ u.valid = (t.st = "DONE_READ") /\ u.wdone = (t.st = "PHASE_2" /\ t.wr)
      /\ Dispatch(b) =>
           /\ t.st = "IDLE" /\ u.st = "PHASE_0" /\ u.read = << >>
           /\ u.wr = bank_fifo[b][1].req.wr /\ u.data = bank_fifo[b][1].req.data
           /\ u.at = LocalSlot(b, bank_fifo[b][1].pa)
      /\ InPhase(b) =>
           /\ u.wr = t.wr /\ u.data = t.data /\ u.at = t.at /\ u.st = AfterPhase(t)
           /\ ~ t.wr => u.read = Append(t.read, ram[b][t.at][Phase(t.st)])
      /\ t.st = "DONE_READ" => u.st = "IDLE" /\ u.rdata = t.read
      /\ t \in BankRegs /\ u \in BankRegs
  <2>1. t \in BankRegs
    BY DEF Types, BankTypes
  <2>2. u = BankNext(b)
    BY <1>2
  <2> QED BY ONLY Types, QueueInv, b \in Banks, t = bank[b], <2>1, <2>2, BankStep
<1>4. /\ Completes(b) => /\ Len(va_fifo[b]) = 1 /\ a.valid /\ a.e = va_fifo[b][1]
                         /\ a.data = IF bank[b].valid THEN bank[b].rdata ELSE << >>
      /\ ~ Completes(b) => ~ a.valid
      /\ Dispatch(b) => Len(v) = 1 /\ v[1] = bank_fifo[b][1].req.key[1]
      /\ ~ Dispatch(b) /\ Completes(b) => Len(v) = 0
      /\ ~ Dispatch(b) /\ ~ Completes(b) => v = va_fifo[b]
  BY <1>2, AnswerStep
<1>5. ASSUME NEW e \in Engines, InBank(e, b)
      PROVE  /\ written'[Request(e).key] = written[Request(e).key] /\ written[Request(e).key] \in Nat
             /\ ServesReq(b, e)
             /\ InPhase(b) /\ ~ t.wr => ReadSoFar(t.read, Phase(t.st), Request(e).key)
             /\ t.st = "DONE_READ" => ReadSoFar(t.read, 3, Request(e).key)
             /\ t.valid => ReadSoFar(t.rdata, 3, Request(e).key)
  <2>1. Request(e).key \in Keys /\ Request(e).key[1] = e
    BY RequestFacts DEF Types
  <2>2. ~ \E c \in Banks : InAnswer(e, c)
    BY <1>5, OnePlace
  <2>3. written'[Request(e).key] = written[Request(e).key]
    BY <2>1, <2>2, WrittenStep
  <2>4. written[Request(e).key] \in Nat
    BY <2>1 DEF Types, RamTypes
  <2> QED BY <1>5, <2>3, <2>4 DEF InBank, ReadInv
<1>6. ASSUME NEW e \in Engines, Len(v) = 1, e = v[1]
      PROVE  Request(e)' = Request(e)
  <2>1. InBank(e, b)'
    BY <1>6 DEF InBank
  <2> QED BY <2>1, StillAsked
<1>7. ASSUME NEW e \in Engines, Len(v) = 1, e = v[1], NEW r, r = Request(e), NEW k, k = r.key,
             k \in DOMAIN page_table, BankOf(page_table[k]) = b,
             u.st # "IDLE" => /\ u.wr = r.wr /\ u.data = r.data
                              /\ u.at = LocalSlot(b, page_table[k]),
             u.valid \/ u.wdone => u.wdone = r.wr
      PROVE  ServesReq(b, e)'
  <2>1. Request(e)' = r
    BY <1>6, <1>7
  <2>2. k \in DOMAIN page_table' /\ page_table'[k] = page_table[k]
    BY <1>1, <1>7
  <2>3. Completes(b)' <=> u.valid \/ u.wdone
    BY DEF Completes
  <2> QED BY <1>7, <2>1, <2>2, <2>3 DEF ServesReq, BankOf, LocalSlot
<1>8. ASSUME NEW e \in Engines, Len(v) = 1, e = v[1], NEW s, NEW n, NEW y,
             y = written'[Request(e).key], Len(s) = n, \A i \in 1 .. n : s[i] = y
      PROVE  ReadSoFar(s, n, Request(e).key)'
  <2>1. Request(e)' = Request(e)
    BY <1>6, <1>8
  <2> QED BY <1>8, <2>1 DEF ReadSoFar
<1>9. ASSUME NEW e \in Engines, Len(v) = 1, e = v[1]
      PROVE  /\ ServesReq(b, e)'
             /\ InPhase(b)' /\ ~ u.wr => ReadSoFar(u.read, Phase(u.st), Request(e).key)'
             /\ u.st = "DONE_READ" => ReadSoFar(u.read, 3, Request(e).key)'
             /\ u.valid => ReadSoFar(u.rdata, 3, Request(e).key)'
  <2>1. CASE Dispatch(b)
    <3>1. PICK q : q = bank_fifo[b][1]
      OBVIOUS
    <3>2. 1 \in 1 .. Len(bank_fifo[b]) /\ e = q.req.key[1]
      <4>1. Len(bank_fifo[b]) \in Nat \ {0}
        BY <2>1, HeadFacts DEF Dispatch
      <4>2. 1 \in 1 .. Len(bank_fifo[b])
        BY ONLY <4>1
      <4> QED BY <1>4, <1>9, <2>1, <3>1, <4>2
    <3>3. q.req = Request(e)
      BY <3>1, <3>2 DEF SameInv
    <3>4. /\ Request(e).key \in DOMAIN page_table /\ q.pa = page_table[Request(e).key]
          /\ BankOf(q.pa) = b
      BY <3>1, <3>2, <3>3 DEF QueueInv
    <3>5. /\ u.st = "PHASE_0" /\ u.read = << >> /\ u.wr = q.req.wr /\ u.data = q.req.data
          /\ u.at = LocalSlot(b, q.pa) /\ ~ u.valid /\ ~ u.wdone
      BY <1>3, <2>1, <3>1
    <3>6. ServesReq(b, e)'
      BY <1>7, <1>9, <3>3, <3>4, <3>5
    <3>7. ReadSoFar(u.read, 0, Request(e).key)'
      BY <3>5 DEF ReadSoFar
    <3>8. Phase(u.st) = 0
      BY <3>5 DEF Phase
    <3> QED BY <3>5, <3>6, <3>7, <3>8
  <2>2. CASE ~ Dispatch(b) /\ ~ Completes(b)
    <3>1. InBank(e, b) /\ e = va_fifo[b][1]
      BY <1>4, <1>9, <2>2 DEF InBank
    <3>2. t.st # "IDLE"
      BY <2>2, <3>1 DEF BankInv, InBank
    <3>3. t.st \in {"PHASE_0", "PHASE_1", "PHASE_2", "DONE_READ"} /\ t.wr \in BOOLEAN
          /\ t.read \in Seq(Nat)
      BY <1>3, <3>2 DEF BankRegs
    <3>4. PICK y \in Nat : y = written[Request(e).key] /\ y = written'[Request(e).key]
      BY <1>5, <3>1
    <3>5. /\ Request(e).key \in DOMAIN page_table /\ BankOf(page_table[Request(e).key]) = b
          /\ t.wr = Request(e).wr /\ t.data = Request(e).data
          /\ t.at = LocalSlot(b, page_table[Request(e).key])
      BY <1>5, <3>1, <3>2 DEF ServesReq
    <3>6. CASE t.st \in {"PHASE_0", "PHASE_1", "PHASE_2"}
      <4>1. InPhase(b)
        BY <3>6 DEF InPhase
      <4>2. ServesReq(b, e)'
        <5>1. u.valid \/ u.wdone => u.wdone = t.wr
          BY <1>3, <3>3, <3>6, Zenon
        <5>2. u.wr = t.wr /\ u.data = t.data /\ u.at = t.at
          BY <1>3, <4>1
        <5> QED BY <1>7, <1>9, <3>5, <5>1, <5>2
      <4>3. ~ u.valid
        BY <1>3, <3>6
      <4>4. PICK n \in 0 .. 2 : n = Phase(t.st)
        BY <3>6 DEF Phase
      <4>5. ASSUME ~ t.wr
            PROVE  ReadSoFar(u.read, n + 1, Request(e).key)'
        <5>1. ram[b][t.at][n] = y
          BY <3>1, <3>4, <4>1, <4>4, <4>5, WordFound
        <5>2. u.read = Append(t.read, y)
          BY <1>3, <4>1, <4>4, <4>5, <5>1
        <5>3. Len(t.read) = n /\ \A i \in 1 .. n : t.read[i] = y
          BY <1>5, <3>1, <3>4, <4>1, <4>4, <4>5 DEF ReadSoFar
        <5>4. n \in Nat
          BY <4>4
        <5>5. Len(u.read) = n + 1 /\ \A i \in 1 .. n + 1 : u.read[i] = y
          BY ONLY <3>3, <5>2, <5>3, <5>4, y \in Nat, ReadMore
        <5> QED BY <1>8, <1>9, <3>4, <5>5
      <4>6. u.st = AfterPhase(t) /\ u.wr = t.wr
        BY <1>3, <4>1
      <4>7. /\ InPhase(b)' => Phase(u.st) = n + 1
            /\ u.st = "DONE_READ" => n + 1 = 3 /\ ~ t.wr
        <5>1. CASE t.st = "PHASE_0"
          BY <4>4, <4>6, <5>1 DEF AfterPhase, Phase
        <5>2. CASE t.st = "PHASE_1"
          BY <4>4, <4>6, <5>2 DEF AfterPhase, Phase
        <5>3. CASE t.st = "PHASE_2"
          BY <3>3, <4>4, <4>6, <5>3 DEF AfterPhase, Phase, InPhase
        <5> QED BY <3>6, <5>1, <5>2, <5>3
      <4> QED BY <4>2, <4>3, <4>5, <4>6, <4>7
    <3>7. CASE t.st = "DONE_READ"
      <4>1. u.st = "IDLE" /\ u.rdata = t.read /\ u.valid /\ ~ u.wdone
        BY <1>3, <3>7
      <4>2. ~ t.wr
        BY <3>7 DEF BankInv
      <4>3. ServesReq(b, e)'
        <5>1. u.wdone = Request(e).wr
          BY <1>3, <3>3, <3>5, <3>7, <4>2, Zenon
        <5> QED BY <1>7, <1>9, <3>5, <4>1, <5>1
      <4>4. Len(u.rdata) = 3 /\ \A i \in 1 .. 3 : u.rdata[i] = y
        BY <1>5, <3>1, <3>4, <3>7, <4>1 DEF ReadSoFar
      <4>5. ReadSoFar(u.rdata, 3, Request(e).key)'
        BY <1>8, <1>9, <3>4, <4>4
      <4>6. ~ InPhase(b)'
        BY <4>1 DEF InPhase
      <4> QED BY <4>1, <4>3, <4>5, <4>6
    <3> QED BY <3>3, <3>6, <3>7
  <2>3. CASE ~ Dispatch(b) /\ Completes(b)
    BY <1>4, <1>9, <2>3
  <2> QED BY <2>1, <2>2, <2>3
<1>10. ASSUME NEW e \in Engines, a.valid, e = a.e
       PROVE  /\ Request(e).key' \in DOMAIN page_table'
              /\ ~ Request(e).wr' => ReadSoFar(a.data, 3, Request(e).key)'
  <2>1. /\ Completes(b) /\ Len(va_fifo[b]) = 1 /\ e = va_fifo[b][1]
        /\ a.data = IF t.valid THEN t.rdata ELSE << >>
    BY <1>4, <1>10
  <2>2. InBank(e, b) /\ InAnswer(e, b)'
    BY <1>10, <2>1 DEF InBank, InAnswer
  <2>3. Request(e)' = Request(e)
    BY <2>2, StillAsked
  <2>4. ServesReq(b, e) /\ written'[Request(e).key] = written[Request(e).key]
    BY <1>5, <2>2
  <2>5. Request(e).key \in DOMAIN page_table'
    BY <1>1, <2>4 DEF ServesReq
  <2>6. ASSUME ~ Request(e).wr PROVE ReadSoFar(a.data, 3, Request(e).key)'
    <3>1. ~ t.wdone
      BY <2>1, <2>4, <2>6 DEF ServesReq
    <3>2. t.valid
      BY <2>1, <3>1 DEF Completes
    <3>3. ReadSoFar(t.rdata, 3, Request(e).key) /\ a.data = t.rdata
      BY <1>5, <2>1, <2>2, <3>2
    <3> QED BY <2>3, <2>4, <3>3 DEF ReadSoFar
  <2> QED BY <2>3, <2>5, <2>6
<1> QED BY <1>9, <1>10

\* Bank b is putting a word of key k into the RAM.
Writing(b, k) ==
  /\ InPhase(b) /\ bank[b].wr /\ InBank(k[1], b)
  /\ Request(k[1]).key = k /\ Request(k[1]).wr

\* A bank only writes to the slot of the key it serves.
LEMMA WriteFacts ==
  ASSUME Types, BankInv, SlotInv, ReadInv, NEW b \in Banks, InPhase(b), bank[b].wr
  PROVE  \E k \in DOMAIN page_table :
           /\ Writing(b, k) /\ BankOf(page_table[k]) = b /\ k[1] \in Engines
           /\ bank[b].at = LocalSlot(b, page_table[k]) /\ bank[b].data = Request(k[1]).data
           /\ ~ Completes(b)
           /\ \A l \in DOMAIN page_table :
                bank[b].at = LocalSlot(b, page_table[l]) => l = k
<1>1. bank[b].st # "IDLE"
  BY DEF InPhase
<1>2. PICK e \in Engines :
        /\ InBank(e, b) /\ ~ Completes(b) /\ Request(e).key[1] = e
        /\ Request(e).key \in DOMAIN page_table /\ BankOf(page_table[Request(e).key]) = b
        /\ bank[b].at = LocalSlot(b, page_table[Request(e).key])
        /\ bank[b].wr = Request(e).wr /\ bank[b].data = Request(e).data
  BY <1>1, Served
<1>3. PICK k \in DOMAIN page_table : k = Request(e).key
  BY <1>2
<1>4. ASSUME NEW l \in DOMAIN page_table, bank[b].at = LocalSlot(b, page_table[l])
      PROVE  l = k
  <2>1. page_table[l] \in Pas /\ page_table[k] \in Pas
    BY DEF Types, TableTypes
  <2>2. page_table[l] = page_table[k]
    BY <1>2, <1>3, <1>4, <2>1, PlaceFacts
  <2> QED BY <2>2 DEF SlotInv
<1>5. Writing(b, k)
  BY <1>2, <1>3 DEF Writing
<1> QED BY <1>2, <1>3, <1>4, <1>5

\* The word a bank has just written counts as done, and no other.
LEMMA WordStep ==
  ASSUME Types, BankInv, KeptInv, KeptInv', QueueInv, ReadInv,
         NEW raise \in SUBSET Engines, Clock(raise),
         NEW k \in DOMAIN page_table, NEW b \in Banks, b = BankOf(page_table[k]),
         NEW x \in Words
  PROVE  /\ Writing(b, k) =>
              /\ (\E c \in Banks : WordDone(c, k, x)) <=> x < Phase(bank[b].st)
              /\ (\E c \in Banks : WordDone(c, k, x)') <=> x <= Phase(bank[b].st)
              /\ Request(k[1])' = Request(k[1])
         /\ ~ Writing(b, k) /\ ~ (\E c \in Banks : InAnswer(k[1], c)) =>
              /\ (\E c \in Banks : WordDone(c, k, x)) <=> (\E c \in Banks : WordDone(c, k, x)')
              /\ (\E c \in Banks : WordDone(c, k, x)) => Request(k[1])' = Request(k[1])
         /\ (\E c \in Banks : InAnswer(k[1], c)) => ~ \E c \in Banks : WordDone(c, k, x)'
<1>1. PICK e \in Engines : e = k[1]
  BY KeyFacts DEF Types, TableTypes
<1>2. \A c \in Banks : WordDone(c, k, x) <=>
        /\ Request(e).wr /\ Request(e).key = k
        /\ \/ InBank(e, c) /\ (Completes(c) \/ (InPhase(c) /\ x < Phase(bank[c].st)))
           \/ InAnswer(e, c)
  BY <1>1 DEF WordDone
<1>3. \A c \in Banks : WordDone(c, k, x)' <=>
        /\ Request(e)'.wr /\ Request(e)'.key = k
        /\ \/ InBank(e, c)' /\ (Completes(c)' \/ (InPhase(c)' /\ x < Phase(bank'[c].st)))
           \/ InAnswer(e, c)'
  BY <1>1 DEF WordDone, Phase
<1>4. \A c \in Banks : InBank(e, c)' \/ InAnswer(e, c)' => Request(e)' = Request(e)
  BY StillAsked
<1>5. ASSUME NEW c \in Banks, NEW t, t = bank[c], NEW u, u = bank'[c]
      PROVE  /\ u.valid = (t.st = "DONE_READ") /\ u.wdone = (t.st = "PHASE_2" /\ t.wr)
             /\ Dispatch(c) => t.st = "IDLE" /\ u.st = "PHASE_0"
             /\ InPhase(c) => u.st = AfterPhase(t)
             /\ Completes(c)' <=> u.valid \/ u.wdone
             /\ InPhase(c)' <=> u.st \in {"PHASE_0", "PHASE_1", "PHASE_2"}
  <2>1. u = BankNext(c)
    BY <1>5, Edge
  <2>2. /\ u.valid = (t.st = "DONE_READ") /\ u.wdone = (t.st = "PHASE_2" /\ t.wr)
        /\ Dispatch(c) => t.st = "IDLE" /\ u.st = "PHASE_0"
        /\ InPhase(c) => u.st = AfterPhase(t)
    BY <1>5, <2>1, BankStep
  <2> QED BY <1>5, <2>2 DEF Completes, InPhase
<1>6. \A c \in Banks : InBank(e, c) /\ Request(e).key = k => c = b
  <2> SUFFICES ASSUME NEW c \in Banks, InBank(e, c), Request(e).key = k PROVE c = b
    OBVIOUS
  <2>1. ServesReq(c, e)
    BY DEF InBank, ReadInv
  <2> QED BY <2>1 DEF ServesReq
<1>7. ASSUME Writing(b, k)
      PROVE  /\ (\E c \in Banks : WordDone(c, k, x)) <=> x < Phase(bank[b].st)
             /\ (\E c \in Banks : WordDone(c, k, x)') <=> x <= Phase(bank[b].st)
             /\ Request(e)' = Request(e)
  <2>1. /\ InPhase(b) /\ bank[b].wr /\ InBank(e, b) /\ Request(e).key = k /\ Request(e).wr
    BY <1>1, <1>7 DEF Writing
  <2>2. ~ Completes(b)
    BY <2>1 DEF InPhase, BankInv
  <2>3. InBank(e, b)' /\ \A c \in Banks : ~ InAnswer(e, c)'
    BY <2>1, <2>2, BankMoves, BankFrom
  <2>4. Request(e)' = Request(e)
    BY <1>4, <2>3
  <2>5. \A c \in Banks : ~ InAnswer(e, c) /\ (InBank(e, c) => c = b) /\ (InBank(e, c)' => c = b)
    BY <2>1, BankFrom, OnePlace
  <2>6. (\E c \in Banks : WordDone(c, k, x)) <=> x < Phase(bank[b].st)
    BY <1>2, <2>1, <2>2, <2>5
  <2>7. (\E c \in Banks : WordDone(c, k, x)') <=>
          Completes(b)' \/ (InPhase(b)' /\ x < Phase(bank'[b].st))
    BY <1>3, <2>1, <2>3, <2>4, <2>5
  <2>8. Completes(b)' \/ (InPhase(b)' /\ x < Phase(bank'[b].st)) <=> x <= Phase(bank[b].st)
    <3>1. x \in {0, 1, 2}
      BY DEF Words
    <3>2. PICK t : t = bank[b]
      OBVIOUS
    <3>3. PICK u : u = bank'[b]
      OBVIOUS
    <3>4. /\ u.valid = (t.st = "DONE_READ") /\ u.wdone = (t.st = "PHASE_2" /\ t.wr)
          /\ u.st = AfterPhase(t)
          /\ Completes(b)' <=> u.valid \/ u.wdone
          /\ InPhase(b)' <=> u.st \in {"PHASE_0", "PHASE_1", "PHASE_2"}
      BY <1>5, <2>1, <3>2, <3>3
    <3>5. t.st \in {"PHASE_0", "PHASE_1", "PHASE_2"} /\ t.wr
      BY <2>1, <3>2 DEF InPhase
    <3>6. CASE t.st = "PHASE_0"
      <4>1. u.st = "PHASE_1" /\ ~ Completes(b)' /\ InPhase(b)'
        BY ONLY <3>4, <3>6 DEF AfterPhase
      <4> QED BY <3>1, <3>2, <3>3, <3>6, <4>1 DEF Phase
    <3>7. CASE t.st = "PHASE_1"
      <4>1. u.st = "PHASE_2" /\ ~ Completes(b)' /\ InPhase(b)'
        BY ONLY <3>4, <3>7 DEF AfterPhase
      <4> QED BY <3>1, <3>2, <3>3, <3>7, <4>1 DEF Phase
    <3>8. CASE t.st = "PHASE_2"
      <4>1. Completes(b)'
        BY ONLY <3>4, <3>5, <3>8
      <4> QED BY <3>1, <3>2, <3>8, <4>1 DEF Phase
    <3> QED BY <3>5, <3>6, <3>7, <3>8
  <2> QED BY <2>4, <2>6, <2>7, <2>8
<1>8. ASSUME ~ Writing(b, k), ~ \E c \in Banks : InAnswer(e, c)
      PROVE  /\ (\E c \in Banks : WordDone(c, k, x)) <=> (\E c \in Banks : WordDone(c, k, x)')
             /\ (\E c \in Banks : WordDone(c, k, x)) => Request(e)' = Request(e)
  <2>1. ASSUME NEW c \in Banks, InBank(e, c), Request(e).key = k, Request(e).wr
        PROVE  Completes(c)
    <3>1. c = b /\ ServesReq(b, e)
      BY <1>6, <2>1 DEF InBank, ReadInv
    <3>2. SUFFICES ASSUME ~ Completes(b) PROVE FALSE
      BY <3>1
    <3>3. bank[b].st # "IDLE"
      BY <2>1, <3>1, <3>2 DEF InBank, BankInv
    <3>4. bank[b].wr = Request(e).wr
      BY <3>1, <3>3 DEF ServesReq
    <3>5. bank[b].st # "DONE_READ"
      BY <2>1, <3>4 DEF BankInv
    <3>6. InPhase(b)
      BY <3>3, <3>5 DEF InPhase, Types, BankTypes, BankRegs
    <3> QED BY <1>1, <1>8, <2>1, <3>1, <3>4, <3>6 DEF Writing
  <2>2. ASSUME NEW c \in Banks, WordDone(c, k, x)
        PROVE  WordDone(c, k, x)' /\ Request(e)' = Request(e)
    <3>1. InBank(e, c) /\ Request(e).wr /\ Request(e).key = k
      BY <1>2, <1>8, <2>2
    <3>2. InAnswer(e, c)'
      BY <2>1, <3>1, BankMoves
    <3> QED BY <1>3, <1>4, <3>1, <3>2
  <2>3. ASSUME NEW c \in Banks, WordDone(c, k, x)'
        PROVE  WordDone(c, k, x)
    <3>1. Request(e)' = Request(e) /\ Request(e).wr /\ Request(e).key = k
      BY <1>3, <1>4, <2>3
    <3>2. CASE InBank(e, c)
      BY <1>2, <2>1, <3>1, <3>2
    <3>3. CASE ~ InBank(e, c)
      <4>1. InBank(e, c)' /\ Dispatch(c) /\ (Completes(c)' \/ (InPhase(c)' /\ x < Phase(bank'[c].st)))
        BY <1>3, <2>3, <3>3, BankMoves
      <4>2. bank'[c].st = "PHASE_0" /\ ~ Completes(c)'
        BY <1>5, <4>1
      <4>3. x < 0
        BY <4>1, <4>2 DEF Phase
      <4> QED BY <4>3 DEF Words
    <3> QED BY <3>2, <3>3
  <2> QED BY <2>2, <2>3
<1>9. ASSUME NEW d \in Banks, InAnswer(e, d)
      PROVE  ~ \E c \in Banks : WordDone(c, k, x)'
  BY <1>3, <1>9, BankFrom
<1> QED BY <1>1, <1>7, <1>8, <1>9

LEMMA RamInvStep ==
  ASSUME Types, BankInv, KeptInv, KeptInv', WalkInv, SlotInv, SlotInv', QueueInv, ReadInv, RamInv,
         NEW raise \in SUBSET Engines, Clock(raise)
  PROVE  RamInv'
<1>1. \A k \in DOMAIN page_table : k \in DOMAIN page_table' /\ page_table'[k] = page_table[k]
  BY TableStep
<1>2. \A k \in DOMAIN page_table : page_table[k] \in Pas /\ k \in Keys
  BY DEF Types, TableTypes
<1>3. ASSUME NEW k \in DOMAIN page_table, NEW x \in Words, NEW e \in Engines, e = k[1]
      PROVE  Stored(k, x)' = IF \E b \in Banks : WordDone(b, k, x)' THEN Request(e)'.data
                             ELSE written'[k]
  <2>1. PICK b \in Banks : b = BankOf(page_table[k])
    BY <1>2, PlaceFacts
  <2>2. PICK a \in Locals : a = LocalSlot(b, page_table[k])
    BY <1>2, <2>1, PlaceFacts
  <2>3. Stored(k, x) = ram[b][a][x] /\ Stored(k, x)' = ram'[b][a][x]
    BY <1>1, <2>1, <2>2 DEF Stored, BankOf, LocalSlot
  <2>4. Stored(k, x) = IF \E c \in Banks : WordDone(c, k, x) THEN Request(e).data ELSE written[k]
    BY <1>3 DEF RamInv
  <2>5. written'[k] = IF (\E c \in Banks : InAnswer(e, c)) /\ Request(e).wr /\ Request(e).key = k
                      THEN Request(e).data ELSE written[k]
    BY <1>2, <1>3, WrittenStep
  <2>6. CASE Writing(b, k)
    <3>1. /\ InPhase(b) /\ bank[b].wr /\ InBank(e, b) /\ bank[b].at = a
          /\ bank[b].data = Request(e).data
      <4>1. InPhase(b) /\ bank[b].wr /\ InBank(e, b) /\ Request(e).key = k
        BY <1>3, <2>6 DEF Writing
      <4>2. bank[b].st # "IDLE"
        BY <4>1 DEF InPhase
      <4>3. ServesReq(b, e)
        BY <4>1 DEF InBank, ReadInv
      <4> QED BY <2>2, <4>1, <4>2, <4>3 DEF ServesReq
    <3>2. ram'[b][a][x] = IF Phase(bank[b].st) = x THEN Request(e).data ELSE ram[b][a][x]
      BY <3>1, RamStep
    <3>3. /\ (\E c \in Banks : WordDone(c, k, x)) <=> x < Phase(bank[b].st)
          /\ (\E c \in Banks : WordDone(c, k, x)') <=> x <= Phase(bank[b].st)
          /\ Request(e)' = Request(e)
      BY <1>3, <2>1, <2>6, WordStep
    <3>4. written'[k] = written[k]
      <4>1. ~ \E c \in Banks : InAnswer(e, c)
        BY <3>1, OnePlace
      <4> QED BY <2>5, <4>1
    <3>5. x \in Int /\ Phase(bank[b].st) \in Int
      BY <3>1 DEF Words, Phase, InPhase
    <3>6. x <= Phase(bank[b].st) <=> x < Phase(bank[b].st) \/ Phase(bank[b].st) = x
      BY ONLY <3>5
    <3> QED BY <2>3, <2>4, <3>2, <3>3, <3>4, <3>6
  <2>7. CASE ~ Writing(b, k)
    <3>1. ram'[b][a][x] = ram[b][a][x]
      <4>1. InPhase(b) /\ bank[b].wr => bank[b].at # a
        BY <2>2, <2>7, WriteFacts
      <4> QED BY <4>1, RamStep
    <3>2. CASE \E c \in Banks : InAnswer(e, c)
      <4>1. ~ \E c \in Banks : WordDone(c, k, x)'
        BY <1>3, <2>1, <3>2, WordStep
      <4>2. (\E c \in Banks : WordDone(c, k, x)) <=> Request(e).wr /\ Request(e).key = k
        BY <1>3, <3>2 DEF WordDone
      <4> QED BY <2>3, <2>4, <2>5, <3>1, <3>2, <4>1, <4>2
    <3>3. CASE ~ \E c \in Banks : InAnswer(e, c)
      <4>1. written'[k] = written[k]
        BY <2>5, <3>3
      <4>2. /\ (\E c \in Banks : WordDone(c, k, x)) <=> (\E c \in Banks : WordDone(c, k, x)')
            /\ (\E c \in Banks : WordDone(c, k, x)) => Request(e)' = Request(e)
        BY <1>3, <2>1, <2>7, <3>3, WordStep
      <4> QED BY <2>3, <2>4, <3>1, <4>1, <4>2
    <3> QED BY <3>2, <3>3
  <2> QED BY <2>6, <2>7
<1>4. ASSUME NEW b \in Banks, NEW a \in Locals,
             \A k \in DOMAIN page_table : BankOf(page_table[k]) = b => LocalSlot(b, page_table[k]) # a
      PROVE  \A x \in Words : ram'[b][a][x] = 0
  <2>1. \A x \in Words : ram[b][a][x] = 0
    BY <1>4 DEF RamInv
  <2>2. InPhase(b) /\ bank[b].wr => bank[b].at # a
    BY <1>4, WriteFacts
  <2> QED BY <2>1, <2>2, RamStep
<1>5. ASSUME NEW k \in DOMAIN page_table', k \notin DOMAIN page_table, NEW x \in Words,
             NEW e \in Engines, e = k[1]
      PROVE  Stored(k, x)' = IF \E b \in Banks : WordDone(b, k, x)' THEN Request(e)'.data
                             ELSE written'[k]
  <2>1. PICK w \in Walkers : Alloc(w) /\ ptw[w].req.key = k
    BY <1>5, TableStep
  <2>2. ptw[w].st = "ALLOCATE" /\ k \in Keys /\ page_table'[k] = AllocSlot(w)
    BY <2>1, TableStep
  <2>3. page_table'[k] \in Pas
    BY <2>2, AllocRange
  <2>4. PICK b \in Banks : b = BankOf(page_table'[k])
    BY <2>3, PlaceFacts
  <2>5. PICK a \in Locals : a = LocalSlot(b, page_table'[k])
    BY <2>3, <2>4, PlaceFacts
  <2>6. Stored(k, x)' = ram'[b][a][x]
    BY <2>4, <2>5 DEF Stored, BankOf, LocalSlot
  <2>7. ASSUME NEW l \in DOMAIN page_table PROVE LocalSlot(b, page_table[l]) # a
    <3>1. SUFFICES ASSUME LocalSlot(b, page_table[l]) = a PROVE FALSE
      OBVIOUS
    <3>2. page_table'[l] = page_table'[k]
      BY <1>1, <1>2, <2>3, <2>5, <3>1, PlaceFacts
    <3>3. l = k
      BY <1>1, <3>2 DEF SlotInv
    <3> QED BY <1>5, <3>3
  <2>8. Stored(k, x)' = 0
    BY <1>4, <2>6, <2>7
  <2>9. InWalker(e, w)
    BY <1>5, <2>1, <2>2 DEF InWalker
  <2>10. ~ \E c \in Banks : WordDone(c, k, x)'
    BY <1>5, <2>9, BankFrom DEF WordDone
  <2>11. written[k] = 0
    BY <1>5, <2>2 DEF RamInv
  <2>12. written'[k] = written[k]
    <3>1. ~ \E c \in Banks : InAnswer(e, c)
      BY <2>9, OnePlace
    <3> QED BY <1>5, <2>2, <3>1, WrittenStep
  <2> QED BY <2>8, <2>10, <2>11, <2>12
<1>6. ASSUME NEW k \in Keys, k \notin DOMAIN page_table' PROVE written'[k] = 0
  <2>1. PICK e \in Engines : e = k[1]
    BY KeyFacts
  <2>2. k \notin DOMAIN page_table
    BY <1>1, <1>6
  <2>3. written[k] = 0
    BY <2>2 DEF RamInv
  <2>4. \A c \in Banks : InAnswer(e, c) => Request(e).key \in DOMAIN page_table
    BY DEF InAnswer, ReadInv
  <2> QED BY <2>1, <2>2, <2>3, <2>4, WrittenStep
<1>7. ASSUME NEW k \in DOMAIN page_table', NEW x \in Words
      PROVE  Stored(k, x)' = IF \E b \in Banks : WordDone(b, k, x)' THEN Request(k[1])'.data
                             ELSE written'[k]
  <2>1. k \in Keys
    BY <1>2, TableStep
  <2>2. PICK e \in Engines : e = k[1]
    BY <2>1, KeyFacts
  <2>3. Request(k[1])' = Request(e)'
    BY <2>2
  <2> QED BY <1>3, <1>5, <2>2, <2>3
<1>8. ASSUME NEW b \in Banks, NEW a \in Locals,
             \A k \in DOMAIN page_table' :
               BankOf(page_table'[k]) = b => LocalSlot(b, page_table'[k]) # a
      PROVE  \A x \in Words : ram'[b][a][x] = 0
  BY <1>1, <1>4, <1>8
<1> QED BY <1>6, <1>7, <1>8 DEF RamInv, BankOf, LocalSlot

-----------------------------------------------------------------------------
(* The theorems.                                                            *)

LEMMA InitInv == Init => IInv
<1> SUFFICES ASSUME Init PROVE IInv
  OBVIOUS
<1>1. EngineTypes
  <2>1. 0 \in Engines
    BY Sizes DEF Engines
  <2>2. \A e \in Engines : 1 \in 1 .. Len(Program[e])
    <3>1. \A e \in Engines : Len(Program[e]) \in Nat /\ Len(Program[e]) > 0
      BY MmuAssumption
    <3> QED BY ONLY <3>1
  <2> QED BY <2>1, <2>2 DEF Init, EngineTypes
<1>2. WalkerTypes
  <2>1. IdleWalker \in WalkerRegs /\ IdleWalker.st = "IDLE"
    BY DEF IdleWalker, WalkerRegs
  <2> QED BY <2>1 DEF Init, WalkerTypes, Walkers
<1>3. TableTypes
  <2>1. [page |-> 0, node |-> 0, full |-> FALSE] \in SlotRegs
    <3>1. 0 \in 0 .. PagesPerPartition - 1 /\ 0 \in 0 .. NodesPerPage - 1
      BY Sizes
    <3> QED BY ONLY <3>1 DEF SlotRegs
  <2>2. DOMAIN page_table = {} /\ page_table \in [DOMAIN page_table -> Pas]
    <3>1. page_table = << >>
      BY DEF Init
    <3>2. DOMAIN << >> = {} /\ << >> \in [{} -> Pas]
      OBVIOUS
    <3> QED BY <3>1, <3>2
  <2> QED BY <2>1, <2>2 DEF Init, TableTypes
<1>4. \A b \in Banks : /\ bank_fifo[b] = << >> /\ va_fifo[b] = << >> /\ bank[b] = IdleBank
                       /\ resp_buf[b] = NoAnswer
  BY DEF Init
<1>5. /\ IdleBank \in BankRegs /\ IdleBank.st = "IDLE" /\ ~ IdleBank.valid /\ ~ IdleBank.wdone
      /\ NoAnswer \in Answers /\ ~ NoAnswer.valid
  <2>1. << >> \in Seq(Nat) /\ 0 \in Engines
    BY Sizes DEF Engines
  <2> QED BY ONLY <2>1 DEF IdleBank, BankRegs, NoAnswer, Answers
<1>6. BankTypes
  BY <1>4, <1>5 DEF Init, BankTypes
<1>7. RamTypes
  BY DEF Init, RamTypes, Locals
<1>8. Len(<< >>) = 0 /\ 1 .. 0 = {}
  OBVIOUS
<1>9. \A w \in Walkers : fifo_in[w] = << >> /\ ptw[w].st = "IDLE"
  BY DEF Init, IdleWalker
<1>10. RoomInv
  <2>1. 0 <= InDepth /\ 0 <= BankDepth
    BY Sizes
  <2> QED BY <1>4, <1>8, <1>9, <2>1 DEF RoomInv
<1>11. \A b \in Banks : ~ Completes(b) /\ ~ InPhase(b)
  BY <1>4, <1>5 DEF Completes, InPhase
<1>12. BankInv
  BY <1>4, <1>5, <1>8, <1>11 DEF BankInv
<1>13. KeptInv
  <2>1. \A e \in Engines : port[e] # "wait"
    BY DEF Init
  <2>2. \A e \in Engines : Nowhere(e)
    BY <1>4, <1>5, <1>8, <1>9 DEF Nowhere, NoInput, NoWalker, NoQueue, NoBank, NoAnswerFor,
       InInput, InWalker, InQueue, InBank, InAnswer
  <2> QED BY <2>1, <2>2 DEF KeptInv
<1>14. SameInv
  BY <1>4, <1>8, <1>9 DEF SameInv
<1>15. WalkInv
  BY <1>9 DEF WalkInv
<1>16. DOMAIN page_table = {}
  BY DEF Init
<1>17. SlotInv
  BY <1>16 DEF SlotInv
<1>18. QueueInv
  BY <1>4, <1>8 DEF QueueInv
<1>19. ReadInv
  BY <1>4, <1>5, <1>8 DEF ReadInv
<1>20. RamInv
  BY <1>16 DEF RamInv, Init, Locals
<1> QED BY <1>1, <1>2, <1>3, <1>6, <1>7, <1>10, <1>12, <1>13, <1>14, <1>15, <1>17, <1>18, <1>19,
           <1>20 DEF IInv, Types, FlowInv, MemInv

LEMMA StepInv == IInv /\ [Next]_vars => IInv'
<1>1. ASSUME IInv, NEW raise \in SUBSET Engines, Clock(raise) PROVE IInv'
  <2>1. /\ Types /\ RoomInv /\ BankInv /\ KeptInv /\ SameInv /\ WalkInv
        /\ SlotInv /\ QueueInv /\ ReadInv /\ RamInv
    BY <1>1 DEF IInv, FlowInv, MemInv
  <2>2. Types'
    BY <1>1, <2>1, TypesStep
  <2>3. KeptInv'
    BY <1>1, <2>1, KeptStep
  <2>4. RoomInv' /\ BankInv' /\ WalkInv'
    BY <1>1, <2>1, RoomStep, BankInvStep, WalkStep
  <2>5. SameInv'
    BY <1>1, <2>1, <2>2, <2>3, SameStep
  <2>6. SlotInv' /\ QueueInv'
    BY <1>1, <2>1, SlotStep, QueueInvStep
  <2>7. ReadInv' /\ RamInv'
    BY <1>1, <2>1, <2>2, <2>3, <2>6, ReadStep, RamInvStep
  <2> QED BY <2>2, <2>3, <2>4, <2>5, <2>6, <2>7 DEF IInv, FlowInv, MemInv
<1>2. ASSUME IInv, UNCHANGED vars PROVE IInv'
  <2>1. Types'
    BY <1>2 DEF IInv, vars, Types, EngineTypes, WalkerTypes, TableTypes, BankTypes, RamTypes
  <2>2. RoomInv' /\ BankInv'
    BY <1>2 DEF IInv, FlowInv, vars, RoomInv, BankInv, Completes
  <2>3. KeptInv'
    BY <1>2 DEF IInv, FlowInv, vars, KeptInv, Somewhere, Nowhere, OnlyInput, OnlyWalker, OnlyQueue,
       OnlyBank, OnlyAnswer, NoInput, NoWalker, NoQueue, NoBank, NoAnswerFor, InInput, InWalker,
       InQueue, InBank, InAnswer
  <2>4. SameInv' /\ WalkInv'
    BY <1>2 DEF IInv, FlowInv, vars, SameInv, WalkInv, Request
  <2>5. SlotInv' /\ QueueInv'
    BY <1>2 DEF IInv, MemInv, vars, SlotInv, QueueInv
  <2>6. ReadInv'
    <3>1. \A e : Request(e)' = Request(e)
      BY <1>2 DEF vars, Request
    <3>2. \A b \in Banks : /\ InPhase(b)' <=> InPhase(b)
                           /\ Completes(b)' <=> Completes(b)
                           /\ Phase(bank[b].st)' = Phase(bank[b].st)
      BY <1>2 DEF vars, InPhase, Completes, Phase
    <3>3. \A b \in Banks, e \in Engines : ServesReq(b, e) => ServesReq(b, e)'
      BY <1>2, <3>1, <3>2 DEF vars, ServesReq, BankOf, LocalSlot
    <3>4. \A r, n, k : ReadSoFar(r, n, k)' <=> ReadSoFar(r, n, k)
      BY <1>2 DEF vars, ReadSoFar
    <3>5. \A b \in Banks : Len(va_fifo[b]) = 1 => va_fifo[b][1] \in Engines
      <4>1. \A b \in Banks : va_fifo[b] \in Seq(Engines)
        BY <1>2 DEF IInv, Types, BankTypes
      <4> QED BY ONLY <4>1
    <3> QED BY <1>2, <3>1, <3>2, <3>3, <3>4, <3>5 DEF IInv, MemInv, vars, ReadInv
  <2>7. RamInv'
    BY <1>2 DEF IInv, MemInv, vars, RamInv, Stored, WordDone, Request, InPhase, Completes, InBank,
       InAnswer
  <2> QED BY <2>1, <2>2, <2>3, <2>4, <2>5, <2>6, <2>7 DEF IInv, FlowInv, MemInv
<1> QED BY <1>1, <1>2 DEF Next

LEMMA MmuInvariant == Spec => []IInv
BY InitInv, StepInv, PTL DEF Spec

\* The places of a request, stage by stage.
LEMMA PlacesOf ==
  ASSUME Types, BankInv, NEW e \in Engines, NEW p
  PROVE  p \in Places(e) <=>
           \/ \E w \in Walkers : \E i \in 1 .. Len(fifo_in[w]) :
                InInput(e, w, i) /\ p = <<"input", w, i>>
           \/ \E w \in Walkers : InWalker(e, w) /\ p = <<"walker", 0, w>>
           \/ \E b \in Banks : \E i \in 1 .. Len(bank_fifo[b]) :
                InQueue(e, b, i) /\ p = <<"queue", b, i>>
           \/ \E b \in Banks : InBank(e, b) /\ p = <<"bank", b, 1>>
           \/ \E b \in Banks : InAnswer(e, b) /\ p = <<"answer", 0, b>>
<1>1. \A w \in Walkers : DOMAIN fifo_in[w] = 1 .. Len(fifo_in[w])
  BY DEF Types, WalkerTypes
<1>2. \A b \in Banks : DOMAIN bank_fifo[b] = 1 .. Len(bank_fifo[b])
  BY DEF Types, BankTypes
<1>3. \A b \in Banks : \A i :
        i \in DOMAIN va_fifo[b] /\ va_fifo[b][i] = e <=> InBank(e, b) /\ i = 1
  <2> SUFFICES ASSUME NEW b \in Banks, NEW i
               PROVE  i \in DOMAIN va_fifo[b] /\ va_fifo[b][i] = e <=> InBank(e, b) /\ i = 1
    OBVIOUS
  <2>1. Len(va_fifo[b]) = 0 \/ Len(va_fifo[b]) = 1
    BY DEF BankInv
  <2>2. DOMAIN va_fifo[b] = 1 .. Len(va_fifo[b])
    BY DEF Types, BankTypes
  <2>3. 1 .. 0 = {} /\ 1 .. 1 = {1}
    OBVIOUS
  <2>4. i \in DOMAIN va_fifo[b] <=> Len(va_fifo[b]) = 1 /\ i = 1
    BY <2>1, <2>2, <2>3
  <2> QED BY <2>4 DEF InBank
<1> DEFINE A == UNION {{<<"input", w, i>> : i \in {j \in DOMAIN fifo_in[w] :
                                                     fifo_in[w][j].key[1] = e}} : w \in Walkers}
           B == {<<"walker", 0, w>> : w \in {v \in Walkers : ptw[v].st # "IDLE"
                                                             /\ ptw[v].req.key[1] = e}}
           C == UNION {{<<"queue", b, i>> : i \in {j \in DOMAIN bank_fifo[b] :
                                                bank_fifo[b][j].req.key[1] = e}} : b \in Banks}
           D == UNION {{<<"bank", b, i>> : i \in {j \in DOMAIN va_fifo[b] : va_fifo[b][j] = e}}
                         : b \in Banks}
           F == {<<"answer", 0, b>> : b \in {c \in Banks : resp_buf[c].valid /\ resp_buf[c].e = e}}
<1>4. Places(e) = A \cup B \cup C \cup D \cup F
  BY Zenon DEF Places
<1>5. p \in Places(e) <=>
        \/ \E w \in Walkers : \E i \in DOMAIN fifo_in[w] :
             fifo_in[w][i].key[1] = e /\ p = <<"input", w, i>>
        \/ \E w \in Walkers : ptw[w].st # "IDLE" /\ ptw[w].req.key[1] = e /\ p = <<"walker", 0, w>>
        \/ \E b \in Banks : \E i \in DOMAIN bank_fifo[b] :
             bank_fifo[b][i].req.key[1] = e /\ p = <<"queue", b, i>>
        \/ \E b \in Banks : \E i \in DOMAIN va_fifo[b] : va_fifo[b][i] = e /\ p = <<"bank", b, i>>
        \/ \E b \in Banks : resp_buf[b].valid /\ resp_buf[b].e = e /\ p = <<"answer", 0, b>>
  <2>1. p \in A <=> \E w \in Walkers : \E i \in DOMAIN fifo_in[w] :
                      fifo_in[w][i].key[1] = e /\ p = <<"input", w, i>>
    OBVIOUS
  <2>2. p \in B <=> \E w \in Walkers : /\ ptw[w].st # "IDLE" /\ ptw[w].req.key[1] = e
                                       /\ p = <<"walker", 0, w>>
    OBVIOUS
  <2>3. p \in C <=> \E b \in Banks : \E i \in DOMAIN bank_fifo[b] :
                      bank_fifo[b][i].req.key[1] = e /\ p = <<"queue", b, i>>
    OBVIOUS
  <2>4. p \in D <=> \E b \in Banks : \E i \in DOMAIN va_fifo[b] :
                      va_fifo[b][i] = e /\ p = <<"bank", b, i>>
    OBVIOUS
  <2>5. p \in F <=> \E b \in Banks : resp_buf[b].valid /\ resp_buf[b].e = e /\ p = <<"answer", 0, b>>
    OBVIOUS
  <2> HIDE DEF A, B, C, D, F
  <2> QED BY ONLY <1>4, <2>1, <2>2, <2>3, <2>4, <2>5
<1>6. (\E b \in Banks : \E i \in DOMAIN va_fifo[b] : va_fifo[b][i] = e /\ p = <<"bank", b, i>>)
        <=> \E b \in Banks : InBank(e, b) /\ p = <<"bank", b, 1>>
  BY <1>3
<1>7. (\E w \in Walkers : \E i \in DOMAIN fifo_in[w] :
         fifo_in[w][i].key[1] = e /\ p = <<"input", w, i>>)
        <=> \E w \in Walkers : \E i \in 1 .. Len(fifo_in[w]) :
              InInput(e, w, i) /\ p = <<"input", w, i>>
  BY <1>1 DEF InInput
<1>8. (\E b \in Banks : \E i \in DOMAIN bank_fifo[b] :
         bank_fifo[b][i].req.key[1] = e /\ p = <<"queue", b, i>>)
        <=> \E b \in Banks : \E i \in 1 .. Len(bank_fifo[b]) :
              InQueue(e, b, i) /\ p = <<"queue", b, i>>
  BY <1>2 DEF InQueue
<1>9. /\ \A w \in Walkers : InWalker(e, w) <=> ptw[w].st # "IDLE" /\ ptw[w].req.key[1] = e
      /\ \A b \in Banks : InAnswer(e, b) <=> resp_buf[b].valid /\ resp_buf[b].e = e
  BY DEF InWalker, InAnswer
<1> QED BY ONLY <1>5, <1>6, <1>7, <1>8, <1>9, Zenon

\* One place, counted.
LEMMA KeptCounted ==
  ASSUME Types, BankInv, KeptInv
  PROVE  RequestsKept
<1> SUFFICES ASSUME NEW e \in Engines
             PROVE  Cardinality(Places(e)) = IF port[e] = "wait" THEN 1 ELSE 0
  BY DEF RequestsKept
<1> DEFINE Holds(p) ==
             \/ \E w \in Walkers : \E i \in 1 .. Len(fifo_in[w]) :
                  InInput(e, w, i) /\ p = <<"input", w, i>>
             \/ \E w \in Walkers : InWalker(e, w) /\ p = <<"walker", 0, w>>
             \/ \E b \in Banks : \E i \in 1 .. Len(bank_fifo[b]) :
                  InQueue(e, b, i) /\ p = <<"queue", b, i>>
             \/ \E b \in Banks : InBank(e, b) /\ p = <<"bank", b, 1>>
             \/ \E b \in Banks : InAnswer(e, b) /\ p = <<"answer", 0, b>>
<1>1. \A p : p \in Places(e) <=> Holds(p)
  BY PlacesOf
<1>2. ASSUME NEW q, \A p : Holds(p) <=> p = q PROVE Cardinality(Places(e)) = 1
  <2>1. Places(e) = {q}
    BY <1>1, <1>2
  <2> QED BY <2>1, FS_Singleton
<1>3. CASE port[e] # "wait"
  <2>1. Nowhere(e)
    BY <1>3 DEF KeptInv
  <2>2. \A p : ~ Holds(p)
    BY <2>1 DEF Nowhere, NoInput, NoWalker, NoQueue, NoBank, NoAnswerFor
  <2>3. Places(e) = {}
    BY <1>1, <2>2
  <2> QED BY <1>3, <2>3, FS_EmptySet
<1>4. CASE port[e] = "wait"
  <2>1. OnlyInput(e) \/ OnlyWalker(e) \/ OnlyQueue(e) \/ OnlyBank(e) \/ OnlyAnswer(e)
    BY <1>4 DEF KeptInv, Somewhere
  <2>2. CASE OnlyInput(e)
    <3>1. \E q : \A p : Holds(p) <=> p = q
      <4>1. PICK w \in Walkers : \E i \in 1 .. Len(fifo_in[w]) :
              /\ InInput(e, w, i)
              /\ \A v \in Walkers : \A j \in 1 .. Len(fifo_in[v]) :
                   InInput(e, v, j) => v = w /\ j = i
        BY <2>2 DEF OnlyInput
      <4>2. PICK i \in 1 .. Len(fifo_in[w]) :
              /\ InInput(e, w, i)
              /\ \A v \in Walkers : \A j \in 1 .. Len(fifo_in[v]) :
                   InInput(e, v, j) => v = w /\ j = i
        BY <4>1
      <4>3. \A p : Holds(p) <=> p = <<"input", w, i>>
        BY <2>2, <4>2 DEF OnlyInput, NoWalker, NoQueue, NoBank, NoAnswerFor
      <4> HIDE DEF Holds
      <4> QED BY <4>3
    <3> QED BY <1>2, <1>4, <3>1
  <2>3. CASE OnlyWalker(e)
    <3>1. \E q : \A p : Holds(p) <=> p = q
      BY <2>3 DEF OnlyWalker, NoInput, NoQueue, NoBank, NoAnswerFor
    <3> QED BY <1>2, <1>4, <3>1
  <2>4. CASE OnlyQueue(e)
    <3>1. \E q : \A p : Holds(p) <=> p = q
      <4>1. PICK b \in Banks : \E i \in 1 .. Len(bank_fifo[b]) :
              /\ InQueue(e, b, i)
              /\ \A c \in Banks : \A j \in 1 .. Len(bank_fifo[c]) :
                   InQueue(e, c, j) => c = b /\ j = i
        BY <2>4 DEF OnlyQueue
      <4>2. PICK i \in 1 .. Len(bank_fifo[b]) :
              /\ InQueue(e, b, i)
              /\ \A c \in Banks : \A j \in 1 .. Len(bank_fifo[c]) :
                   InQueue(e, c, j) => c = b /\ j = i
        BY <4>1
      <4>3. \A p : Holds(p) <=> p = <<"queue", b, i>>
        BY <2>4, <4>2 DEF OnlyQueue, NoInput, NoWalker, NoBank, NoAnswerFor
      <4> HIDE DEF Holds
      <4> QED BY <4>3
    <3> QED BY <1>2, <1>4, <3>1
  <2>5. CASE OnlyBank(e)
    <3>1. \E q : \A p : Holds(p) <=> p = q
      BY <2>5 DEF OnlyBank, NoInput, NoWalker, NoQueue, NoAnswerFor
    <3> QED BY <1>2, <1>4, <3>1
  <2>6. CASE OnlyAnswer(e)
    <3>1. \E q : \A p : Holds(p) <=> p = q
      BY <2>6 DEF OnlyAnswer, NoInput, NoWalker, NoQueue, NoBank
    <3> QED BY <1>2, <1>4, <3>1
  <2> QED BY <2>1, <2>2, <2>3, <2>4, <2>5, <2>6
<1> QED BY <1>3, <1>4

\* The queues hold what they have room for, every request that was taken is in
\* exactly one of the stages of mmu.sv, arbiter.sv and mem_bank.sv until it is
\* answered, and the two walkers never allocate in the same partition.
THEOREM RequestsAreKept == Spec => []RequestsInv
<1>1. ASSUME IInv PROVE RequestsInv
  <2>1. /\ Types /\ RoomInv /\ BankInv /\ KeptInv
    BY <1>1 DEF IInv, FlowInv
  <2>2. RequestsKept /\ NoAllocCollision
    BY <2>1, KeptCounted, NoCollision DEF NoAllocCollision
  <2>3. TypeOK
    <3>1. \A w \in Walkers : Len(fifo_in[w]) <= InDepth
      <4>1. \A w \in Walkers : Len(fifo_in[w]) \in Nat /\ InDepth \in Nat
        BY <2>1, Sizes DEF Types, WalkerTypes
      <4> QED BY <2>1, <4>1 DEF RoomInv
    <3>2. \A b \in Banks : Len(va_fifo[b]) <= TrackDepth
      <4>1. \A b \in Banks : Len(va_fifo[b]) = 0 \/ Len(va_fifo[b]) = 1
        BY <2>1 DEF BankInv
      <4>2. 0 <= TrackDepth /\ 1 <= TrackDepth
        BY Sizes
      <4> QED BY ONLY <4>1, <4>2, Zenon
    <3>3. \A b \in Banks : bank[b].at # NoSlot => bank[b].at \in DOMAIN ram[b]
      BY <2>1 DEF Types, BankTypes, BankRegs, RamTypes
    <3>4. \A q \in Partitions : /\ next_slot[q].page \in 0 .. PagesPerPartition - 1
                                /\ next_slot[q].node \in 0 .. NodesPerPage - 1
      BY <2>1 DEF Types, TableTypes, SlotRegs
    <3> QED BY <2>1, <3>1, <3>2, <3>3, <3>4 DEF TypeOK, Types, EngineTypes, WalkerTypes, RoomInv
  <2> QED BY <2>2, <2>3 DEF RequestsInv
<1> QED BY <1>1, MmuInvariant, PTL

\* HPTW.sv rejects an access only when its partition has no slot left and the
\* address has none: not by a stale page table word, not by a lost collision.
THEOREM OnlyFullRejects == Spec => []RejectedWhenFull
<1>1. ASSUME IInv PROVE RejectedWhenFull
  <2>1. Types /\ KeptInv /\ WalkInv
    BY <1>1 DEF IInv, FlowInv
  <2>2. \A w \in Walkers : Fault(w) => ptw[w].st = "FAULT"
    BY <2>1, NoCollision
  <2> QED BY <2>1, <2>2 DEF RejectedWhenFull, WalkInv
<1> QED BY <1>1, MmuInvariant, PTL

\* An answered read is what its engine wrote there last, in all three words,
\* whatever the other engines do in the banks meanwhile.
THEOREM ReadsAreLastWrites == Spec => []ReadsLastWrite
<1>1. ASSUME IInv PROVE ReadsLastWrite
  <2>1. Types /\ ReadInv
    BY <1>1 DEF IInv, MemInv
  <2> SUFFICES ASSUME NEW b \in Banks, resp_buf[b].valid, NEW r, r = Request(resp_buf[b].e), ~ r.wr
               PROVE  resp_buf[b].data = [w \in 1 .. 3 |-> written[r.key]]
    BY DEF ReadsLastWrite
  <2>2. PICK s \in Seq(Nat) : s = resp_buf[b].data
    BY <2>1 DEF Types, BankTypes, Answers
  <2>3. Len(s) = 3 /\ \A i \in 1 .. 3 : s[i] = written[r.key]
    BY <2>1, <2>2 DEF ReadInv, ReadSoFar
  <2>4. s = [i \in 1 .. Len(s) |-> s[i]]
    OBVIOUS
  <2> QED BY <2>2, <2>3, <2>4
<1> QED BY <1>1, MmuInvariant, PTL
=============================================================================
