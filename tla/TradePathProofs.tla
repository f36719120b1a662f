----------------------------- MODULE TradePathProofs ------------------------
(***************************************************************************)
(* Proofs about TradePath, for any number of engines and processes, every  *)
(* depth of the log and any amounts.                                       *)
(***************************************************************************)
EXTENDS TradePath, TLAPS, WellFoundedInduction

\* The code polls LOG_INFO up to 1000 times; three reach the entry.
PollsAllowed == PollLimit >= 3

Entry == [engine_id : Nat, amount : Nat, ts : Nat]

Indices == 0 .. LogDepth - 1

LogRegs == [mem : [Indices -> Entry], count : 0 .. LogDepth, overflow : BOOLEAN,
            sw_rdata : Entry]

AvlRegs == [clear : BOOLEAN, read : BOOLEAN, index : Indices, pipe : 0 .. 2,
            shadow : Entry, data_valid : BOOLEAN]

Places == {"out", "clear", "check", "info", "cmd", "poll", "timedout", "data0",
           "data1", "return"}

\* TypeOK for every variable and every field.
Types ==
  /\ state \in {"IDLE", "DISPATCH", "DONE"} /\ working \subseteq Engines
  /\ offer \in [Engines -> Nat] /\ made \in [Engines -> Nat]
  /\ rr_ptr \in Engines /\ log \in LogRegs /\ avl \in AvlRegs
  /\ lock \in Procs \cup {NoProc} /\ ppc \in [Procs -> Places]
  /\ index \in [Procs -> Indices] /\ polls \in [Procs -> Int]
  /\ got \in [Procs -> Entry]
  /\ given \in [Engines -> Seq(Nat)] /\ base \in [Engines -> Nat]
  /\ waited \in [Engines -> Nat]

\* Whoever is inside an ioctl holds the mutex.
MutexInv == \A p \in Procs : ppc[p] # "out" <=> lock = p

\* Where a process has not yet looked at the log.
Early == {"out", "clear", "check"}

\* In the cycle in which the log is cleared nobody is reading it: the edge that
\* clears it is the one at which the next reader looks at STATUS.
ClearInv == avl.clear => \A p \in Procs : ppc[p] \in Early

\* A clear covers only trades that were handed over.
BaseInv == \A e \in Engines : base[e] <= Len(given[e])

\* made counts the trades handed over and the one on offer.
MadeInv ==
  \A e \in Engines : made[e] = Len(given[e]) + (IF offer[e] = 0 THEN 0 ELSE 1)

\* The further the pointer still is from an engine's turn, the shorter the
\* engine has waited.
TurnInv == \A e \in Valid : waited[e] + Dist(e) <= N - 1

\* Where the entry that p asked for is, as long as the log is not reset: in
\* the RAM, behind it, or in the shadow registers; and enough polls are left
\* to see it arrive.
EntryInv(p) ==
  /\ ppc[p] \in {"cmd", "poll", "data0", "data1", "return"} => index[p] < log.count
  /\ ppc[p] = "poll" =>
       \/ /\ avl.pipe = 1 /\ avl.read /\ avl.index = index[p]
          /\ ~avl.data_valid /\ polls[p] >= 3
       \/ /\ avl.pipe = 2 /\ ~avl.read /\ log.sw_rdata = log.mem[index[p]]
          /\ ~avl.data_valid /\ polls[p] >= 2
       \/ /\ avl.pipe = 0 /\ avl.data_valid /\ avl.shadow = log.mem[index[p]]
          /\ polls[p] >= 1
  /\ ppc[p] \in {"data0", "data1"} =>
       avl.pipe = 0 /\ avl.data_valid /\ avl.shadow = log.mem[index[p]]
  /\ ppc[p] = "data1" => got[p].ts = log.mem[index[p]].ts
  /\ ppc[p] = "return" => got[p] = log.mem[index[p]]
  /\ ppc[p] # "timedout"

ReadInv == state = "DONE" => \A p \in Procs : EntryInv(p)

\* The inductive invariant.
IInv ==
  /\ Types /\ MutexInv /\ ClearInv /\ BaseInv /\ MadeInv /\ LogComplete /\ TurnInv

IReadInv == IInv /\ (PollsAllowed => ReadInv)

-----------------------------------------------------------------------------
(* The scan of trade_aggregator.                                            *)

LEMMA ModShift ==
  ASSUME NEW n \in Nat \ {0}, NEW x \in (-n) .. (n - 1)
  PROVE  x % n = IF x < 0 THEN x + n ELSE x
OBVIOUS

\* How far an engine is from a pointer, without the modulus.
LEMMA Ahead ==
  ASSUME NEW e \in Engines, NEW r \in Engines
  PROVE  /\ (e - r) % N = IF e < r THEN e - r + N ELSE e - r
         /\ (e - r) % N \in 0 .. N - 1
<1>1. N \in Nat \ {0} /\ e - r \in (-N) .. (N - 1)
  BY TradeAssumption DEF Engines
<1>2. (e - r) % N = IF e - r < 0 THEN (e - r) + N ELSE e - r
  BY <1>1, ModShift
<1> QED BY <1>1, <1>2 DEF Engines

\* The pointer stays within the engines.
LEMMA Successor ==
  ASSUME NEW e \in Engines
  PROVE  /\ (e + 1) % N = IF e = N - 1 THEN 0 ELSE e + 1
         /\ (e + 1) % N \in Engines
<1>1. CASE e = N - 1
  BY <1>1, TradeAssumption DEF Engines
<1>2. CASE e # N - 1
  <2>1. N \in Nat \ {0} /\ e + 1 \in (-N) .. (N - 1) /\ ~(e + 1 < 0)
    BY <1>2, TradeAssumption DEF Engines
  <2>2. (e + 1) % N = e + 1
    BY <2>1, ModShift
  <2> QED BY <1>2, <2>1, <2>2, TradeAssumption DEF Engines
<1> QED BY <1>1, <1>2

\* The scan finds the offer that is nearest to the pointer.
LEMMA ScanFinds ==
  ASSUME rr_ptr \in Engines, Valid # {}
  PROVE  /\ Selected \in Valid /\ Selected \in Engines /\ offer[Selected] # 0
         /\ \A f \in Valid : Dist(Selected) <= Dist(f)
<1> DEFINE T == {Dist(e) : e \in Valid}
<1>1. T \subseteq Nat /\ T # {} /\ \A e \in Valid : Dist(e) \in Nat
  BY Ahead DEF Valid, Dist
<1>2. PICK x \in T : \A y \in T : ~(<<y, x>> \in OpToRel(<, Nat))
  <2> HIDE DEF T
  <2> QED BY <1>1, NatLessThanWellFounded, WFMin
<1>3. \A y \in T : ~(y < x)
  <2>1. OpToRel(<, Nat) = {ss \in Nat \X Nat : ss[1] < ss[2]}
    BY Zenon DEF OpToRel
  <2>2. SUFFICES ASSUME NEW y \in T, y < x PROVE <<y, x>> \in OpToRel(<, Nat)
    BY <1>2
  <2>3. <<y, x>> \in Nat \X Nat /\ <<y, x>>[1] < <<y, x>>[2]
    BY <1>1, <2>2
  <2> QED BY ONLY <2>1, <2>3
<1>4. PICK e \in Valid : Dist(e) = x
  OBVIOUS
<1>5. \A f \in Valid : Dist(e) <= Dist(f)
  BY <1>1, <1>3, <1>4
<1>6. Selected \in Valid /\ \A f \in Valid : Dist(Selected) <= Dist(f)
  <2> HIDE DEF T
  <2> QED BY <1>4, <1>5 DEF Selected
<1> QED BY <1>6 DEF Valid

\* When another engine wins, an engine that waits comes at least one closer
\* to its turn.
LEMMA Closer ==
  ASSUME NEW r \in Engines, NEW s \in Engines, NEW e \in Engines, e # s,
         (s - r) % N <= (e - r) % N
  PROVE  (e - ((s + 1) % N)) % N < (e - r) % N
<1>1. /\ (s + 1) % N = (IF s = N - 1 THEN 0 ELSE s + 1)
      /\ (s + 1) % N \in Engines
  BY Successor
<1>2. /\ (s - r) % N = (IF s < r THEN s - r + N ELSE s - r)
      /\ (e - r) % N = (IF e < r THEN e - r + N ELSE e - r)
  BY Ahead
<1>3. (e - ((s + 1) % N)) % N =
        (IF e < (s + 1) % N THEN e - ((s + 1) % N) + N ELSE e - ((s + 1) % N))
  BY <1>1, Ahead
<1> DEFINE u == (s + 1) % N
<1>4. (IF e < u THEN e - u + N ELSE e - u) < (IF e < r THEN e - r + N ELSE e - r)
  <2>1. u = IF s = N - 1 THEN 0 ELSE s + 1
    BY <1>1
  <2>2. (IF s < r THEN s - r + N ELSE s - r) <= (IF e < r THEN e - r + N ELSE e - r)
    BY <1>2
  <2>3. e \in Int /\ r \in Int /\ s \in Int /\ N \in Int /\ e < N /\ 0 <= e
        /\ r < N /\ 0 <= r /\ s < N /\ 0 <= s
    BY TradeAssumption DEF Engines
  <2> HIDE DEF u
  <2> QED BY ONLY <2>1, <2>2, <2>3, e # s
<1> QED BY <1>2, <1>3, <1>4

-----------------------------------------------------------------------------
(* One clock edge of aggregator, log and registers.                         *)

\* Either the log is cleared, or one trade goes from the scan's winner into it,
\* or neither moves.
LEMMA EdgeShape ==
  ASSUME IInv, NEW cmd, NEW idx, Edge(cmd, idx)
  PROVE  /\ log' = [mem |-> log'.mem, count |-> log'.count,
                    overflow |-> log'.overflow, sw_rdata |-> log'.sw_rdata]
         /\ log'.overflow \in BOOLEAN
         /\ log'.sw_rdata = IF avl.read THEN log.mem[avl.index] ELSE log.sw_rdata
         /\ avl.clear => /\ log'.mem = log.mem /\ log'.count = 0
                         /\ base' = [e \in Engines |-> Len(given'[e])]
         /\ ~avl.clear /\ Handshake =>
              /\ log'.mem = [log.mem EXCEPT ![log.count] =
                               Compact(Selected, offer[Selected], made[Selected])]
              /\ log'.count = log.count + 1 /\ base' = base
         /\ ~avl.clear /\ ~Handshake =>
              log'.mem = log.mem /\ log'.count = log.count /\ base' = base
         /\ ~Handshake => UNCHANGED <<rr_ptr, offer, given, waited>>
<1>1. /\ log' = [mem |-> log'.mem, count |-> log'.count,
                 overflow |-> log'.overflow, sw_rdata |-> log'.sw_rdata]
      /\ log'.overflow \in BOOLEAN
      /\ log'.sw_rdata = IF avl.read THEN log.mem[avl.index] ELSE log.sw_rdata
  BY DEF Edge, LogNext
<1>2. avl.clear \in BOOLEAN
  BY DEF IInv, Types, AvlRegs
<1>3. avl.clear => log'.mem = log.mem /\ log'.count = 0
  BY <1>2 DEF Edge, LogNext
<1>4. ~avl.clear /\ Handshake =>
        /\ log'.mem = [log.mem EXCEPT ![log.count] =
                         Compact(Selected, offer[Selected], made[Selected])]
        /\ log'.count = log.count + 1
  BY <1>2 DEF Edge, LogNext, Handshake, Ready
<1>5. ~avl.clear /\ ~Handshake => log'.mem = log.mem /\ log'.count = log.count
  BY <1>2 DEF Edge, LogNext, Handshake, Ready
<1>6. ~Handshake => UNCHANGED <<rr_ptr, offer, given, waited>>
  BY DEF Edge, AggNext
<1>7. base' = IF avl.clear THEN [e \in Engines |-> Len(given'[e])] ELSE base
  BY DEF Edge
<1> QED BY <1>1, <1>2, <1>3, <1>4, <1>5, <1>6, <1>7

\* What a handshake does to the engines' side.
LEMMA HandshakeShape ==
  ASSUME IInv, NEW cmd, NEW idx, Edge(cmd, idx), Handshake
  PROVE  /\ Selected \in Engines /\ offer[Selected] # 0 /\ offer[Selected] \in Nat
         /\ log.count \in 0 .. LogDepth - 1
         /\ made[Selected] = Len(given[Selected]) + 1 /\ given[Selected] \in Seq(Nat)
         /\ rr_ptr' = (Selected + 1) % N /\ rr_ptr' \in Engines
         /\ offer' = [offer EXCEPT ![Selected] = 0]
         /\ given' = [given EXCEPT ![Selected] = Append(given[Selected], offer[Selected])]
         /\ waited' = [e \in Engines |-> IF e \in Valid \ {Selected} THEN waited[e] + 1
                                         ELSE waited[e]]
<1>1. Selected \in Engines /\ offer[Selected] # 0
  BY ScanFinds DEF Handshake, IInv, Types
<1>2. log.count \in 0 .. LogDepth - 1
  <2>1. log.count \in 0 .. LogDepth /\ log.count < LogDepth
    BY DEF Handshake, Ready, IInv, Types, LogRegs
  <2> QED BY <2>1, TradeAssumption
<1>3. made[Selected] = Len(given[Selected]) + 1 /\ given[Selected] \in Seq(Nat)
      /\ offer[Selected] \in Nat
  BY <1>1 DEF IInv, MadeInv, Types
<1>4. /\ rr_ptr' = (Selected + 1) % N /\ offer' = [offer EXCEPT ![Selected] = 0]
      /\ given' = [given EXCEPT ![Selected] = Append(given[Selected], offer[Selected])]
      /\ waited' = [e \in Engines |-> IF e \in Valid \ {Selected} THEN waited[e] + 1
                                      ELSE waited[e]]
  BY DEF Edge, AggNext, PtrNext
<1> QED BY <1>1, <1>2, <1>3, <1>4, Successor

\* The entry the log stores fits its fields.
LEMMA EntryFits ==
  ASSUME NEW e \in Engines, NEW amt \in Nat, NEW n \in Nat
  PROVE  Compact(e, amt, n) \in Entry
<1>1. amt % AmtSpan \in Nat /\ e \in Nat
  BY TradeAssumption DEF Engines
<1> QED BY <1>1 DEF Compact, Entry

\* A clear moves base up to what was handed over, and nothing moves it back.
LEMMA BaseKept ==
  ASSUME IInv, NEW cmd, NEW idx, Edge(cmd, idx),
         \A e \in Engines : Len(given'[e]) \in Nat /\ Len(given[e]) <= Len(given'[e])
  PROVE  base' \in [Engines -> Nat] /\ BaseInv'
<1>1. /\ base \in [Engines -> Nat] /\ \A e \in Engines : base[e] <= Len(given[e])
      /\ given \in [Engines -> Seq(Nat)]
  BY DEF IInv, Types, BaseInv
<1>2. CASE avl.clear
  <2>1. base' = [e \in Engines |-> Len(given'[e])]
    BY <1>2, EdgeShape
  <2> QED BY <2>1 DEF BaseInv
<1>3. CASE ~avl.clear
  <2>1. base' = base
    BY <1>3, EdgeShape
  <2>2. \A e \in Engines : base[e] \in Nat /\ Len(given[e]) \in Nat
    BY <1>1
  <2>3. ASSUME NEW e \in Engines PROVE base[e] <= Len(given'[e])
    <3>1. base[e] <= Len(given[e]) /\ Len(given[e]) <= Len(given'[e]) /\ Len(given'[e]) \in Nat
      BY <1>1
    <3> QED BY <2>2, <3>1
  <2> QED BY <1>1, <2>1, <2>3 DEF BaseInv
<1> QED BY <1>2, <1>3

\* The hardware keeps its types.
LEMMA EdgeTypes ==
  ASSUME IInv, NEW cmd \in {"none", "clear", "read"}, NEW idx \in Indices, Edge(cmd, idx)
  PROVE  /\ state' = state /\ working' = working /\ made' = made
         /\ offer' \in [Engines -> Nat] /\ rr_ptr' \in Engines
         /\ log' \in LogRegs /\ avl' \in AvlRegs
         /\ given' \in [Engines -> Seq(Nat)] /\ waited' \in [Engines -> Nat]
         /\ base' \in [Engines -> Nat] /\ BaseInv'
<1>1. Types /\ state' = state /\ working' = working /\ made' = made
  BY DEF Edge, IInv
<1>2. avl' \in AvlRegs
  BY <1>1 DEF Edge, AvlNext, AvlRegs, Delivered, Types, LogRegs, ZeroEntry, Entry
<1>3. log'.sw_rdata \in Entry
  BY <1>1, EdgeShape DEF Types, LogRegs, AvlRegs
<1>4. CASE Handshake
  <2>1. offer' \in [Engines -> Nat] /\ rr_ptr' \in Engines
    <3>1. /\ offer' = [offer EXCEPT ![Selected] = 0] /\ rr_ptr' \in Engines
      BY <1>4, HandshakeShape
    <3> QED BY <1>1, <3>1 DEF Types
  <2>2. given' \in [Engines -> Seq(Nat)]
    <3>1. Append(given[Selected], offer[Selected]) \in Seq(Nat)
      BY <1>4, HandshakeShape
    <3> QED BY <1>1, <1>4, <3>1, HandshakeShape DEF Types
  <2>3. waited' \in [Engines -> Nat]
    <3>1. waited' = [e \in Engines |-> IF e \in Valid \ {Selected} THEN waited[e] + 1
                                       ELSE waited[e]]
      BY <1>4, HandshakeShape
    <3> QED BY <1>1, <3>1 DEF Types
  <2>4. Compact(Selected, offer[Selected], made[Selected]) \in Entry
    BY <1>1, <1>4, HandshakeShape, EntryFits DEF Types
  <2>5. log.mem \in [Indices -> Entry] /\ log.count \in Indices
    BY <1>1, <1>4, HandshakeShape DEF Types, LogRegs, Indices
  <2>6. log'.mem \in [Indices -> Entry]
    BY <1>4, <2>4, <2>5, EdgeShape
  <2>7. log'.count \in 0 .. LogDepth
    BY <1>4, <2>5, EdgeShape, TradeAssumption DEF Indices
  <2>8. \A e \in Engines : Len(given'[e]) \in Nat /\ Len(given[e]) <= Len(given'[e])
    <3>1. /\ Selected \in Engines
          /\ given' = [given EXCEPT ![Selected] = Append(given[Selected], offer[Selected])]
          /\ given[Selected] \in Seq(Nat)
      BY <1>4, HandshakeShape
    <3>2. \A e \in Engines : given[e] \in Seq(Nat) /\ given'[e] \in Seq(Nat)
      BY <1>1, <2>2 DEF Types
    <3>3. Len(Append(given[Selected], offer[Selected])) = Len(given[Selected]) + 1
      BY <3>1
    <3> QED BY <1>1, <3>1, <3>2, <3>3 DEF Types
  <2> QED BY <1>1, <1>2, <1>3, <2>1, <2>2, <2>3, <2>6, <2>7, <2>8, BaseKept, EdgeShape
          DEF LogRegs
<1>5. CASE ~Handshake
  <2>1. log'.mem \in [Indices -> Entry] /\ log'.count \in 0 .. LogDepth
    <3>1. log.mem \in [Indices -> Entry] /\ log.count \in 0 .. LogDepth /\ 0 \in 0 .. LogDepth
      BY <1>1, TradeAssumption DEF Types, LogRegs
    <3>2. log'.mem = log.mem /\ log'.count \in {0, log.count}
      BY <1>5, EdgeShape
    <3> QED BY <3>1, <3>2
  <2>2. \A e \in Engines : Len(given'[e]) \in Nat /\ Len(given[e]) <= Len(given'[e])
    BY <1>1, <1>5, EdgeShape DEF Types
  <2> QED BY <1>1, <1>2, <1>3, <1>5, <2>1, <2>2, BaseKept, EdgeShape DEF Types, LogRegs
<1> QED BY <1>4, <1>5

\* A trade that is handed over stays counted.
LEMMA EdgeMade ==
  ASSUME IInv, NEW cmd \in {"none", "clear", "read"}, NEW idx \in Indices, Edge(cmd, idx)
  PROVE  MadeInv'
<1>1. \A e \in Engines : made'[e] = made[e]
  BY EdgeTypes
<1>2. CASE Handshake
  <2> DEFINE s == Selected
  <2>1. /\ s \in Engines /\ offer[s] # 0 /\ given[s] \in Seq(Nat) /\ offer[s] \in Nat
        /\ made[s] = Len(given[s]) + 1
        /\ offer' = [offer EXCEPT ![s] = 0]
        /\ given' = [given EXCEPT ![s] = Append(given[s], offer[s])]
    BY <1>2, HandshakeShape
  <2>2. offer \in [Engines -> Nat] /\ given \in [Engines -> Seq(Nat)]
    BY DEF IInv, Types
  <2> HIDE DEF s
  <2>3. /\ offer'[s] = 0 /\ given'[s] = Append(given[s], offer[s])
        /\ \A e \in Engines \ {s} : offer'[e] = offer[e] /\ given'[e] = given[e]
    BY <2>1, <2>2
  <2>4. Len(given'[s]) = Len(given[s]) + 1 /\ Len(given[s]) \in Nat
    BY <2>1, <2>3
  <2>5. ASSUME NEW e \in Engines
        PROVE  made'[e] = Len(given'[e]) + (IF offer'[e] = 0 THEN 0 ELSE 1)
    <3>1. CASE e = s
      BY <1>1, <2>1, <2>3, <2>4, <3>1
    <3>2. CASE e # s
      BY <1>1, <2>3, <3>2 DEF IInv, MadeInv
    <3> QED BY <3>1, <3>2
  <2> QED BY <2>5 DEF MadeInv
<1>3. CASE ~Handshake
  BY <1>1, <1>3, EdgeShape DEF IInv, MadeInv
<1> QED BY <1>2, <1>3

\* Nobody waits longer than its distance from the pointer allows.
LEMMA EdgeTurn ==
  ASSUME IInv, NEW cmd \in {"none", "clear", "read"}, NEW idx \in Indices, Edge(cmd, idx)
  PROVE  TurnInv'
<1>1. CASE Handshake
  <2> DEFINE s == Selected
  <2>1. /\ s \in Engines /\ rr_ptr' = (s + 1) % N /\ rr_ptr \in Engines
        /\ offer' = [offer EXCEPT ![s] = 0] /\ offer \in [Engines -> Nat]
        /\ waited' = [e \in Engines |-> IF e \in Valid \ {s} THEN waited[e] + 1
                                        ELSE waited[e]]
    BY <1>1, HandshakeShape DEF IInv, Types
  <2>2. \A f \in Valid : Dist(s) <= Dist(f)
    BY <1>1, ScanFinds DEF IInv, Types, Handshake
  <2>3. SUFFICES ASSUME NEW e \in Engines, offer'[e] # 0
                 PROVE  waited'[e] + ((e - rr_ptr') % N) <= N - 1
    BY DEF TurnInv, Valid, Dist
  <2>4. e # s /\ e \in Valid
    <3> HIDE DEF s
    <3> QED BY <2>1, <2>3 DEF Valid
  <2>5. waited'[e] = waited[e] + 1 /\ waited[e] \in Nat
    BY <2>1, <2>4 DEF IInv, Types
  <2>6. waited[e] + Dist(e) <= N - 1
    BY <2>4 DEF IInv, TurnInv
  <2>7. ((e - rr_ptr') % N) < Dist(e) /\ (e - rr_ptr') % N \in Nat /\ Dist(e) \in Nat
    <3>1. (s - rr_ptr) % N <= (e - rr_ptr) % N
      BY <2>2, <2>4 DEF Dist
    <3>2. (e - ((s + 1) % N)) % N < (e - rr_ptr) % N
      BY <2>1, <2>4, <3>1, Closer
    <3>3. (s + 1) % N \in Engines
      BY <2>1, Successor
    <3>4. (e - rr_ptr') % N \in 0 .. N - 1 /\ (e - rr_ptr) % N \in 0 .. N - 1
      BY <2>1, <3>3, Ahead
    <3> QED BY <2>1, <3>2, <3>4 DEF Dist
  <2> QED BY <2>5, <2>6, <2>7, TradeAssumption
<1>2. CASE ~Handshake
  BY <1>2, EdgeShape DEF IInv, TurnInv, Valid, Dist
<1> QED BY <1>1, <1>2

\* The log is complete as long as neither it nor what was handed over changes.
LEMMA LogStill ==
  ASSUME LogComplete, log'.mem = log.mem, log'.count = log.count, given' = given, base' = base
  PROVE  LogComplete'
<1>1. ASSUME NEW i \in 0 .. log'.count - 1
      PROVE  \E e \in Engines : \E n \in Logged(e)' : Holds(log.mem[i], e, n)'
  <2>1. PICK e \in Engines : \E n \in Logged(e) : Holds(log.mem[i], e, n)
    BY Zenon DEF LogComplete
  <2>2. PICK n \in Logged(e) : Holds(log.mem[i], e, n)
    BY <2>1, Zenon
  <2>3. n \in Logged(e)' /\ Holds(log.mem[i], e, n)'
    BY <2>2 DEF Logged, Holds
  <2> QED BY <2>3, Zenon
<1>2. ASSUME NEW e \in Engines, NEW n \in Logged(e)'
      PROVE  \E i \in 0 .. log'.count - 1 : Holds(log.mem[i], e, n)'
  <2>1. n \in Logged(e)
    BY DEF Logged
  <2>2. PICK i \in 0 .. log.count - 1 : Holds(log.mem[i], e, n)
    BY <2>1, Zenon DEF LogComplete
  <2>3. Holds(log.mem[i], e, n)'
    BY <2>2 DEF Holds
  <2> QED BY <2>3, Zenon
<1>3. \A i, j \in 0 .. log'.count - 1 :
        i < j /\ log'.mem[i].engine_id = log'.mem[j].engine_id => log'.mem[i].ts < log'.mem[j].ts
  BY Zenon DEF LogComplete
<1> QED BY ONLY <1>1, <1>2, <1>3, Zenon DEF LogComplete

\* The modulus leaves a smaller number alone.
LEMMA SmallMod ==
  ASSUME NEW a \in Nat, NEW n \in Nat \ {0}, a < n
  PROVE  a % n = a
OBVIOUS

\* A trade handed over goes to the end of the log, behind the earlier ones of
\* its engine.
LEMMA EdgeLog ==
  ASSUME IInv, NEW cmd \in {"none", "clear", "read"}, NEW idx \in Indices, Edge(cmd, idx)
  PROVE  LogComplete'
<1>1. CASE Handshake /\ ~avl.clear
  <2> DEFINE s == Selected
             c == log.count
             n == Len(given[s]) + 1
             LoggedN(e) == base'[e] + 1 .. Len(given'[e])
             HoldsN(w, e, k) == /\ w.engine_id = e /\ w.ts = k
                                /\ given'[e][k] < AmtSpan => w.amount = given'[e][k]
  <2>1. /\ s \in Engines /\ given[s] \in Seq(Nat) /\ offer[s] \in Nat /\ made[s] = n
        /\ c \in 0 .. LogDepth - 1
        /\ given' = [given EXCEPT ![s] = Append(given[s], offer[s])]
    BY <1>1, HandshakeShape
  <2>2. /\ log'.count = c + 1 /\ base' = base
        /\ log'.mem = [log.mem EXCEPT ![c] = Compact(s, offer[s], n)]
    BY <1>1, <2>1, EdgeShape
  <2>3. log.mem \in [Indices -> Entry] /\ given \in [Engines -> Seq(Nat)]
    BY DEF IInv, Types, LogRegs
  <2>4. /\ log'.mem[c] = Compact(s, offer[s], n)
        /\ \A i \in 0 .. c - 1 : log'.mem[i] = log.mem[i]
    <3>1. c \in Indices /\ \A i \in 0 .. c - 1 : i \in Indices /\ i # c
      BY <2>1, TradeAssumption DEF Indices
    <3> HIDE DEF c, s, n
    <3> QED BY <2>2, <2>3, <3>1
  <2>5. /\ given'[s] = Append(given[s], offer[s])
        /\ \A e \in Engines \ {s} : given'[e] = given[e]
    <3> HIDE DEF s
    <3> QED BY <2>1, <2>3
  <2>6. /\ Len(given'[s]) = n /\ given'[s][n] = offer[s] /\ n \in Nat \ {0}
        /\ \A k \in 1 .. n - 1 : given'[s][k] = given[s][k]
    BY <2>1, <2>5
  <2>7. LogComplete /\ \A e \in Engines : Len(given[e]) \in Nat /\ base[e] \in Nat
                                          /\ base[e] <= Len(given[e])
    BY <2>3 DEF IInv, Types, BaseInv
  <2> HIDE DEF s, c, n
  <2>8. c \in Nat /\ log'.count - 1 = c /\ \A i \in 0 .. c : i = c \/ i \in 0 .. c - 1
    BY <2>1, <2>2, TradeAssumption
  <2>9. \A i \in 0 .. c - 1 : \E e \in Engines : \E k \in Logged(e) : Holds(log.mem[i], e, k)
    BY <2>7 DEF LogComplete, c
  <2>10. \A e \in Engines : \A k \in Logged(e) : \E i \in 0 .. c - 1 : Holds(log.mem[i], e, k)
    BY <2>7 DEF LogComplete, c
  <2>11. \A i, j \in 0 .. c - 1 :
           i < j /\ log.mem[i].engine_id = log.mem[j].engine_id => log.mem[i].ts < log.mem[j].ts
    BY <2>7 DEF LogComplete, c
  <2>12. Len(given[s]) = n - 1 /\ Len(given[s]) \in Nat
    BY <2>1, <2>7 DEF n
  <2>13. \A e \in Engines : \A k \in Logged(e) :
           /\ k \in LoggedN(e) /\ given'[e][k] = given[e][k]
           /\ \A w : Holds(w, e, k) => HoldsN(w, e, k)
    <3>1. ASSUME NEW e \in Engines, NEW k \in Logged(e)
          PROVE  k \in LoggedN(e) /\ given'[e][k] = given[e][k]
      <4>1. k \in base[e] + 1 .. Len(given[e]) /\ base[e] \in Nat /\ Len(given[e]) \in Nat
        BY <2>7, <3>1 DEF Logged
      <4>2. k \in 1 .. Len(given[e])
        BY <4>1
      <4>3. Len(given[e]) <= Len(given'[e]) /\ Len(given'[e]) \in Nat
            /\ given'[e][k] = given[e][k]
        BY <2>5, <2>6, <2>7, <2>12, <4>2
      <4> QED BY <2>2, <4>1, <4>3 DEF Logged
    <3>2. ASSUME NEW e \in Engines, NEW k \in Logged(e), NEW w, Holds(w, e, k)
          PROVE  HoldsN(w, e, k)
      BY <3>1, <3>2 DEF Holds
    <3> QED BY <3>1, <3>2 DEF Holds
  <2>14. n \in LoggedN(s) /\ HoldsN(log'.mem[c], s, n)
    <3>1. n \in base[s] + 1 .. n
      <4>1. base[s] \in Nat /\ base[s] <= Len(given[s])
        BY <2>1, <2>7
      <4> QED BY ONLY <2>12, <4>1, <2>6
    <3>2. log'.mem[c].engine_id = s /\ log'.mem[c].ts = n /\ log'.mem[c].amount = offer[s] % AmtSpan
      BY <2>4 DEF Compact
    <3>3. offer[s] < AmtSpan => offer[s] % AmtSpan = offer[s]
      <4>1. offer[s] \in Nat /\ AmtSpan \in Nat \ {0}
        BY <2>1, TradeAssumption
      <4> QED BY ONLY <4>1, SmallMod
    <3> QED BY <2>2, <2>6, <3>1, <3>2, <3>3 DEF Logged, Holds
  <2>15. ASSUME NEW i \in 0 .. c
         PROVE  \E e \in Engines : \E k \in LoggedN(e) : HoldsN(log'.mem[i], e, k)
    <3>1. CASE i = c
      BY <2>1, <2>14, <3>1
    <3>2. CASE i \in 0 .. c - 1
      <4>1. PICK e \in Engines : \E k \in Logged(e) : Holds(log.mem[i], e, k)
        BY <2>9, <3>2
      <4>2. PICK k \in Logged(e) : Holds(log.mem[i], e, k)
        BY <4>1
      <4>3. k \in LoggedN(e) /\ HoldsN(log.mem[i], e, k)
        BY <2>13, <4>2
      <4> QED BY <2>4, <3>2, <4>3
    <3> QED BY <2>8, <3>1, <3>2
  <2>16. ASSUME NEW e \in Engines, NEW k \in LoggedN(e)
         PROVE  \E i \in 0 .. c : HoldsN(log'.mem[i], e, k)
    <3>1. CASE e = s /\ k = n
      <4>1. c \in 0 .. c
        BY <2>8
      <4> QED BY <2>14, <3>1, <4>1
    <3>2. CASE ~(e = s /\ k = n)
      <4>1. k \in Logged(e)
        BY <2>2, <2>5, <2>6, <2>7, <2>12, <3>2 DEF Logged
      <4>2. PICK i \in 0 .. c - 1 : Holds(log.mem[i], e, k)
        BY <2>10, <4>1
      <4>3. i \in 0 .. c /\ HoldsN(log.mem[i], e, k)
        BY <2>8, <2>13, <4>1, <4>2
      <4> QED BY <2>4, <4>2, <4>3
    <3> QED BY <3>1, <3>2
  <2>17. ASSUME NEW i \in 0 .. c, NEW j \in 0 .. c, i < j,
                log'.mem[i].engine_id = log'.mem[j].engine_id
         PROVE  log'.mem[i].ts < log'.mem[j].ts
    <3>1. i \in 0 .. c - 1
      BY <2>8, <2>17
    <3>2. CASE j = c
      <4>1. log'.mem[j].engine_id = s /\ log'.mem[j].ts = n
        BY <2>4, <3>2 DEF Compact
      <4>2. PICK e \in Engines : \E k \in Logged(e) : Holds(log.mem[i], e, k)
        BY <2>9, <3>1
      <4>3. PICK k \in Logged(e) : Holds(log.mem[i], e, k)
        BY <4>2
      <4>4. log'.mem[i].engine_id = e /\ log'.mem[i].ts = k
        BY <2>4, <3>1, <4>3 DEF Holds
      <4>5. e = s
        BY <2>17, <4>1, <4>4
      <4>6. k < n
        BY <2>6, <2>7, <2>12, <4>3, <4>5 DEF Logged
      <4> QED BY <4>1, <4>4, <4>6
    <3>3. CASE j \in 0 .. c - 1
      BY <2>4, <2>11, <2>17, <3>1, <3>3
    <3> QED BY <2>8, <3>2, <3>3
  <2>18. /\ \A i \in 0 .. log'.count - 1 : \E e \in Engines : \E k \in LoggedN(e) :
              HoldsN(log'.mem[i], e, k)
         /\ \A e \in Engines : \A k \in LoggedN(e) : \E i \in 0 .. log'.count - 1 :
              HoldsN(log'.mem[i], e, k)
         /\ \A i, j \in 0 .. log'.count - 1 :
              i < j /\ log'.mem[i].engine_id = log'.mem[j].engine_id
                => log'.mem[i].ts < log'.mem[j].ts
    <3> HIDE DEF LoggedN, HoldsN
    <3> QED BY <2>8, <2>15, <2>16, <2>17
  <2> QED BY <2>18, Zenon DEF LogComplete, Holds, Logged
<1>2. CASE ~Handshake /\ ~avl.clear
  <2>1. log'.mem = log.mem /\ log'.count = log.count /\ given' = given /\ base' = base
    BY <1>2, EdgeShape
  <2>2. LogComplete
    BY DEF IInv
  <2> QED BY ONLY <2>1, <2>2, LogStill
<1>3. CASE avl.clear
  <2>1. log'.count = 0 /\ base' = [e \in Engines |-> Len(given'[e])]
    BY <1>3, EdgeShape
  <2>2. given' \in [Engines -> Seq(Nat)]
    BY EdgeTypes
  <2>3. \A e \in Engines : Logged(e)' = {}
    BY <2>1, <2>2 DEF Logged
  <2> QED BY <2>1, <2>3 DEF LogComplete
<1> QED BY <1>1, <1>2, <1>3

\* An edge keeps the invariant if the processes' side does.
LEMMA EdgeKeeps ==
  ASSUME IInv, NEW cmd \in {"none", "clear", "read"}, NEW idx \in Indices, Edge(cmd, idx),
         lock' \in Procs \cup {NoProc}, ppc' \in [Procs -> Places],
         index' \in [Procs -> Indices], polls' \in [Procs -> Int], got' \in [Procs -> Entry],
         MutexInv', cmd = "clear" => \A p \in Procs : ppc'[p] \in Early
  PROVE  IInv'
<1>1. Types'
  BY EdgeTypes DEF IInv, Types
<1>2. ClearInv'
  <2>1. avl'.clear <=> cmd = "clear"
    BY DEF Edge, AvlNext
  <2> QED BY <2>1 DEF ClearInv
<1>3. BaseInv'
  BY EdgeTypes
<1> QED BY <1>1, <1>2, <1>3, EdgeMade, EdgeTurn, EdgeLog DEF IInv

\* An entry that is in the log stays there while somebody reads, whatever is
\* appended.
LEMMA EntryStays ==
  ASSUME IInv, NEW cmd, NEW idx, Edge(cmd, idx), NEW i \in Indices, i < log.count,
         NEW p \in Procs, ppc[p] \notin Early
  PROVE  i < log'.count /\ log'.mem[i] = log.mem[i]
<1>1. log.count \in Nat /\ i \in Nat /\ log.mem \in [Indices -> Entry]
  BY TradeAssumption DEF IInv, Types, LogRegs, Indices
<1>2. ~avl.clear
  BY DEF IInv, ClearInv
<1>3. CASE Handshake
  <2>1. /\ log'.count = log.count + 1
        /\ log'.mem = [log.mem EXCEPT ![log.count] =
                         Compact(Selected, offer[Selected], made[Selected])]
    BY <1>3, <1>2, EdgeShape
  <2> QED BY <1>1, <2>1
<1>4. CASE ~Handshake
  BY <1>4, <1>2, EdgeShape
<1> QED BY <1>3, <1>4

\* The read pipeline at an edge without a command.
LEMMA QuietRegs ==
  ASSUME Edge("none", 0)
  PROVE  /\ ~avl'.clear /\ ~avl'.read /\ avl'.index = avl.index
         /\ avl'.pipe = IF avl.pipe = 1 THEN 2 ELSE 0
         /\ avl'.shadow = IF avl.pipe = 2 THEN log.sw_rdata ELSE avl.shadow
         /\ avl'.data_valid <=> avl.pipe = 2 \/ avl.data_valid
         /\ log'.sw_rdata = IF avl.read THEN log.mem[avl.index] ELSE log.sw_rdata
BY DEF Edge, AvlNext, LogNext, Delivered

-----------------------------------------------------------------------------
(* The processes.                                                           *)

\* Only the holder of the mutex moves, and it stays in or gives it back.
LEMMA MutexKept ==
  ASSUME IInv, NEW p \in Procs, ppc[p] # "out", NEW s \in Places, Go(p, s),
         \/ s # "out" /\ lock' = lock
         \/ s = "out" /\ lock' = NoProc
  PROVE  /\ MutexInv' /\ ppc' \in [Procs -> Places] /\ lock' \in Procs \cup {NoProc}
         /\ ppc'[p] = s /\ \A q \in Procs \ {p} : ppc[q] = "out" /\ ppc'[q] = "out"
<1>1. lock = p /\ \A q \in Procs \ {p} : ppc[q] = "out"
  BY DEF IInv, MutexInv
<1>2. /\ ppc' \in [Procs -> Places] /\ ppc'[p] = s
      /\ \A q \in Procs \ {p} : ppc'[q] = ppc[q]
  BY DEF Go, IInv, Types
<1>3. \A q \in Procs : q # NoProc
  BY TradeAssumption
<1>4. \A q \in Procs : ppc'[q] # "out" <=> lock' = q
  BY <1>1, <1>2, <1>3
<1> QED BY <1>1, <1>2, <1>4 DEF MutexInv

\* A process that is outside has no claim.
LEMMA OutsideEntry == \A p \in Procs : ppc[p] \in {"out", "clear", "check", "info"} => EntryInv(p)
BY DEF EntryInv

\* A step of p leaves the others outside.
LEMMA OthersOutside ==
  ASSUME NEW p \in Procs, \A q \in Procs \ {p} : ppc'[q] = "out",
         state = "DONE" => EntryInv(p)', state' = state
  PROVE  ReadInv'
<1>1. \A q \in Procs : ppc'[q] = "out" => EntryInv(q)'
  BY DEF EntryInv
<1> QED BY <1>1 DEF ReadInv

\* The clock alone brings the entry nearer, and uses no poll.
LEMMA TickEntry ==
  ASSUME IInv, NEW p \in Procs, EntryInv(p), Edge("none", 0), UNCHANGED procVars
  PROVE  EntryInv(p)'
<1>1. ppc'[p] = ppc[p] /\ index'[p] = index[p] /\ polls'[p] = polls[p] /\ got'[p] = got[p]
  BY DEF procVars
<1>2. index[p] \in Indices /\ polls[p] \in Int /\ avl.pipe \in 0 .. 2
  BY DEF IInv, Types, AvlRegs
<1>3. ppc[p] \notin Early /\ index[p] < log.count =>
        index[p] < log'.count /\ log'.mem[index[p]] = log.mem[index[p]]
  BY <1>2, EntryStays
<1> USE DEF Early
<1> QED BY <1>1, <1>2, <1>3, QuietRegs DEF EntryInv

\* The initial state.
LEMMA InitInv == Init => IReadInv
<1> SUFFICES ASSUME Init PROVE IReadInv
  OBVIOUS
<1> USE TradeAssumption DEF Init
<1>1. 0 \in Indices /\ ZeroEntry \in Entry /\ 0 \in Engines /\ "out" \in Places
  BY DEF Indices, ZeroEntry, Entry, Engines, Places
<1>2. Types
  <2>1. log \in LogRegs /\ avl \in AvlRegs
    BY <1>1 DEF LogRegs, AvlRegs, Indices
  <2> QED BY <1>1, <2>1 DEF Types
<1>3. MutexInv /\ ClearInv /\ BaseInv /\ MadeInv /\ TurnInv /\ ReadInv
  BY DEF MutexInv, ClearInv, BaseInv, MadeInv, TurnInv, ReadInv, Valid
<1>4. LogComplete
  BY DEF LogComplete, Logged
<1> QED BY <1>2, <1>3, <1>4 DEF IReadInv, IInv

\* A step of a process that touches no register.
LEMMA HardwareStill ==
  ASSUME IInv, UNCHANGED <<engVars, hwVars, ghosts>>,
         lock' \in Procs \cup {NoProc}, ppc' \in [Procs -> Places],
         index' \in [Procs -> Indices], polls' \in [Procs -> Int], got' \in [Procs -> Entry],
         MutexInv',
         \A p \in Procs : ppc'[p] \in Early \/ ppc'[p] = ppc[p]
  PROVE  IInv'
<1>1. /\ state' = state /\ working' = working /\ offer' = offer /\ made' = made
      /\ rr_ptr' = rr_ptr /\ log' = log /\ avl' = avl /\ given' = given /\ waited' = waited
      /\ base' = base
  BY DEF engVars, hwVars, ghosts
<1>2. Types'
  BY <1>1 DEF IInv, Types
<1>3. ClearInv' /\ BaseInv'
  BY <1>1 DEF IInv, ClearInv, BaseInv
<1>4. MadeInv' /\ TurnInv'
  BY <1>1 DEF IInv, MadeInv, TurnInv, Valid, Dist
<1>5. LogComplete'
  <2>1. LogComplete
    BY DEF IInv
  <2>2. log'.mem = log.mem /\ log'.count = log.count /\ given' = given /\ base' = base
    BY <1>1
  <2> QED BY ONLY <2>1, <2>2, LogStill
<1> QED BY <1>2, <1>3, <1>4, <1>5 DEF IInv

\* Steps of one process inside its ioctl.
LEMMA InsideStep ==
  ASSUME IInv, NEW p \in Procs, Inside(p)
  PROVE  IInv' /\ (PollsAllowed /\ ReadInv => ReadInv')
<1> USE DEF At
<1>0. /\ Types /\ 0 \in Indices /\ index[p] \in Indices
      /\ got \in [Procs -> Entry] /\ polls \in [Procs -> Int] /\ polls[p] \in Int
      /\ {"out", "info", "cmd", "poll", "timedout", "data0", "data1", "return"} \subseteq Places
  BY TradeAssumption DEF IInv, Types, Indices, Places
<1>1. CASE Clear(p)
  <2>1. ppc[p] = "clear" /\ Edge("clear", 0) /\ UNCHANGED <<index, polls, got>>
    BY <1>1 DEF Clear
  <2>2. state' = state
    BY <2>1 DEF Edge
  <2>3. /\ MutexInv' /\ ppc' \in [Procs -> Places] /\ lock' \in Procs \cup {NoProc}
        /\ ppc'[p] = "out" /\ \A q \in Procs \ {p} : ppc'[q] = "out"
    BY <1>0, <1>1, <2>1, MutexKept DEF Clear
  <2>4. IInv'
    BY <1>0, <2>1, <2>2, <2>3, EdgeKeeps DEF Types, Early
  <2>5. EntryInv(p)'
    BY <2>3 DEF EntryInv
  <2> QED BY <2>2, <2>3, <2>4, <2>5, OthersOutside
<1>2. CASE Check(p)
  <2>0. index' \in [Procs -> Indices]
    BY <1>0, <1>2 DEF Check, Fail, Types
  <2>1. ppc[p] = "check" /\ Edge("none", 0) /\ UNCHANGED <<polls, got>>
    BY <1>2 DEF Check
  <2>2. /\ MutexInv' /\ ppc' \in [Procs -> Places] /\ lock' \in Procs \cup {NoProc}
        /\ ppc'[p] \in {"out", "info"} /\ \A q \in Procs \ {p} : ppc'[q] = "out"
    BY <1>0, <1>2, <2>1, MutexKept DEF Check, Fail
  <2>3. IInv'
    BY <1>0, <2>0, <2>1, <2>2, EdgeKeeps DEF Types
  <2>4. EntryInv(p)' /\ state' = state
    BY <2>1, <2>2 DEF EntryInv, Edge
  <2> QED BY <2>2, <2>3, <2>4, OthersOutside
<1>3. CASE Info(p)
  <2>0. index' \in [Procs -> Indices]
    BY <1>0, <1>3 DEF Info, Fail, Types
  <2>1. ppc[p] = "info" /\ Edge("none", 0) /\ UNCHANGED <<polls, got>>
    BY <1>3 DEF Info
  <2>2. /\ MutexInv' /\ ppc' \in [Procs -> Places] /\ lock' \in Procs \cup {NoProc}
        /\ \/ ppc'[p] = "out"
           \/ ppc'[p] = "cmd" /\ index[p] < log.count /\ index' = index
        /\ \A q \in Procs \ {p} : ppc'[q] = "out"
    BY <1>0, <1>3, <2>1, MutexKept DEF Info, Fail
  <2>3. IInv'
    BY <1>0, <2>0, <2>1, <2>2, EdgeKeeps DEF Types
  <2>4. ppc'[p] = "cmd" => index'[p] < log'.count
    BY <1>0, <2>1, <2>2, EntryStays DEF Early
  <2>5. EntryInv(p)' /\ state' = state
    BY <2>1, <2>2, <2>4 DEF EntryInv, Edge
  <2> QED BY <2>2, <2>3, <2>5, OthersOutside
<1>4. CASE Cmd(p)
  <2>1. /\ ppc[p] = "cmd" /\ Edge("read", index[p]) /\ UNCHANGED <<lock, index, got>>
        /\ polls' = [polls EXCEPT ![p] = PollLimit] /\ Go(p, "poll")
    BY <1>4 DEF Cmd
  <2>2. /\ MutexInv' /\ ppc' \in [Procs -> Places] /\ lock' \in Procs \cup {NoProc}
        /\ ppc'[p] = "poll" /\ \A q \in Procs \ {p} : ppc'[q] = "out"
    BY <1>0, <2>1, MutexKept
  <2>3. polls' \in [Procs -> Int] /\ polls'[p] = PollLimit
    BY <1>0, <2>1, TradeAssumption
  <2>4. IInv'
    BY <1>0, <2>1, <2>2, <2>3, EdgeKeeps DEF Types
  <2>5. /\ avl'.pipe = 1 /\ avl'.read /\ avl'.index = index[p] /\ ~avl'.data_valid
        /\ state' = state
    BY <2>1 DEF Edge, AvlNext
  <2>6. index[p] < log.count => index'[p] < log'.count
    BY <1>0, <2>1, EntryStays DEF Early
  <2>7. PollsAllowed /\ EntryInv(p) => EntryInv(p)'
    BY <2>1, <2>2, <2>3, <2>5, <2>6 DEF EntryInv, PollsAllowed
  <2> QED BY <2>2, <2>4, <2>5, <2>7, OthersOutside DEF ReadInv
<1>5. CASE Poll(p)
  <2>1. /\ ppc[p] = "poll" /\ Edge("none", 0) /\ UNCHANGED <<lock, index, got>>
        /\ polls' = [polls EXCEPT ![p] = IF avl.data_valid THEN 0 ELSE polls[p] - 1]
    BY <1>5 DEF Poll
  <2>2. /\ MutexInv' /\ ppc' \in [Procs -> Places] /\ lock' \in Procs \cup {NoProc}
        /\ ppc'[p] = (IF avl.data_valid THEN "data0"
                      ELSE IF polls[p] = 1 THEN "timedout" ELSE "poll")
        /\ \A q \in Procs \ {p} : ppc'[q] = "out"
    BY <1>0, <1>5, <2>1, MutexKept DEF Poll
  <2>3. /\ polls' \in [Procs -> Int]
        /\ polls'[p] = IF avl.data_valid THEN 0 ELSE polls[p] - 1
    BY <1>0, <2>1
  <2>4. IInv'
    BY <1>0, <2>1, <2>2, <2>3, EdgeKeeps DEF Types
  <2>5. index[p] < log.count => index[p] < log'.count /\ log'.mem[index[p]] = log.mem[index[p]]
    BY <1>0, <2>1, EntryStays DEF Early
  <2>6. EntryInv(p) => EntryInv(p)'
    BY <1>0, <2>1, <2>2, <2>3, <2>5, QuietRegs DEF EntryInv
  <2>7. state' = state
    BY <2>1 DEF Edge
  <2> QED BY <2>2, <2>4, <2>6, <2>7, OthersOutside DEF ReadInv
<1>6. CASE TimedOut(p)
  <2>1. /\ ppc[p] = "timedout" /\ Fail(p)
        /\ UNCHANGED <<engVars, hwVars, polls, got, resets, ghosts>>
    BY <1>6 DEF TimedOut
  <2>2. /\ MutexInv' /\ ppc' \in [Procs -> Places] /\ lock' \in Procs \cup {NoProc}
        /\ ppc'[p] = "out" /\ \A q \in Procs \ {p} : ppc'[q] = "out"
    BY <1>0, <2>1, MutexKept DEF Fail
  <2>0. index' \in [Procs -> Indices]
    BY <1>0, <2>1 DEF Fail, Types
  <2>3. IInv'
    BY <1>0, <2>0, <2>1, <2>2, HardwareStill DEF Types, Early
  <2>4. EntryInv(p)' /\ state' = state
    BY <2>1, <2>2 DEF EntryInv, engVars
  <2> QED BY <2>2, <2>3, <2>4, OthersOutside
<1>7. CASE Data0(p)
  <2>1. /\ ppc[p] = "data0" /\ Edge("none", 0) /\ Go(p, "data1")
        /\ got' = [got EXCEPT ![p].ts = avl.shadow.ts] /\ UNCHANGED <<lock, index, polls>>
    BY <1>7 DEF Data0
  <2>2. /\ MutexInv' /\ ppc' \in [Procs -> Places] /\ lock' \in Procs \cup {NoProc}
        /\ ppc'[p] = "data1" /\ \A q \in Procs \ {p} : ppc'[q] = "out"
    BY <1>0, <2>1, MutexKept
  <2>3. got' \in [Procs -> Entry] /\ got'[p].ts = avl.shadow.ts
    BY <1>0, <2>1 DEF Types, AvlRegs, Entry
  <2>4. IInv'
    BY <1>0, <2>1, <2>2, <2>3, EdgeKeeps DEF Types
  <2>5. index[p] < log.count => index[p] < log'.count /\ log'.mem[index[p]] = log.mem[index[p]]
    BY <1>0, <2>1, EntryStays DEF Early
  <2>6. EntryInv(p) => EntryInv(p)'
    BY <1>0, <2>1, <2>2, <2>3, <2>5, QuietRegs DEF EntryInv
  <2>7. state' = state
    BY <2>1 DEF Edge
  <2> QED BY <2>2, <2>4, <2>6, <2>7, OthersOutside DEF ReadInv
<1>8. CASE Data1(p)
  <2>1. /\ ppc[p] = "data1" /\ Edge("none", 0) /\ Go(p, "return")
        /\ got' = [got EXCEPT ![p].engine_id = avl.shadow.engine_id,
                              ![p].amount = avl.shadow.amount]
        /\ UNCHANGED <<lock, index, polls>>
    BY <1>8 DEF Data1
  <2>2. /\ MutexInv' /\ ppc' \in [Procs -> Places] /\ lock' \in Procs \cup {NoProc}
        /\ ppc'[p] = "return" /\ \A q \in Procs \ {p} : ppc'[q] = "out"
    BY <1>0, <2>1, MutexKept
  <2>3. /\ got' \in [Procs -> Entry]
        /\ got'[p] = [engine_id |-> avl.shadow.engine_id, amount |-> avl.shadow.amount,
                      ts |-> got[p].ts]
    BY <1>0, <2>1 DEF Types, AvlRegs, Entry
  <2>4. IInv'
    BY <1>0, <2>1, <2>2, <2>3, EdgeKeeps DEF Types
  <2>5. index[p] < log.count => index[p] < log'.count /\ log'.mem[index[p]] = log.mem[index[p]]
    BY <1>0, <2>1, EntryStays DEF Early
  <2>6. EntryInv(p) => EntryInv(p)'
    <3> SUFFICES ASSUME EntryInv(p) PROVE EntryInv(p)'
      OBVIOUS
    <3>1. /\ index[p] < log'.count /\ log'.mem[index[p]] = log.mem[index[p]]
          /\ avl.shadow = log.mem[index[p]] /\ got[p].ts = log.mem[index[p]].ts
      BY <2>1, <2>5 DEF EntryInv
    <3>2. avl.shadow = [engine_id |-> avl.shadow.engine_id, amount |-> avl.shadow.amount,
                        ts |-> avl.shadow.ts]
      BY <1>0 DEF Types, AvlRegs, Entry
    <3>3. got'[p] = log'.mem[index'[p]]
      BY <2>1, <2>3, <3>1, <3>2
    <3> QED BY <2>1, <2>2, <3>1, <3>3 DEF EntryInv
  <2>7. state' = state
    BY <2>1 DEF Edge
  <2> QED BY <2>2, <2>4, <2>6, <2>7, OthersOutside DEF ReadInv
<1>9. CASE Return(p)
  <2>1. /\ ppc[p] = "return" /\ Go(p, "out") /\ lock' = NoProc
        /\ got' = [got EXCEPT ![p] = ZeroEntry] /\ index' = [index EXCEPT ![p] = 0]
        /\ UNCHANGED <<engVars, hwVars, polls, resets, ghosts>>
    BY <1>9 DEF Return
  <2>2. /\ MutexInv' /\ ppc' \in [Procs -> Places] /\ lock' \in Procs \cup {NoProc}
        /\ ppc'[p] = "out" /\ \A q \in Procs \ {p} : ppc'[q] = "out"
    BY <1>0, <2>1, MutexKept
  <2>3. got' \in [Procs -> Entry] /\ index' \in [Procs -> Indices]
    BY <1>0, <2>1 DEF ZeroEntry, Entry, Types
  <2>4. IInv'
    BY <1>0, <2>1, <2>2, <2>3, HardwareStill DEF Types, Early
  <2>5. EntryInv(p)' /\ state' = state
    BY <2>1, <2>2 DEF EntryInv, engVars
  <2> QED BY <2>2, <2>4, <2>5, OthersOutside
<1> QED BY <1>1, <1>2, <1>3, <1>4, <1>5, <1>6, <1>7, <1>8, <1>9 DEF Inside

\* A process enters an ioctl when nobody is inside one.
LEMMA CallStep ==
  ASSUME IInv, NEW p \in Procs, CallRead(p) \/ CallClear(p)
  PROVE  IInv' /\ (ReadInv => ReadInv')
<1> USE DEF At
<1>1. /\ ppc[p] = "out" /\ lock = NoProc /\ lock' = p
      /\ UNCHANGED <<engVars, hwVars, polls, got, ghosts>>
      /\ \/ /\ Go(p, "check")
            /\ \E i \in Indices : index' = [index EXCEPT ![p] = i]
         \/ Go(p, "clear") /\ index' = index
  BY DEF CallRead, CallClear, Enter, Indices
<1>2. /\ ppc \in [Procs -> Places] /\ index \in [Procs -> Indices] /\ {"check", "clear"} \subseteq Places
      /\ polls \in [Procs -> Int] /\ got \in [Procs -> Entry]
  BY DEF IInv, Types, Places
<1>3. index' \in [Procs -> Indices]
  BY <1>1, <1>2
<1>4. /\ ppc' \in [Procs -> Places] /\ \A q \in Procs \ {p} : ppc'[q] = ppc[q]
      /\ ppc'[p] \in {"check", "clear"}
  BY <1>1, <1>2 DEF Go
<1>5. \A q \in Procs : ppc[q] = "out"
  BY <1>1, TradeAssumption DEF IInv, MutexInv
<1>6. MutexInv'
  BY <1>1, <1>4, <1>5 DEF MutexInv
<1>7. IInv'
  BY <1>1, <1>2, <1>3, <1>4, <1>5, <1>6, HardwareStill DEF Early
<1>8. EntryInv(p)' /\ state' = state
  BY <1>1, <1>4 DEF EntryInv, engVars
<1> QED BY <1>4, <1>5, <1>7, <1>8, OthersOutside

\* The clock ticks.
LEMMA TickStep == IInv /\ Tick => IInv' /\ (ReadInv => ReadInv')
<1> SUFFICES ASSUME IInv, Tick PROVE IInv' /\ (ReadInv => ReadInv')
  OBVIOUS
<1>1. Edge("none", 0) /\ UNCHANGED procVars /\ 0 \in Indices
  BY TradeAssumption DEF Tick, Indices
<1>2. MutexInv'
  BY <1>1 DEF IInv, MutexInv, procVars
<1>3. IInv'
  BY <1>1, <1>2, EdgeKeeps DEF IInv, Types, procVars
<1>4. ASSUME ReadInv PROVE ReadInv'
  <2>1. state' = state
    BY <1>1 DEF Edge
  <2> QED BY <1>1, <1>4, <2>1, TickEntry DEF ReadInv
<1> QED BY <1>3, <1>4

\* KEY0, whatever the processes are doing.
LEMMA ResetStep == IInv /\ Reset => IReadInv'
<1> SUFFICES ASSUME IInv, Reset PROVE IReadInv'
  OBVIOUS
<1>1. /\ state' = "IDLE" /\ working' = {} /\ offer' = [e \in Engines |-> 0]
      /\ made' = [e \in Engines |-> 0] /\ rr_ptr' = 0
      /\ log' = [log EXCEPT !.count = 0, !.overflow = FALSE, !.sw_rdata = ZeroEntry]
      /\ avl' = [clear |-> FALSE, read |-> FALSE, index |-> 0, pipe |-> 0,
                 shadow |-> ZeroEntry, data_valid |-> FALSE]
      /\ given' = [e \in Engines |-> <<>>] /\ waited' = [e \in Engines |-> 0]
      /\ base' = [e \in Engines |-> 0]
      /\ lock' = lock /\ ppc' = ppc /\ index' = index /\ polls' = polls /\ got' = got
  BY DEF Reset, procVars
<1>2. 0 \in Indices /\ ZeroEntry \in Entry /\ 0 \in Engines
  BY TradeAssumption DEF Indices, ZeroEntry, Entry, Engines
<1>3. log' \in LogRegs /\ log'.count = 0
  <2>1. log \in LogRegs /\ 0 \in 0 .. LogDepth
    BY TradeAssumption DEF IInv, Types
  <2> QED BY <1>1, <1>2, <2>1 DEF LogRegs
<1>4. avl' \in AvlRegs /\ ~avl'.clear
  BY <1>1, <1>2 DEF AvlRegs
<1>5. Types'
  BY <1>1, <1>2, <1>3, <1>4 DEF IInv, Types
<1>6. MutexInv' /\ ClearInv' /\ BaseInv' /\ MadeInv' /\ TurnInv' /\ ReadInv'
  <2>1. MutexInv'
    BY <1>1 DEF IInv, MutexInv
  <2>2. ClearInv' /\ BaseInv'
    BY <1>1, <1>4 DEF ClearInv, BaseInv
  <2>3. MadeInv' /\ TurnInv' /\ ReadInv'
    BY <1>1 DEF MadeInv, TurnInv, ReadInv, Valid
  <2> QED BY <2>1, <2>2, <2>3
<1>7. LogComplete'
  <2>1. log'.count = 0 /\ \A e \in Engines : Logged(e)' = {}
    BY <1>1, <1>3 DEF Logged
  <2> QED BY <2>1 DEF LogComplete
<1> QED BY <1>5, <1>6, <1>7 DEF IReadInv, IInv

\* The phases and the engines.
LEMMA EngineStep ==
  ASSUME IInv, Begin \/ Dispatched \/ \E e \in Engines : Engine(e)
  PROVE  IInv' /\ (ReadInv => ReadInv')
<1>1. ASSUME hwVars' = hwVars, procVars' = procVars, given' = given, base' = base
      PROVE  /\ LogComplete' /\ MutexInv' /\ ClearInv' /\ BaseInv'
             /\ \A p \in Procs : EntryInv(p) => EntryInv(p)'
             /\ rr_ptr' = rr_ptr /\ log' = log /\ avl' = avl /\ ppc' = ppc
             /\ lock' = lock /\ index' = index /\ polls' = polls /\ got' = got
  <2>1. /\ rr_ptr' = rr_ptr /\ log' = log /\ avl' = avl /\ ppc' = ppc
        /\ lock' = lock /\ index' = index /\ polls' = polls /\ got' = got
    BY <1>1 DEF hwVars, procVars
  <2>2. LogComplete'
    <3>1. LogComplete
      BY DEF IInv
    <3>2. log'.mem = log.mem /\ log'.count = log.count /\ given' = given /\ base' = base
      BY <1>1, <2>1
    <3> QED BY ONLY <3>1, <3>2, LogStill
  <2>3. MutexInv' /\ ClearInv' /\ BaseInv'
    BY <1>1, <2>1 DEF IInv, MutexInv, ClearInv, BaseInv
  <2>4. \A p \in Procs : EntryInv(p) => EntryInv(p)'
    BY <2>1 DEF EntryInv
  <2> QED BY <2>1, <2>2, <2>3, <2>4
<1>2. CASE Begin
  <2>1. /\ state' = "DISPATCH"
        /\ working' = working /\ offer' = offer /\ made' = made /\ waited' = waited
        /\ hwVars' = hwVars /\ procVars' = procVars /\ given' = given /\ base' = base
    BY <1>2 DEF Begin, ghosts
  <2>2. Types' /\ ReadInv'
    BY <1>1, <2>1 DEF IInv, Types, ReadInv
  <2>3. MadeInv' /\ TurnInv'
    BY <1>1, <2>1 DEF IInv, MadeInv, TurnInv, Valid, Dist
  <2> QED BY <1>1, <2>1, <2>2, <2>3 DEF IInv
<1>3. CASE Dispatched
  <2>1. /\ state = "DISPATCH" /\ state' = "DONE"
        /\ \A p \in Procs : ppc[p] \in {"out", "clear", "check"}
        /\ working' = working /\ offer' = offer /\ made' = made /\ waited' = waited
        /\ hwVars' = hwVars /\ procVars' = procVars /\ given' = given /\ base' = base
    BY <1>3 DEF Dispatched, ghosts
  <2>2. Types'
    BY <1>1, <2>1 DEF IInv, Types
  <2>3. MadeInv' /\ TurnInv'
    BY <1>1, <2>1 DEF IInv, MadeInv, TurnInv, Valid, Dist
  <2>4. ReadInv'
    BY <1>1, <2>1, OutsideEntry DEF ReadInv
  <2> QED BY <1>1, <2>1, <2>2, <2>3, <2>4 DEF IInv
<1>4. ASSUME NEW e \in Engines, Engine(e) PROVE IInv' /\ (ReadInv => ReadInv')
  <2>1. /\ state' = state /\ hwVars' = hwVars /\ procVars' = procVars /\ given' = given
        /\ base' = base /\ working' \subseteq Engines
    BY <1>4 DEF Engine, TakeOrder, MakeTrade, Rest, IInv, Types, ghosts
  <2>2. ReadInv => ReadInv'
    BY <1>1, <2>1 DEF ReadInv
  <2>3. CASE TakeOrder(e) \/ Rest(e)
    <3>1. offer' = offer /\ made' = made /\ waited' = waited
      BY <2>3 DEF TakeOrder, Rest, ghosts
    <3>2. Types' /\ MadeInv' /\ TurnInv'
      BY <1>1, <2>1, <3>1 DEF IInv, Types, MadeInv, TurnInv, Valid, Dist
    <3> QED BY <1>1, <2>1, <2>2, <3>2 DEF IInv
  <2>4. CASE MakeTrade(e)
    <3>1. PICK amt \in Amounts : offer' = [offer EXCEPT ![e] = amt]
      BY <2>4 DEF MakeTrade
    <3>2. /\ offer[e] = 0 /\ made' = [made EXCEPT ![e] = @ + 1]
          /\ waited' = [waited EXCEPT ![e] = 0]
      BY <2>4 DEF MakeTrade
    <3>3. amt \in Nat \ {0}
      BY TradeAssumption
    <3>4. /\ offer \in [Engines -> Nat] /\ made \in [Engines -> Nat]
          /\ waited \in [Engines -> Nat] /\ given \in [Engines -> Seq(Nat)] /\ rr_ptr \in Engines
      BY DEF IInv, Types
    <3>5. /\ offer' \in [Engines -> Nat] /\ made' \in [Engines -> Nat]
          /\ waited' \in [Engines -> Nat]
          /\ offer'[e] = amt /\ made'[e] = made[e] + 1 /\ waited'[e] = 0
          /\ \A f \in Engines \ {e} :
               offer'[f] = offer[f] /\ made'[f] = made[f] /\ waited'[f] = waited[f]
      <4>1. /\ offer' \in [Engines -> Nat] /\ offer'[e] = amt
            /\ \A f \in Engines \ {e} : offer'[f] = offer[f]
        BY ONLY <1>4, <3>1, <3>3, <3>4
      <4>2. /\ made' \in [Engines -> Nat] /\ made'[e] = made[e] + 1
            /\ \A f \in Engines \ {e} : made'[f] = made[f]
        BY ONLY <1>4, <3>2, <3>4
      <4>3. /\ waited' \in [Engines -> Nat] /\ waited'[e] = 0
            /\ \A f \in Engines \ {e} : waited'[f] = waited[f]
        BY ONLY <1>4, <3>2, <3>4
      <4> QED BY ONLY <4>1, <4>2, <4>3
    <3>6. Types'
      BY <1>1, <2>1, <3>5 DEF IInv, Types
    <3>7. MadeInv'
      <4>1. ASSUME NEW f \in Engines
            PROVE  made'[f] = Len(given'[f]) + (IF offer'[f] = 0 THEN 0 ELSE 1)
        <5>1. Len(given[f]) \in Nat /\ made[f] = Len(given[f]) + (IF offer[f] = 0 THEN 0 ELSE 1)
          BY <3>4 DEF IInv, MadeInv
        <5>2. CASE f = e
          BY <2>1, <3>2, <3>3, <3>5, <5>1, <5>2
        <5>3. CASE f # e
          BY <2>1, <3>5, <5>1, <5>3
        <5> QED BY <5>2, <5>3
      <4> QED BY <4>1 DEF MadeInv
    <3>8. TurnInv'
      <4>1. SUFFICES ASSUME NEW f \in Engines, offer'[f] # 0
                     PROVE  waited'[f] + ((f - rr_ptr) % N) <= N - 1
        BY <1>1, <2>1 DEF TurnInv, Valid, Dist
      <4>2. CASE f = e
        <5>1. (e - rr_ptr) % N \in 0 .. N - 1
          BY <3>4, Ahead
        <5>2. waited'[f] = 0
          BY <3>5, <4>2
        <5> QED BY ONLY <4>2, <5>1, <5>2, TradeAssumption
      <4>3. CASE f # e
        BY <3>5, <4>1, <4>3 DEF IInv, TurnInv, Valid, Dist
      <4> QED BY <4>2, <4>3
    <3> QED BY <1>1, <2>1, <2>2, <3>6, <3>7, <3>8 DEF IInv
  <2> QED BY <1>4, <2>3, <2>4 DEF Engine
<1> QED BY <1>2, <1>3, <1>4

\* The invariant is inductive.
LEMMA NextInv == IReadInv /\ [Next]_vars => IReadInv'
<1> SUFFICES ASSUME IReadInv, [Next]_vars PROVE IReadInv'
  OBVIOUS
<1>1. CASE UNCHANGED vars
  <2>1. /\ UNCHANGED <<engVars, hwVars, ghosts>> /\ UNCHANGED procVars
    BY <1>1 DEF vars
  <2>2. MutexInv'
    BY <2>1 DEF IReadInv, IInv, MutexInv, procVars
  <2>3. IInv'
    BY <2>1, <2>2, HardwareStill DEF IReadInv, IInv, Types, procVars
  <2>4. ReadInv => ReadInv'
    BY <2>1 DEF ReadInv, EntryInv, procVars, hwVars, engVars
  <2> QED BY <2>3, <2>4 DEF IReadInv
<1>2. CASE Begin \/ Dispatched \/ \E e \in Engines : Engine(e)
  BY <1>2, EngineStep DEF IReadInv
<1>3. CASE Tick
  BY <1>3, TickStep DEF IReadInv
<1>4. CASE Reset
  BY <1>4, ResetStep DEF IReadInv
<1>5. ASSUME NEW p \in Procs, CallRead(p) \/ CallClear(p) PROVE IReadInv'
  BY <1>5, CallStep DEF IReadInv
<1>6. ASSUME NEW p \in Procs, Inside(p) PROVE IReadInv'
  BY <1>6, InsideStep DEF IReadInv
<1> QED BY <1>1, <1>2, <1>3, <1>4, <1>5, <1>6 DEF Next

LEMMA AlwaysInv == Spec => []IReadInv
BY InitInv, NextInv, PTL DEF Spec

-----------------------------------------------------------------------------
(* The theorems.                                                            *)

\* The log loses, doubles, changes and reorders no trade an engine handed over
\* since the last clear, keeps the amount of each that fits seven bits, and no
\* pointer or counter leaves its range: for every depth of the log, also when
\* it is full, across resets, and with clears at any moment, also while engines
\* are trading.
THEOREM LogIsComplete == Spec => []LogInv
<1>1. IReadInv => LogInv
  <2> SUFFICES ASSUME IReadInv PROVE LogInv
    OBVIOUS
  <2>1. Types /\ LogComplete
    BY DEF IReadInv, IInv
  <2>2. TypeOK
    BY <2>1 DEF Types, TypeOK, LogRegs, AvlRegs, Indices
  <2> QED BY <2>1, <2>2 DEF LogInv
<1> QED BY <1>1, AlwaysInv, PTL

\* trade_aggregator is fair to every engine, however many there are: while
\* one waits with a trade, the others get at most N - 1 in.
THEOREM NoEngineStarves == Spec => []BoundedWait
<1>1. IReadInv => BoundedWait
  <2> SUFFICES ASSUME IReadInv, NEW e \in Valid PROVE waited[e] <= N - 1
    BY DEF BoundedWait
  <2>1. e \in Engines /\ rr_ptr \in Engines /\ waited[e] \in Nat /\ waited[e] + Dist(e) <= N - 1
    BY DEF IReadInv, IInv, TurnInv, Types, Valid
  <2>2. Dist(e) \in 0 .. N - 1
    BY <2>1, Ahead DEF Dist
  <2> QED BY <2>1, <2>2, TradeAssumption
<1> QED BY <1>1, AlwaysInv, PTL

\* Any number of processes may read the log: dev.lock and the read pipeline
\* give each the entry it asked for, three polls see it arrive, and every
\* ioctl gives the mutex back.
THEOREM ReadersGetTheirEntry == ASSUME PollsAllowed PROVE Spec => []ReadsInv
<1>1. IReadInv => MutexHeld
  BY DEF IReadInv, IInv, MutexInv, MutexHeld, At
<1>2. PollsAllowed /\ IReadInv => ReadReturnsEntry /\ PollsSuffice
  BY DEF IReadInv, ReadInv, EntryInv, ReadReturnsEntry, PollsSuffice, At
<1>3. PollsAllowed /\ IReadInv => ReadsInv
  BY <1>1, <1>2 DEF ReadsInv
<1> QED BY <1>3, AlwaysInv, PTL
=============================================================================
