-------------------------- MODULE DispatcherProofs ---------------------------
(***************************************************************************)
(* Proofs about OrderDispatcher: what one clock edge and one reset do to   *)
(* its lanes, and the theorems about the dispatcher on its own, for every  *)
(* number of lanes, every Depth and any inputs.                            *)
(***************************************************************************)
EXTENDS OrderDispatcher, TLAPS

Regs == [mem : [0 .. Depth - 1 -> Words],
         wr_ptr : 0 .. Depth, rd_ptr : 0 .. Depth, mem_count : 0 .. Depth,
         rd_pending : {0, 1}, out_valid : {0, 1}, out_data : Words]

\* The registers of lane s against what was written to it and taken from it:
\* the RAM holds all that was written, the words before rd_ptr have left it,
\* the last of them being in flight, on offer, or taken.
LaneInv(s) ==
  /\ fifo[s] \in Regs
  /\ written[s] \in Seq(Orders) /\ taken[s] \in Seq(Words)
  /\ fifo[s].wr_ptr = Len(written[s])
  /\ fifo[s].rd_ptr + fifo[s].mem_count = fifo[s].wr_ptr
  /\ fifo[s].rd_ptr = Len(taken[s]) + fifo[s].rd_pending + fifo[s].out_valid
  /\ fifo[s].rd_pending = 0 \/ fifo[s].out_valid = 0
  /\ \A i \in 0 .. fifo[s].wr_ptr - 1 : fifo[s].mem[i] = written[s][i + 1]
  /\ fifo[s].rd_pending = 1 \/ fifo[s].out_valid = 1
       => fifo[s].out_data = written[s][fifo[s].rd_ptr]
  /\ \A i \in 1 .. Len(taken[s]) : taken[s][i] = written[s][i]
  /\ state = "IDLE" => fifo[s].wr_ptr = 0
  /\ state = "WRITE" => fifo[s].rd_ptr = 0
  /\ state = "DONE" => Occupancy(fifo[s]) = 0

DispInv ==
  /\ state \in {"IDLE", "WRITE", "DISPATCH", "DONE"}
  /\ busy \subseteq Lanes
  /\ fifo \in [Lanes -> Regs]
  /\ written \in [Lanes -> Seq(Orders)] /\ taken \in [Lanes -> Seq(Words)]
  /\ \A s \in Lanes : LaneInv(s)

\* Whatever the RAM holds, cleared registers satisfy the lane's invariant.
LEMMA ClearedLane ==
  ASSUME NEW s \in Lanes, NEW mem \in [0 .. Depth - 1 -> Words],
         fifo'[s] = ClearedFifo(mem), written'[s] = <<>>, taken'[s] = <<>>
  PROVE  LaneInv(s)'
BY DispatcherAssumption DEF LaneInv, Regs, ClearedFifo, Words, Occupancy

\* The dispatcher starts with cleared lanes.
LEMMA DispInitInv == DispInit => DispInv
<1> SUFFICES ASSUME DispInit PROVE DispInv
  OBVIOUS
<1>1. ASSUME NEW s \in Lanes PROVE LaneInv(s)
  BY DispatcherAssumption DEF DispInit, LaneInv, Regs, ClearedFifo, Words, Occupancy
<1>2. \A s \in Lanes : fifo[s] \in Regs
  BY <1>1 DEF LaneInv
<1>3. fifo \in [Lanes -> Regs]
  BY <1>2 DEF DispInit
<1>4. written \in [Lanes -> Seq(Orders)] /\ taken \in [Lanes -> Seq(Words)]
  BY DEF DispInit
<1> QED BY <1>1, <1>3, <1>4 DEF DispInit, DispInv

\* KEY0 clears every lane but its RAM.
LEMMA DispResetInv == DispInv /\ DispReset => DispInv'
<1> SUFFICES ASSUME DispInv, DispReset PROVE DispInv'
  OBVIOUS
<1>1. ASSUME NEW s \in Lanes PROVE LaneInv(s)'
  <2>1. fifo[s].mem \in [0 .. Depth - 1 -> Words]
    BY DEF DispInv, LaneInv, Regs
  <2> QED BY <2>1, ClearedLane DEF DispReset
<1> QED
  <2>1. \A s \in Lanes : fifo'[s] \in Regs
    BY <1>1 DEF LaneInv
  <2> QED BY <1>1, <2>1 DEF DispReset, DispInv

\* One edge of one lane that is not cleared.
LEMMA LaneClock ==
  ASSUME DispInv, NEW s \in Lanes,
         NEW bw \in BOOLEAN, NEW bd \in BOOLEAN, NEW cd \in BOOLEAN,
         NEW wr_en \in SUBSET Lanes, NEW wr_data, \A t \in wr_en : wr_data[t] \in Orders,
         NEW finished, Clock(bw, bd, cd, wr_en, wr_data, finished),
         ~(state = "DONE" /\ cd)
  PROVE  LaneInv(s)'
<1> DEFINE f == fifo[s]
           g == fifo'[s]
           w == state = "WRITE" /\ s \in wr_en /\ Occupancy(f) # Depth
           c == state = "DISPATCH" /\ f.out_valid = 1 /\ s \notin busy
           l == /\ state = "DISPATCH" /\ f.rd_pending = 0 /\ f.mem_count # 0
                /\ f.out_valid = 0 \/ s \notin busy
<1> USE DispatcherAssumption
<1>1. /\ g.mem = (IF w THEN [f.mem EXCEPT ![f.wr_ptr] = wr_data[s]] ELSE f.mem)
      /\ g.wr_ptr = (IF w THEN f.wr_ptr + 1 ELSE f.wr_ptr)
      /\ g.rd_ptr = (IF l THEN f.rd_ptr + 1 ELSE f.rd_ptr)
      /\ g.mem_count = (f.mem_count + (IF w THEN 1 ELSE 0)) - (IF l THEN 1 ELSE 0)
      /\ g.rd_pending = (IF l THEN 1 ELSE 0)
      /\ g.out_valid = (IF c THEN 0 ELSE IF f.rd_pending = 1 THEN 1 ELSE f.out_valid)
      /\ g.out_data = (IF l THEN f.mem[f.rd_ptr] ELSE f.out_data)
      /\ DOMAIN g = {"mem", "wr_ptr", "rd_ptr", "mem_count", "rd_pending",
                     "out_valid", "out_data"}
  BY DEF Clock, FifoNext, DoWrite, DoConsume, DoLaunchRead, Full
<1>2. g = [mem |-> g.mem, wr_ptr |-> g.wr_ptr, rd_ptr |-> g.rd_ptr,
           mem_count |-> g.mem_count, rd_pending |-> g.rd_pending,
           out_valid |-> g.out_valid, out_data |-> g.out_data]
  BY DEF Clock, FifoNext
<1>3. /\ written'[s] = (IF w THEN Append(written[s], wr_data[s]) ELSE written[s])
      /\ taken'[s] = (IF c THEN Append(taken[s], f.out_data) ELSE taken[s])
  BY DEF Clock, Stores, Takes, OutValid, Full
<1>4. /\ LaneInv(s)
      /\ f.mem \in [0 .. Depth - 1 -> Words] /\ f.out_data \in Words
      /\ f.wr_ptr \in 0 .. Depth /\ f.rd_ptr \in 0 .. Depth /\ f.mem_count \in 0 .. Depth
      /\ f.rd_pending \in {0, 1} /\ f.out_valid \in {0, 1}
  BY DEF DispInv, LaneInv, Regs
<1>5. /\ state' = "IDLE" => state = "IDLE"
      /\ state' = "WRITE" => state \in {"IDLE", "WRITE"}
      /\ state' = "DONE" => Occupancy(f) = 0
  BY <1>4 DEF Clock, NextState, DispInv, LaneInv, AllEmpty, Empty
<1>6. /\ f.wr_ptr \in 0 .. Depth /\ f.rd_ptr \in 0 .. Depth /\ f.mem_count \in 0 .. Depth
      /\ f.rd_pending \in {0, 1} /\ f.out_valid \in {0, 1}
      /\ Len(written[s]) \in Nat /\ Len(taken[s]) \in Nat
      /\ f.wr_ptr = Len(written[s])
      /\ f.rd_ptr + f.mem_count = f.wr_ptr
      /\ f.rd_ptr = Len(taken[s]) + f.rd_pending + f.out_valid
      /\ f.rd_pending = 0 \/ f.out_valid = 0
  BY <1>4 DEF LaneInv
<1>7. CASE w
  <2>1. f.wr_ptr < Depth /\ f.rd_pending = 0 /\ f.out_valid = 0 /\ state = "WRITE"
    BY <1>4, <1>7 DEF LaneInv, Occupancy
  <2>2. /\ g.mem = [f.mem EXCEPT ![f.wr_ptr] = wr_data[s]]
        /\ g.wr_ptr = f.wr_ptr + 1 /\ g.rd_ptr = f.rd_ptr
        /\ g.mem_count = f.mem_count + 1
        /\ g.rd_pending = 0 /\ g.out_valid = 0 /\ g.out_data = f.out_data
        /\ written'[s] = Append(written[s], wr_data[s]) /\ taken'[s] = taken[s]
    BY <1>1, <1>3, <1>4, <1>7, <2>1
  <2>3. state' \notin {"IDLE", "DONE"}
    BY <2>1 DEF Clock, NextState
  <2>0. wr_data[s] \in Orders
    BY <1>7
  <2> HIDE DEF w, l, c, g
  <2>4. /\ g.mem \in [0 .. Depth - 1 -> Words] /\ g.mem[f.wr_ptr] = wr_data[s]
        /\ \A i \in 0 .. f.wr_ptr - 1 : g.mem[i] = f.mem[i]
    <3>1. f.mem \in [0 .. Depth - 1 -> Words] /\ g.mem = [f.mem EXCEPT ![f.wr_ptr] = wr_data[s]]
      BY <1>4, <2>2
    <3>2. f.wr_ptr \in 0 .. Depth - 1
      BY <1>6, <2>1
    <3>3. wr_data[s] \in Words
      BY <2>0 DEF Words
    <3>4. \A i \in 0 .. f.wr_ptr - 1 : i \in 0 .. Depth - 1 /\ i # f.wr_ptr
      BY <3>2
    <3> HIDE DEF f
    <3>5. g.mem \in [0 .. Depth - 1 -> Words] /\ g.mem[f.wr_ptr] = wr_data[s]
      BY <3>1, <3>2, <3>3
    <3> QED BY <3>1, <3>2, <3>4, <3>5
  <2>5. g.mem_count \in 0 .. Depth /\ g.wr_ptr \in 0 .. Depth
    <3>1. f.mem_count + 1 \in 0 .. Depth /\ f.wr_ptr + 1 \in 0 .. Depth
      BY <1>6, <2>1
    <3> QED BY <2>2, <3>1
  <2>6. g \in Regs
    BY <1>2, <1>4, <2>2, <2>4, <2>5 DEF Regs
  <2>7. /\ written'[s] \in Seq(Orders) /\ Len(written'[s]) = Len(written[s]) + 1
        /\ written'[s][Len(written[s]) + 1] = wr_data[s]
        /\ \A i \in 1 .. Len(written[s]) : written'[s][i] = written[s][i]
    <3>1. written[s] \in Seq(Orders) /\ written'[s] = Append(written[s], wr_data[s])
      BY <1>4, <2>2 DEF LaneInv
    <3> QED BY <2>0, <3>1
  <2>8. ASSUME NEW i \in 0 .. g.wr_ptr - 1 PROVE g.mem[i] = written'[s][i + 1]
    <3>1. CASE i = f.wr_ptr
      BY <1>4, <2>4, <2>7, <3>1 DEF LaneInv
    <3>2. CASE i < f.wr_ptr
      <4>1. f.mem[i] = written[s][i + 1] /\ i + 1 \in 1 .. Len(written[s])
        BY <1>4, <1>6, <2>8, <3>2 DEF LaneInv
      <4>2. g.mem[i] = f.mem[i]
        <5>1. i \in 0 .. f.wr_ptr - 1
          BY <1>6, <2>8, <3>2
        <5> QED BY ONLY <2>4, <5>1
      <4>3. written'[s][i + 1] = written[s][i + 1]
        BY ONLY <2>7, <4>1
      <4> QED BY ONLY <4>1, <4>2, <4>3
    <3>3. i = f.wr_ptr \/ i < f.wr_ptr
      BY <1>4, <2>2, <2>8
    <3> QED BY <3>1, <3>2, <3>3
  <2>9. \A i \in 1 .. Len(taken'[s]) : taken'[s][i] = written'[s][i]
    <3>1. Len(taken'[s]) = 0
      BY <1>4, <1>6, <2>1, <2>2 DEF LaneInv
    <3> QED BY <3>1
  <2>10. /\ g.wr_ptr = Len(written'[s]) /\ g.rd_ptr + g.mem_count = g.wr_ptr
         /\ g.rd_ptr = Len(taken'[s]) + g.rd_pending + g.out_valid
         /\ taken'[s] \in Seq(Words) /\ g.rd_ptr = 0
    <3>1. f.rd_ptr = 0 /\ taken[s] \in Seq(Words)
      BY <1>4, <2>1 DEF LaneInv
    <3>2. Len(taken[s]) = 0 /\ f.mem_count = f.wr_ptr
      BY ONLY <1>6, <2>1, <3>1
    <3>3. f.mem_count + 1 = f.wr_ptr + 1 /\ 0 + (f.mem_count + 1) = f.wr_ptr + 1 /\ 0 = 0 + 0 + 0
      BY ONLY <1>6, <3>2
    <3>4. g.wr_ptr = Len(written'[s]) /\ g.rd_ptr = 0 /\ taken'[s] \in Seq(Words)
      BY ONLY <1>6, <2>2, <2>7, <3>1
    <3> QED BY ONLY <2>2, <3>1, <3>2, <3>3, <3>4
  <2>11. /\ g.rd_pending = 0 \/ g.out_valid = 0
         /\ g.rd_pending = 1 \/ g.out_valid = 1 => g.out_data = written'[s][g.rd_ptr]
    BY ONLY <2>2
  <2> QED
    BY ONLY <2>3, <2>6, <2>7, <2>8, <2>9, <2>10, <2>11 DEF LaneInv, g
<1>8. CASE ~w /\ l
  <2>1. /\ g.mem = f.mem /\ g.wr_ptr = f.wr_ptr /\ g.rd_ptr = f.rd_ptr + 1
        /\ g.mem_count = f.mem_count - 1 /\ f.mem_count > 0
        /\ f.rd_pending = 0 /\ g.rd_pending = 1 /\ g.out_valid = 0
        /\ g.out_data = f.mem[f.rd_ptr] /\ written'[s] = written[s]
        /\ taken'[s] = IF f.out_valid = 1 THEN Append(taken[s], f.out_data) ELSE taken[s]
    BY <1>1, <1>3, <1>4, <1>8
  <2>2. state' \notin {"IDLE", "WRITE", "DONE"}
    BY <1>4, <1>5, <1>8, <2>1 DEF Occupancy
  <2> HIDE DEF w, l, c, g
  <2>3. f.rd_ptr < f.wr_ptr /\ f.rd_ptr \in 0 .. Depth - 1 /\ f.rd_ptr \in 0 .. f.wr_ptr - 1
    BY <1>4, <1>6, <2>1
  <2>4. g \in Regs
    <3>1. g.rd_ptr \in 0 .. Depth /\ g.mem_count \in 0 .. Depth
      <4>1. f.rd_ptr + 1 \in 0 .. Depth /\ f.mem_count - 1 \in 0 .. Depth
        BY <1>6, <2>1, <2>3
      <4> QED BY <2>1, <4>1
    <3>2. f.mem[f.rd_ptr] \in Words
      BY ONLY <1>4, <2>3
    <3> QED BY <1>2, <1>4, <2>1, <3>1, <3>2 DEF Regs
  <2>5. g.out_data = written[s][g.rd_ptr]
    BY <1>4, <2>1, <2>3 DEF LaneInv
  <2>6. /\ taken'[s] \in Seq(Words) /\ Len(taken'[s]) = Len(taken[s]) + f.out_valid
        /\ \A i \in 1 .. Len(taken'[s]) : taken'[s][i] = written[s][i]
    <3>1. CASE f.out_valid = 1
      <4>1. f.out_data = written[s][Len(taken[s]) + 1]
        BY <1>4, <1>6, <2>1, <3>1 DEF LaneInv
      <4>2. taken[s] \in Seq(Words) /\ f.out_data \in Words
        BY <1>4 DEF LaneInv
      <4>3. /\ taken'[s] \in Seq(Words) /\ Len(taken'[s]) = Len(taken[s]) + 1
            /\ taken'[s][Len(taken[s]) + 1] = f.out_data
            /\ \A i \in 1 .. Len(taken[s]) : taken'[s][i] = taken[s][i]
        BY <2>1, <3>1, <4>2
      <4>4. \A i \in 1 .. Len(taken[s]) : taken[s][i] = written[s][i]
        BY <1>4 DEF LaneInv
      <4>5. \A i \in 1 .. Len(taken[s]) + 1 : i = Len(taken[s]) + 1 \/ i \in 1 .. Len(taken[s])
        BY <1>6
      <4> QED BY <3>1, <4>1, <4>3, <4>4, <4>5
    <3>2. CASE f.out_valid = 0
      BY <1>4, <1>6, <2>1, <3>2 DEF LaneInv
    <3> QED BY <1>4, <3>1, <3>2
  <2>7. /\ g.wr_ptr = Len(written'[s]) /\ g.rd_ptr + g.mem_count = g.wr_ptr
        /\ g.rd_ptr = Len(taken'[s]) + g.rd_pending + g.out_valid
    <3>1. /\ (f.rd_ptr + 1) + (f.mem_count - 1) = f.wr_ptr
          /\ f.rd_ptr + 1 = Len(taken[s]) + f.out_valid + 1 + 0
      <4>1. f.rd_pending = 0
        BY <2>1
      <4> HIDE DEF f
      <4> QED BY ONLY <1>6, <4>1
    <3> QED BY <1>6, <2>1, <2>6, <3>1
  <2>8. /\ written'[s] \in Seq(Orders)
        /\ \A i \in 0 .. g.wr_ptr - 1 : g.mem[i] = written'[s][i + 1]
    BY <1>4, <2>1 DEF LaneInv
  <2> QED
    BY <2>1, <2>2, <2>4, <2>5, <2>6, <2>7, <2>8 DEF LaneInv, g
<1>9. CASE ~w /\ ~l
  <2>1. /\ g.mem = f.mem /\ g.wr_ptr = f.wr_ptr /\ g.rd_ptr = f.rd_ptr
        /\ g.mem_count = f.mem_count /\ g.rd_pending = 0
        /\ g.out_data = f.out_data /\ written'[s] = written[s]
    BY <1>1, <1>3, <1>4, <1>9
  <2>2. \/ /\ f.out_valid = 1 /\ g.out_valid = 0
           /\ taken'[s] = Append(taken[s], f.out_data)
        \/ /\ g.out_valid = f.rd_pending + f.out_valid
           /\ taken'[s] = taken[s]
    <3>1. CASE c
      BY <1>1, <1>3, <3>1
    <3>2. CASE ~c
      BY <1>1, <1>3, <1>4, <1>6, <3>2
    <3> QED BY <3>1, <3>2
  <2> HIDE DEF w, l, c, g
  <2>3. g.out_valid \in {0, 1} /\ (Occupancy(f) = 0 => Occupancy(g) = 0)
    <3>1. CASE f.out_valid = 1 /\ g.out_valid = 0
      <4> HIDE DEF f
      <4> QED BY ONLY <1>6, <2>1, <3>1 DEF Occupancy
    <3>2. CASE g.out_valid = f.rd_pending + f.out_valid
      <4> HIDE DEF f
      <4> QED BY ONLY <1>6, <2>1, <3>2 DEF Occupancy
    <3> QED BY <2>2, <3>1, <3>2
  <2>4. g \in Regs
    BY <1>2, <1>4, <2>1, <2>3 DEF Regs
  <2>5. /\ taken'[s] \in Seq(Words) /\ Len(taken'[s]) + g.out_valid = f.rd_ptr
        /\ \A i \in 1 .. Len(taken'[s]) : taken'[s][i] = written[s][i]
    <3>1. CASE f.out_valid = 1 /\ g.out_valid = 0 /\ taken'[s] = Append(taken[s], f.out_data)
      <4>1. f.out_data = written[s][Len(taken[s]) + 1] /\ f.rd_pending = 0
        BY <1>4, <1>6, <3>1 DEF LaneInv
      <4>2. taken[s] \in Seq(Words) /\ f.out_data \in Words
        BY <1>4 DEF LaneInv
      <4>3. /\ taken'[s] \in Seq(Words) /\ Len(taken'[s]) = Len(taken[s]) + 1
            /\ taken'[s][Len(taken[s]) + 1] = f.out_data
            /\ \A i \in 1 .. Len(taken[s]) : taken'[s][i] = taken[s][i]
        BY <3>1, <4>2
      <4>4. \A i \in 1 .. Len(taken[s]) : taken[s][i] = written[s][i]
        BY <1>4 DEF LaneInv
      <4>5. \A i \in 1 .. Len(taken[s]) + 1 : i = Len(taken[s]) + 1 \/ i \in 1 .. Len(taken[s])
        BY <1>6
      <4>6. Len(taken[s]) + 1 + g.out_valid = f.rd_ptr
        BY <1>4, <1>6, <3>1, <4>1
      <4> QED BY <4>1, <4>3, <4>4, <4>5, <4>6
    <3>2. CASE g.out_valid = f.rd_pending + f.out_valid /\ taken'[s] = taken[s]
      <4>1. Len(taken[s]) + g.out_valid = f.rd_ptr
        BY <1>6, <3>2
      <4>2. taken[s] \in Seq(Words) /\ \A i \in 1 .. Len(taken[s]) : taken[s][i] = written[s][i]
        BY <1>4 DEF LaneInv
      <4> QED BY <3>2, <4>1, <4>2
    <3> QED BY <2>2, <3>1, <3>2
  <2>6. g.out_valid = 1 => g.out_data = written[s][g.rd_ptr]
    BY <1>4, <2>1, <2>2 DEF LaneInv
  <2>7. /\ state' = "IDLE" => g.wr_ptr = 0
        /\ state' = "WRITE" => g.rd_ptr = 0
        /\ state' = "DONE" => Occupancy(g) = 0
    BY <1>4, <1>5, <1>6, <2>1, <2>3 DEF LaneInv
  <2> QED
    BY <1>4, <1>6, <2>1, <2>3, <2>4, <2>5, <2>6, <2>7 DEF LaneInv, g
<1> QED BY <1>7, <1>8, <1>9

\* Every edge of the dispatcher keeps the invariant of its lanes.
LEMMA ClockInv ==
  ASSUME DispInv,
         NEW bw \in BOOLEAN, NEW bd \in BOOLEAN, NEW cd \in BOOLEAN,
         NEW wr_en \in SUBSET Lanes, NEW wr_data, \A t \in wr_en : wr_data[t] \in Orders,
         NEW finished, Clock(bw, bd, cd, wr_en, wr_data, finished)
  PROVE  DispInv'
<1>1. ASSUME NEW s \in Lanes PROVE LaneInv(s)'
  <2>1. CASE state = "DONE" /\ cd
    <3>1. fifo[s].mem \in [0 .. Depth - 1 -> Words]
      BY DEF DispInv, LaneInv, Regs
    <3> QED BY <2>1, <3>1, ClearedLane DEF Clock
  <2>2. CASE ~(state = "DONE" /\ cd)
    BY <2>2, LaneClock
  <2> QED BY <2>1, <2>2
<1>2. state' \in {"IDLE", "WRITE", "DISPATCH", "DONE"}
  BY DEF Clock, NextState, DispInv
<1>3. busy' \subseteq Lanes
  BY DEF Clock, DispInv
<1>4. /\ fifo' \in [Lanes -> Regs]
      /\ written' \in [Lanes -> Seq(Orders)] /\ taken' \in [Lanes -> Seq(Words)]
  <2>1. \A s \in Lanes : /\ fifo'[s] \in Regs
                        /\ written'[s] \in Seq(Orders) /\ taken'[s] \in Seq(Words)
    BY <1>1 DEF LaneInv
  <2> QED BY <2>1 DEF Clock
<1> QED BY <1>1, <1>2, <1>3, <1>4 DEF DispInv

-----------------------------------------------------------------------------
(* The dispatcher on its own.                                               *)

\* Whatever the inputs, an edge keeps the invariant.
LEMMA EdgeInv == ASSUME DispInv, NEW finished \in SUBSET busy, PinEdge(finished) PROVE DispInv'
<1>1. PICK begin_write \in {0, 1}, begin_dispatch \in {0, 1}, clear_done \in {0, 1},
           wr_en \in SUBSET Lanes, wr_data \in [Lanes -> Orders] :
        Clock(begin_write = 1, begin_dispatch = 1, clear_done = 1, wr_en, wr_data, finished)
  BY DEF PinEdge
<1>2. \A t \in wr_en : wr_data[t] \in Orders
  OBVIOUS
<1> QED BY <1>1, <1>2, ClockInv

\* DispInv holds in every reachable state.
LEMMA AlwaysDispInv == DispSpec => []DispInv
<1>1. DispInv /\ [DispNext]_dispVars => DispInv'
  <2> SUFFICES ASSUME DispInv, [DispNext]_dispVars PROVE DispInv'
    OBVIOUS
  <2>1. CASE UNCHANGED dispVars
    BY <2>1 DEF dispVars, DispInv, LaneInv, Occupancy
  <2> QED BY <2>1, DispResetInv, EdgeInv DEF DispNext
<1> QED BY <1>1, DispInitInv, PTL DEF DispSpec

\* The registers of the lanes keep their types: no pointer and no counter of
\* dispatch_fifo_bram ever leaves 0 .. Depth.
THEOREM TypeSafety == DispSpec => []DispTypeOK
<1>1. DispInv => DispTypeOK
  BY DEF DispInv, DispTypeOK, Regs
<1> QED BY <1>1, AlwaysDispInv, PTL

\* A lane that is ready for a write has room behind wr_ptr, for every Depth,
\* though the pointer is never wrapped.
THEOREM WritesAlwaysFit == DispSpec => []WritesFit
<1>1. DispInv => WritesFit
  <2> SUFFICES ASSUME DispInv, NEW s \in Lanes, WrReady(s) PROVE fifo[s].wr_ptr < Depth
    BY DEF WritesFit
  <2>1. LaneInv(s) /\ Len(taken[s]) \in Nat
    BY DEF DispInv
  <2> QED BY <2>1, DispatcherAssumption DEF LaneInv, Regs, WrReady, Full, Occupancy
<1> QED BY <1>1, AlwaysDispInv, PTL

\* Each engine takes its lane's orders as they were written.
THEOREM FirstInFirstOut == DispSpec => []TakenInOrder
<1>1. DispInv => TakenInOrder
  <2> SUFFICES ASSUME DispInv, NEW s \in Lanes
               PROVE  /\ Len(taken[s]) <= Len(written[s])
                      /\ \A i \in 1 .. Len(taken[s]) : taken[s][i] = written[s][i]
    BY DEF TakenInOrder
  <2>1. LaneInv(s) /\ Len(taken[s]) \in Nat /\ Len(written[s]) \in Nat
    BY DEF DispInv
  <2> QED BY <2>1 DEF LaneInv, Regs
<1> QED BY <1>1, AlwaysDispInv, PTL

\* DONE is not reached while an order is in a RAM or in a prefetch register.
THEOREM DoneIsComplete == DispSpec => []DoneMeansDispatched
<1>1. DispInv => DoneMeansDispatched
  <2> SUFFICES ASSUME DispInv, state = "DONE" PROVE taken = written
    BY DEF DoneMeansDispatched
  <2>1. ASSUME NEW s \in Lanes PROVE taken[s] = written[s]
    <3>1. LaneInv(s) /\ Len(taken[s]) \in Nat /\ Len(written[s]) \in Nat
      BY DEF DispInv
    <3>2. Len(taken[s]) = Len(written[s])
      BY <3>1 DEF LaneInv, Regs, Occupancy
    <3> QED BY <3>1, <3>2 DEF LaneInv
  <2> QED BY <2>1 DEF DispInv
<1> QED BY <1>1, AlwaysDispInv, PTL

\* An order on offer is neither withdrawn nor replaced before it is taken.
THEOREM OffersAreStable == DispSpec => OfferStable
<1> DEFINE A == \A s \in Lanes : OutValid(s) /\ s \in busy /\ state' # "IDLE"
                  => OutValid(s)' /\ fifo'[s].out_data = fifo[s].out_data
<1>1. DispInv /\ [DispNext]_dispVars => [A]_dispVars
  <2> SUFFICES ASSUME DispInv, DispNext, NEW s \in Lanes,
                      OutValid(s), s \in busy, state' # "IDLE"
               PROVE  OutValid(s)' /\ fifo'[s].out_data = fifo[s].out_data
    OBVIOUS
  <2>1. PICK finished \in SUBSET busy : PinEdge(finished)
    BY DEF DispNext, DispReset
  <2>2. PICK begin_write \in {0, 1}, begin_dispatch \in {0, 1}, clear_done \in {0, 1},
             wr_en \in SUBSET Lanes, wr_data \in [Lanes -> Orders] :
          Clock(begin_write = 1, begin_dispatch = 1, clear_done = 1, wr_en, wr_data, finished)
    BY <2>1 DEF PinEdge
  <2>3. state = "DISPATCH" /\ fifo[s].out_valid = 1 /\ fifo[s].rd_pending = 0
    BY DEF OutValid, DispInv, LaneInv, Regs
  <2>4. Occupancy(fifo[s]) # 0
    BY <2>3 DEF DispInv, Regs, Occupancy
  <2>5. state' = "DISPATCH"
    BY <2>2, <2>3, <2>4 DEF Clock, NextState, AllEmpty, Empty
  <2>6. fifo'[s].out_valid = 1 /\ fifo'[s].out_data = fifo[s].out_data
    BY <2>2, <2>3 DEF Clock, FifoNext, DoConsume, DoLaunchRead
  <2> QED BY <2>5, <2>6 DEF OutValid
<1> QED BY <1>1, AlwaysDispInv, PTL DEF DispSpec, OfferStable
=============================================================================
