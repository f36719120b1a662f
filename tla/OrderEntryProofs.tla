-------------------------- MODULE OrderEntryProofs ---------------------------
(***************************************************************************)
(* Proofs about OrderEntry: no order gets lost between the CSV files and   *)
(* the engines, for any number of lanes, every Depth and any files.        *)
(***************************************************************************)
EXTENDS OrderEntry, DispatcherProofs

\* The operator presses KEY1 only when the harness asks for it: in a session
\* that a reset has ended, and that the harness has not yet given up, a KEY1
\* would mix two sessions' orders.
Patient == "KEY1" \notin Rush

NoLoss == \A s \in Lanes : Stored(s) = pushed[s]

\* TypeOK, and the harness's counters within the files.
HostTypes ==
  /\ TypeOK /\ source \in [Lanes -> Seq(Orders)]
  /\ \A s \in Lanes : row[s] <= Len(source[s])
  /\ pc \in {"push", "write", "refresh"} => lane \in Lanes
  /\ pc \in {"push", "write"} => row[lane] # 0

\* A session begins with empty lanes, and KEY2 cannot come before the harness
\* has seen WRITE.
StartInv ==
  pc \in {"start", "wait_write"} =>
    /\ state \in {"IDLE", "WRITE"} /\ (state = "WRITE" => ~seen)
    /\ avl_push = NoPush
    /\ \A s \in Lanes : written[s] = <<>> /\ (pc = "wait_write" => pushed[s] = <<>>)

\* A word in the push register has room in its lane, and up to then nothing
\* was lost.
PushInv ==
  avl_push # NoPush =>
    /\ avl_push.lane \in Lanes /\ avl_push.order \in Orders
    /\ pc \in {"refresh", "failed"} /\ state # "IDLE" /\ NoLoss
    /\ state = "WRITE" => Len(written[avl_push.lane]) < Depth

\* The lane the driver has found ready is still ready, unless the phase is over.
RoomInv == pc = "write" /\ state = "WRITE" => Len(written[lane]) < Depth

\* As long as lanes are written, and until the one push that KEY2 may have
\* overtaken is done, nothing is lost.
LossInv ==
  /\ state # "IDLE" /\ pc # "start" /\ (state = "WRITE" \/ pc = "write") => NoLoss
  /\ LostAtMostOne

\* Without haste, dispatching starts when all is stored.
RushInv ==
  state \in {"DISPATCH", "DONE"} /\ ~rushed =>
    /\ pc \in {"filled", "trading", "poll", "finished", "failed"}
    /\ avl_push = NoPush /\ NoLoss

EndInv == pc = "finished" => state = "DONE" /\ busy = {}

\* The inductive invariant.
IInv ==
  DispInv /\ HostTypes /\ StartInv /\ PushInv /\ RoomInv /\ LossInv /\ RushInv /\ EndInv

-----------------------------------------------------------------------------
(* Lanes and push register.                                                 *)

\* A lane that was not yet read holds all that was written to it.
LEMMA WritingLane ==
  ASSUME DispInv, NEW s \in Lanes
  PROVE  /\ state = "IDLE" => written[s] = <<>>
         /\ Len(written[s]) \in Nat /\ written[s] \in Seq(Orders)
         /\ state = "WRITE" => (Full(fifo[s]) <=> Len(written[s]) = Depth)
                               /\ Len(written[s]) <= Depth
<1>1. LaneInv(s) /\ Len(written[s]) \in Nat /\ Len(taken[s]) \in Nat /\ written[s] \in Seq(Orders)
  BY DEF DispInv
<1>2. state = "IDLE" => Len(written[s]) = 0
  BY <1>1 DEF LaneInv
<1>3. state = "WRITE" => (Full(fifo[s]) <=> Len(written[s]) = Depth) /\ Len(written[s]) <= Depth
  BY <1>1, DispatcherAssumption DEF LaneInv, Regs, Full, Occupancy
<1> QED BY <1>1, <1>2, <1>3

\* NoPush is addressed to no lane.
LEMMA NoPushLane == NoPush.lane \notin Lanes /\ NoPush.lane = 0
BY EntryAssumption DEF NoPush

\* One clock edge: what the lanes store, and which phases may follow.
LEMMA TickEffect ==
  ASSUME Patient, IInv, NEW push, NEW reads \in BOOLEAN, Tick(push, reads)
  PROVE  /\ DispInv' /\ avl_push' = push /\ seen' \in BOOLEAN /\ rushed' \in BOOLEAN
         /\ state = "WRITE" => \A s \in Lanes : written'[s] = Stored(s)
         /\ state # "WRITE" => written' = written
         /\ state # "DISPATCH" => busy' \subseteq busy
         /\ rushed => rushed'
         /\ state = "IDLE" =>
              \/ state' = "IDLE"
              \/ state' = "WRITE" /\ pc \in {"start", "wait_write"} /\ ~seen'
         /\ state = "WRITE" =>
              \/ state' = "WRITE" /\ (seen' => seen \/ reads)
              \/ state' = "DISPATCH" /\ seen /\ (pc = "filled" \/ rushed')
         /\ state = "DISPATCH" => state' \in {"DISPATCH", "DONE"}
         /\ state = "DONE" => state' = "DONE"
<1>1. PICK key1 \in {0, 1}, key2 \in {0, 1}, finished \in SUBSET busy :
        /\ key1 + key2 > 0 => seen
        /\ key1 = 1 => pc \in {"start", "wait_write"} \/ "KEY1" \in Rush
        /\ key2 = 1 => pc = "filled" \/ "KEY2" \in Rush
        /\ Edge(key1 = 1, key2 = 1, finished, push)
        /\ seen' = IF key1 + key2 > 0 THEN FALSE ELSE seen \/ reads
        /\ rushed' = (rushed \/ (key2 = 1 /\ pc # "filled"))
  BY DEF Tick
<1> DEFINE wr_en == {avl_push.lane} \cap Lanes
           wr_data == [s \in Lanes |-> avl_push.order]
<1>2. Clock(key1 = 1, key2 = 1, FALSE, wr_en, wr_data, finished) /\ avl_push' = push
  BY <1>1 DEF Edge
<1>3. /\ DispInv /\ seen \in BOOLEAN /\ rushed \in BOOLEAN
      /\ state \in {"IDLE", "WRITE", "DISPATCH", "DONE"}
  BY DEF IInv, HostTypes, TypeOK, DispInv
<1>4. \A t \in wr_en : wr_data[t] \in Orders
  BY NoPushLane DEF IInv, PushInv
<1>5. DispInv'
  <2> HIDE DEF wr_en, wr_data
  <2>1. wr_en \in SUBSET Lanes
    BY DEF wr_en
  <2> QED BY <1>2, <1>3, <1>4, <2>1, ClockInv
<1>6. ASSUME state = "WRITE", NEW s \in Lanes PROVE written'[s] = Stored(s)
  <2>1. written'[s] = IF s \in Stores(wr_en) THEN Append(written[s], wr_data[s]) ELSE written[s]
    BY <1>2, <1>6 DEF Clock
  <2>2. s \in Stores(wr_en) <=> avl_push.lane = s
    <3>1. CASE avl_push.lane = s
      <4>1. avl_push # NoPush
        BY <3>1, NoPushLane
      <4>2. Len(written[s]) < Depth
        BY <1>6, <3>1, <4>1 DEF IInv, PushInv
      <4>3. ~Full(fifo[s])
        BY <1>3, <1>6, <4>2, WritingLane, DispatcherAssumption
      <4> QED BY <1>6, <3>1, <4>3 DEF Stores
    <3>2. CASE avl_push.lane # s
      BY <3>2 DEF Stores
    <3> QED BY <3>1, <3>2
  <2> QED BY <2>1, <2>2 DEF Stored
<1>7. state # "WRITE" => written' = written
  <2>1. SUFFICES ASSUME state # "WRITE" PROVE \A s \in Lanes : written'[s] = written[s]
    BY <1>2, <1>3, <1>5 DEF DispInv
  <2> QED BY <1>2, <2>1 DEF Clock, Stores
<1>8. state # "DISPATCH" => busy' \subseteq busy
  BY <1>2 DEF Clock, Takes, OutValid
<1>9. /\ state = "IDLE" => state' = (IF key1 = 1 THEN "WRITE" ELSE "IDLE")
      /\ state = "WRITE" => state' = (IF key2 = 1 THEN "DISPATCH" ELSE "WRITE")
      /\ state = "DISPATCH" => state' \in {"DISPATCH", "DONE"}
      /\ state = "DONE" => state' = "DONE"
  BY <1>2 DEF Clock, NextState
<1>10. key1 = 1 => pc \in {"start", "wait_write"} /\ ~seen'
  BY <1>1 DEF Patient
<1>11. key2 = 1 => seen /\ (pc = "filled" \/ rushed')
  <2>1. key2 = 1 => key1 + key2 > 0
    OBVIOUS
  <2>2. rushed' = (rushed \/ (key2 = 1 /\ pc # "filled"))
    BY <1>1
  <2> QED BY <1>1, <2>1, <2>2, Zenon
<1>12. seen' \in BOOLEAN /\ rushed' \in BOOLEAN /\ (rushed => rushed') /\ (seen' => seen \/ reads)
  BY <1>1, <1>3
<1> QED BY <1>2, <1>5, <1>6, <1>7, <1>8, <1>9, <1>10, <1>11, <1>12

\* Lanes that hold all that was pushed, or all but the last push of one lane.
LEMMA AllStored ==
  ASSUME \A s \in Lanes : pushed'[s] \in Seq(Orders) /\ Stored(s)' = pushed'[s]
  PROVE  LostAtMostOne' /\ NoLoss'
<1>1. \A s \in Lanes : Len(pushed'[s]) \in {Len(pushed'[s]) - 1, Len(pushed'[s])}
  OBVIOUS
<1> QED BY <1>1 DEF LostAtMostOne, NoLoss

LEMMA OneShort ==
  ASSUME NEW l \in Lanes, NEW order \in Orders,
         \A s \in Lanes : Stored(s)' \in Seq(Orders),
         \A s \in Lanes \ {l} : pushed'[s] = Stored(s)',
         pushed'[l] = Append(Stored(l)', order)
  PROVE  LostAtMostOne'
<1>1. /\ Len(Stored(l)') = Len(pushed'[l]) - 1
      /\ \A i \in 1 .. Len(Stored(l)') : Stored(l)'[i] = pushed'[l][i]
  <2> DEFINE q == Stored(l)'
  <2>1. q \in Seq(Orders) /\ pushed'[l] = Append(q, order)
    OBVIOUS
  <2> HIDE DEF q
  <2>2. Len(q) = Len(pushed'[l]) - 1 /\ \A i \in 1 .. Len(q) : q[i] = pushed'[l][i]
    BY <2>1
  <2> QED BY <2>2 DEF q
<1>2. ASSUME NEW s \in Lanes
      PROVE  /\ Len(Stored(s)') \in {Len(pushed'[s]) - 1, Len(pushed'[s])}
             /\ \A i \in 1 .. Len(Stored(s)') : Stored(s)'[i] = pushed'[s][i]
             /\ \A t \in Lanes \ {s} : Stored(s)' = pushed'[s] \/ Stored(t)' = pushed'[t]
  <2>1. CASE s = l
    BY <1>1, <2>1
  <2>2. CASE s # l
    BY <2>2
  <2> QED BY <2>1, <2>2
<1> QED BY <1>2 DEF LostAtMostOne

\* Where KEY2 finds the harness ready, and what follows.
Late == {"filled", "trading", "poll", "finished", "failed"}

\* What a step of the host that writes no push does.
QuietMove(reads) ==
  /\ pushed' = pushed
  /\ pc = "start" => pc' = "start"
  /\ pc' = "start" => pc = "start" \/ (state = "IDLE" /\ pc # "wait_write")
  /\ pc' = "wait_write" => pc = "wait_write"
  /\ pc' = pc /\ pc \in {"start", "wait_write"} => ~reads \/ state = "IDLE"
  /\ pc' = "write" => lane' = lane /\ (pc = "write" \/ (pc = "push" /\ WrReady(lane)))
  /\ pc \in Late /\ state # "IDLE" => pc' \in Late
  /\ pc' = "finished" => state = "DONE" /\ busy = {}

\* An edge without a new push stores the one on its way, if the lanes are
\* still written, and drops it otherwise.
LEMMA QuietStored ==
  ASSUME Patient, IInv, NEW reads \in BOOLEAN, Tick(NoPush, reads), NEW s \in Lanes
  PROVE  /\ Stored(s)' = written'[s] /\ Stored(s)' \in Seq(Orders)
         /\ state = "WRITE" => Stored(s)' = Stored(s)
         /\ state # "WRITE" => Stored(s)' = written[s]
         /\ avl_push = NoPush => Stored(s)' = Stored(s)
<1>1. avl_push' = NoPush /\ DispInv'
  BY TickEffect
<1>2. Stored(s)' = written'[s] /\ (avl_push = NoPush => Stored(s) = written[s])
  BY <1>1, NoPushLane DEF Stored
<1>3. written'[s] \in Seq(Orders)
  BY <1>1 DEF DispInv
<1> QED BY <1>2, <1>3, TickEffect

LEMMA QuietLoss ==
  ASSUME Patient, IInv, NEW reads \in BOOLEAN, Tick(NoPush, reads), QuietMove(reads), HostTypes'
  PROVE  LossInv' /\ RushInv'
<1> USE DEF QuietMove
<1>0. /\ \A s \in Lanes : pushed'[s] \in Seq(Orders) /\ pushed'[s] = pushed[s]
      /\ state \in {"IDLE", "WRITE", "DISPATCH", "DONE"}
      /\ avl_push' = NoPush
  BY TickEffect DEF HostTypes, TypeOK, IInv, DispInv
<1>1. CASE state = "WRITE"
  <2>1. CASE pc = "start"
    <3>1. pc' = "start" /\ state' = "WRITE"
      BY <1>1, <2>1, TickEffect DEF IInv, StartInv
    <3> QED BY <3>1 DEF LossInv, LostAtMostOne, RushInv
  <2>2. CASE pc # "start"
    <3>1. NoLoss
      BY <1>1, <2>2 DEF IInv, LossInv
    <3>2. \A s \in Lanes : Stored(s)' = pushed'[s]
      BY <1>0, <1>1, <3>1, QuietStored DEF NoLoss
    <3>3. LostAtMostOne' /\ NoLoss'
      BY <1>0, <3>2, AllStored
    <3>4. state' \in {"DISPATCH", "DONE"} /\ ~rushed' => pc' \in Late
      BY <1>1, TickEffect DEF Late
    <3> QED BY <1>0, <3>3, <3>4 DEF LossInv, RushInv, Late
  <2> QED BY <2>1, <2>2
<1>2. CASE state = "IDLE"
  <2>1. CASE state' = "IDLE"
    BY <2>1 DEF LossInv, LostAtMostOne, RushInv
  <2>2. CASE state' # "IDLE"
    <3>1. state' = "WRITE" /\ pc \in {"start", "wait_write"}
      BY <1>2, <2>2, TickEffect
    <3>2. CASE pc' = "start"
      BY <3>1, <3>2 DEF LossInv, LostAtMostOne, RushInv
    <3>3. CASE pc' # "start"
      <4>1. pc = "wait_write"
        BY <3>1, <3>3
      <4>2. \A s \in Lanes : Stored(s)' = pushed'[s]
        BY <1>0, <1>2, <4>1, QuietStored DEF IInv, StartInv
      <4>3. LostAtMostOne' /\ NoLoss'
        BY <1>0, <4>2, AllStored
      <4> QED BY <3>1, <4>3 DEF LossInv, RushInv
    <3> QED BY <3>2, <3>3
  <2> QED BY <2>1, <2>2
<1>3. CASE state \in {"DISPATCH", "DONE"}
  <2>1. pc # "start" /\ state' \in {"DISPATCH", "DONE"} /\ (rushed => rushed')
    BY <1>3, TickEffect DEF IInv, StartInv
  <2>2. CASE avl_push = NoPush
    <3>1. \A s \in Lanes : Stored(s)' = Stored(s) /\ pushed'[s] = pushed[s]
      BY <1>0, <2>2, QuietStored
    <3>2. LostAtMostOne'
      BY <1>3, <2>1, <3>1 DEF IInv, LossInv, LostAtMostOne
    <3>3. NoLoss => NoLoss'
      BY <3>1 DEF NoLoss
    <3>4. pc' = "write" => NoLoss
      BY <1>3, <2>1 DEF IInv, LossInv, WrReady
    <3>5. ~rushed' => pc' \in Late /\ NoLoss
      BY <1>3, <2>1 DEF IInv, RushInv, Late
    <3> QED BY <1>0, <2>1, <3>2, <3>3, <3>4, <3>5 DEF LossInv, RushInv, Late
  <2>3. CASE avl_push # NoPush
    <3>1. /\ avl_push.lane \in Lanes /\ avl_push.order \in Orders /\ NoLoss
          /\ pc \in {"refresh", "failed"}
      BY <2>3 DEF IInv, PushInv
    <3>2. \A s \in Lanes : Stored(s)' = written[s] /\ Stored(s)' \in Seq(Orders)
      BY <1>3, QuietStored
    <3>3. PICK l \in Lanes : l = avl_push.lane
      BY <3>1
    <3>4. /\ \A s \in Lanes \ {l} : pushed'[s] = Stored(s)'
          /\ pushed'[l] = Append(Stored(l)', avl_push.order)
      BY <1>0, <3>1, <3>2, <3>3 DEF NoLoss, Stored
    <3>5. LostAtMostOne'
      BY <3>1, <3>2, <3>4, OneShort
    <3>6. pc' # "write" /\ rushed
      BY <1>3, <2>3, <3>1 DEF IInv, RushInv
    <3> QED BY <2>1, <3>5, <3>6 DEF LossInv, RushInv
  <2> QED BY <2>2, <2>3
<1> QED BY <1>0, <1>1, <1>2, <1>3

\* An edge without a new push keeps the invariant.
LEMMA QuietInv ==
  ASSUME Patient, IInv, NEW reads \in BOOLEAN, Tick(NoPush, reads), QuietMove(reads), HostTypes'
  PROVE  IInv'
<1> USE DEF QuietMove
<1>0. /\ DispInv' /\ avl_push' = NoPush /\ DispInv /\ pushed' = pushed
      /\ state \in {"IDLE", "WRITE", "DISPATCH", "DONE"}
  BY TickEffect DEF IInv, DispInv
<1>1. StartInv'
  <2> SUFFICES ASSUME pc' \in {"start", "wait_write"}
               PROVE  /\ state' \in {"IDLE", "WRITE"} /\ (state' = "WRITE" => ~seen')
                      /\ \A s \in Lanes : written'[s] = <<>>
                                          /\ (pc' = "wait_write" => pushed'[s] = <<>>)
    BY <1>0 DEF StartInv
  <2>1. CASE pc \in {"start", "wait_write"}
    <3>1. /\ state \in {"IDLE", "WRITE"} /\ (state = "WRITE" => ~seen) /\ avl_push = NoPush
          /\ \A s \in Lanes : written[s] = <<>> /\ (pc = "wait_write" => pushed[s] = <<>>)
      BY <2>1 DEF IInv, StartInv
    <3>2. \A s \in Lanes : written'[s] = <<>>
      BY <3>1, TickEffect, NoPushLane DEF Stored
    <3>3. pc' = pc
      BY <2>1, <3>1
    <3>4. CASE state = "IDLE"
      BY <1>0, <3>1, <3>2, <3>3, <3>4, TickEffect
    <3>5. CASE state = "WRITE"
      <4>1. ~reads /\ ~seen
        BY <2>1, <3>1, <3>3, <3>5
      <4>2. state' = "WRITE" /\ ~seen'
        BY <3>5, <4>1, TickEffect
      <4> QED BY <1>0, <3>1, <3>2, <3>3, <4>2
    <3> QED BY <3>1, <3>4, <3>5
  <2>2. CASE pc \notin {"start", "wait_write"}
    <3>1. state = "IDLE" /\ pc' = "start"
      BY <2>2
    <3>2. state' = "IDLE"
      BY <2>2, <3>1, TickEffect
    <3>3. \A s \in Lanes : written'[s] = <<>>
      BY <1>0, <3>1, WritingLane, TickEffect
    <3> QED BY <3>1, <3>2, <3>3
  <2> QED BY <2>1, <2>2
<1>2. PushInv'
  BY <1>0 DEF PushInv
<1>3. RoomInv'
  <2> SUFFICES ASSUME pc' = "write", state' = "WRITE" PROVE Len(written'[lane']) < Depth
    BY DEF RoomInv
  <2>1. lane' = lane /\ (pc = "write" \/ (pc = "push" /\ WrReady(lane)))
    OBVIOUS
  <2>2. state = "WRITE" /\ avl_push = NoPush /\ lane \in Lanes
    BY <1>0, <2>1, TickEffect DEF IInv, PushInv, HostTypes
  <2>3. written'[lane] = written[lane]
    BY <2>2, TickEffect, NoPushLane DEF Stored
  <2>4. Len(written[lane]) < Depth
    <3>1. CASE pc = "write"
      BY <2>2, <3>1 DEF IInv, RoomInv
    <3>2. CASE WrReady(lane)
      BY <1>0, <2>2, <3>2, WritingLane, DispatcherAssumption DEF WrReady
    <3> QED BY <2>1, <3>1, <3>2
  <2> QED BY <2>1, <2>3, <2>4
<1>4. EndInv'
  <2>1. pc' = "finished" => state = "DONE" /\ busy = {}
    OBVIOUS
  <2> QED BY <2>1, TickEffect DEF EndInv
<1> QED BY <1>0, <1>1, <1>2, <1>3, <1>4, QuietLoss DEF IInv

-----------------------------------------------------------------------------
(* The steps.                                                               *)

\* Types when a step leaves the harness's counters alone.
LEMMA TypesKept ==
  ASSUME HostTypes, source' = source, row' = row, pushed' = pushed,
         seen' \in BOOLEAN, rushed' \in BOOLEAN, avl_push' = NoPush,
         pc' \in Writing \cup {"start", "wait_write", "filled", "trading", "poll",
                               "finished", "failed"},
         lane' \in 1 .. NumLanes + 1, lane_done' \subseteq Lanes, full_mask' \subseteq Lanes,
         pc' \in {"push", "write", "refresh"} => lane' \in Lanes,
         pc' \in {"push", "write"} => row[lane'] # 0
  PROVE  HostTypes'
<1>1. NoPush \in [lane : 0 .. NumLanes, order : Words]
  BY EntryAssumption DEF NoPush, Words
<1> QED BY <1>1 DEF HostTypes, TypeOK

LEMMA InitInv == Init => IInv
<1> SUFFICES ASSUME Init PROVE IInv
  OBVIOUS
<1> USE DEF Init
<1>1. DispInv /\ state = "IDLE" /\ busy = {} /\ \A s \in Lanes : written[s] = <<>>
  BY DispInitInv DEF DispInit
<1>2. HostTypes
  <2>1. NoPush \in [lane : 0 .. NumLanes, order : Words]
    BY EntryAssumption DEF NoPush, Words
  <2>2. source \in [Lanes -> Seq(Orders)] /\ 1 \in 1 .. NumLanes + 1
    BY EntryAssumption
  <2>3. \A s \in Lanes : Len(source[s]) \in Nat
    BY ONLY <2>2
  <2>4. \A s \in Lanes : row[s] <= Len(source[s])
    <3>1. ASSUME NEW s \in Lanes PROVE row[s] <= Len(source[s])
      <4>1. row[s] = 0
        OBVIOUS
      <4>2. \A n \in Nat : 0 <= n
        OBVIOUS
      <4>3. Len(source[s]) \in Nat
        BY <2>3
      <4> QED BY ONLY <4>1, <4>2, <4>3, Zenon
    <3> QED BY <3>1
  <2>5. row \in [Lanes -> Nat] /\ pushed \in [Lanes -> Seq(Orders)]
    OBVIOUS
  <2>6. TypeOK
    BY <2>1, <2>2, <2>5 DEF TypeOK
  <2> QED BY <2>2, <2>4, <2>6 DEF HostTypes
<1>3. StartInv /\ PushInv /\ RoomInv /\ LossInv /\ RushInv /\ EndInv
  BY <1>1 DEF StartInv, PushInv, RoomInv, LossInv, LostAtMostOne, RushInv, EndInv
<1> QED BY <1>1, <1>2, <1>3 DEF IInv

\* KEY0.
LEMMA ResetInv == IInv /\ Reset => IInv'
<1> SUFFICES ASSUME IInv, Reset PROVE IInv'
  OBVIOUS
<1>1. /\ DispReset /\ avl_push' = NoPush /\ seen' = seen /\ rushed' = rushed
      /\ source' = source /\ pc' = pc /\ lane' = lane /\ row' = row
      /\ lane_done' = lane_done /\ full_mask' = full_mask /\ pushed' = pushed
      /\ pc # "finished"
  BY DEF Reset, hostVars
<1>2. DispInv' /\ state' = "IDLE" /\ \A s \in Lanes : written'[s] = <<>>
  BY <1>1, DispResetInv DEF IInv, DispReset
<1>3. HostTypes'
  BY <1>1, TypesKept DEF IInv, HostTypes, TypeOK
<1>4. StartInv'
  BY <1>1, <1>2 DEF IInv, StartInv
<1>5. PushInv' /\ RoomInv' /\ LossInv' /\ RushInv' /\ EndInv'
  BY <1>1, <1>2 DEF PushInv, RoomInv, LossInv, LostAtMostOne, RushInv, EndInv
<1> QED BY <1>2, <1>3, <1>4, <1>5 DEF IInv

\* Steps that read a register, and the clock alone.
LEMMA ReadSteps ==
  ASSUME Patient, IInv,
         Idle \/ WaitWrite \/ Round \/ Push \/ Refresh \/ Filled \/ Trading \/ Poll
  PROVE  IInv'
<1>0. /\ HostTypes /\ lane \in 1 .. NumLanes + 1
      /\ lane_done \subseteq Lanes /\ full_mask \subseteq Lanes /\ FullMask \subseteq Lanes
      /\ 1 \in 1 .. NumLanes + 1 /\ NumLanes \in Nat /\ Lanes = 1 .. NumLanes
      /\ state \in {"IDLE", "WRITE", "DISPATCH", "DONE"}
      /\ pc \in Writing \cup {"start", "wait_write", "filled", "trading", "poll",
                              "finished", "failed"}
  <2>1. HostTypes /\ TypeOK /\ state \in {"IDLE", "WRITE", "DISPATCH", "DONE"}
    BY DEF IInv, HostTypes, DispInv
  <2>2. 1 \in 1 .. NumLanes + 1 /\ NumLanes \in Nat /\ Lanes = 1 .. NumLanes
    BY EntryAssumption
  <2>3. FullMask \subseteq Lanes
    BY DEF FullMask
  <2> QED BY <2>1, <2>2, <2>3 DEF TypeOK
<1>1. ASSUME NEW reads \in BOOLEAN, Tick(NoPush, reads)
      PROVE  seen' \in BOOLEAN /\ rushed' \in BOOLEAN /\ avl_push' = NoPush
  BY <1>1, TickEffect
<1>2. CASE Idle
  <2>1. /\ Tick(NoPush, FALSE) /\ source' = source /\ pc' = pc /\ lane' = lane /\ row' = row
        /\ lane_done' = lane_done /\ full_mask' = full_mask /\ pushed' = pushed
    BY <1>2 DEF Idle, hostVars
  <2>2. HostTypes'
    BY <1>0, <1>1, <2>1, TypesKept DEF HostTypes
  <2>3. QuietMove(FALSE)
    BY <2>1 DEF QuietMove, IInv, EndInv
  <2> QED BY <2>1, <2>2, <2>3, QuietInv
<1>3. CASE WaitWrite
  <2>1. /\ pc = "wait_write" /\ Tick(NoPush, TRUE) /\ source' = source /\ lane' = lane
        /\ row' = row /\ full_mask' = full_mask /\ pushed' = pushed
        /\ pc' = (IF state = "WRITE" THEN "round" ELSE "wait_write") /\ lane_done' \subseteq Lanes
    BY <1>0, <1>3 DEF WaitWrite, Read
  <2>2. HostTypes'
    BY <1>0, <1>1, <2>1, TypesKept DEF Writing
  <2>3. QuietMove(TRUE)
    BY <2>1 DEF QuietMove, Late, IInv, StartInv
  <2> QED BY <2>1, <2>2, <2>3, QuietInv
<1>4. CASE Round
  <2>1. /\ pc = "round" /\ Tick(NoPush, TRUE) /\ source' = source /\ lane' = 1
        /\ row' = row /\ full_mask' = FullMask /\ pushed' = pushed /\ lane_done' = lane_done
        /\ pc' \in {"filled", "failed", "lane"} \/ (pc' = "start" /\ state = "IDLE")
    BY <1>0, <1>4 DEF Round, Read
  <2>2. HostTypes'
    BY <1>0, <1>1, <2>1, TypesKept DEF Writing
  <2>3. QuietMove(TRUE)
    BY <2>1 DEF QuietMove, Late
  <2> QED BY <2>1, <2>2, <2>3, QuietInv
<1>5. CASE Push
  <2>1. /\ pc = "push" /\ Tick(NoPush, TRUE) /\ source' = source /\ lane' = lane
        /\ row' = row /\ full_mask' = full_mask /\ pushed' = pushed /\ lane_done' = lane_done
        /\ pc' \in {"push", "failed"} \/ (pc' = "write" /\ WrReady(lane))
    BY <1>0, <1>5 DEF Push, Read
  <2>2. HostTypes'
    BY <1>0, <1>1, <2>1, TypesKept DEF Writing, HostTypes
  <2>3. QuietMove(TRUE)
    BY <2>1 DEF QuietMove, Late
  <2> QED BY <2>1, <2>2, <2>3, QuietInv
<1>6. CASE Refresh
  <2>1. /\ pc = "refresh" /\ Tick(NoPush, TRUE) /\ source' = source /\ lane' = lane + 1
        /\ row' = row /\ full_mask' = FullMask /\ pushed' = pushed /\ lane_done' = lane_done
        /\ pc' \in {"filled", "lane"}
    BY <1>0, <1>6 DEF Refresh, Read
  <2>2. lane' \in 1 .. NumLanes + 1
    <3>1. lane \in 1 .. NumLanes
      BY <1>0, <2>1 DEF HostTypes
    <3> QED BY <1>0, <2>1, <3>1
  <2>3. HostTypes'
    BY <1>0, <1>1, <2>1, <2>2, TypesKept DEF Writing
  <2>4. QuietMove(TRUE)
    BY <2>1 DEF QuietMove, Late
  <2> QED BY <2>1, <2>3, <2>4, QuietInv
<1>7. CASE Filled \/ Trading \/ Poll
  <2>1. /\ pc \in {"filled", "trading", "poll"} /\ Tick(NoPush, TRUE) /\ source' = source
        /\ lane' = lane /\ row' = row /\ full_mask' = full_mask /\ pushed' = pushed
        /\ lane_done' = lane_done
        /\ \/ pc' \in {"filled", "trading", "poll", "failed"}
           \/ pc' = "start" /\ state = "IDLE"
           \/ pc' = "finished" /\ TradeDone
    <3>1. CASE Filled
      BY <1>0, <3>1 DEF Filled, Read, Dispatching
    <3>2. CASE Trading
      BY <1>0, <3>2 DEF Trading, Read
    <3>3. CASE Poll
      BY <1>0, <3>3 DEF Poll, Read
    <3> QED BY <1>7, <3>1, <3>2, <3>3
  <2>2. HostTypes'
    BY <1>0, <1>1, <2>1, TypesKept DEF Writing
  <2>3. QuietMove(TRUE)
    BY <2>1 DEF QuietMove, Late, TradeDone
  <2> QED BY <2>1, <2>2, <2>3, QuietInv
<1> QED BY <1>2, <1>3, <1>4, <1>5, <1>6, <1>7

\* A step between two register accesses, in which the harness only moves.
LEMMA HostMoves ==
  ASSUME IInv, UNCHANGED <<dispVars, avl_push, seen, rushed, pushed>>, HostTypes',
         pc \in {"round", "lane"} /\ pc' \in {"round", "lane", "push", "filled"}
  PROVE  IInv'
<1>1. /\ state' = state /\ written' = written /\ avl_push' = avl_push /\ pushed' = pushed
      /\ rushed' = rushed /\ avl_push = NoPush
  BY DEF dispVars, IInv, PushInv
<1>2. DispInv'
  BY DEF dispVars, IInv, DispInv, LaneInv, Occupancy
<1>3. (NoLoss => NoLoss') /\ (LostAtMostOne => LostAtMostOne')
  BY <1>1 DEF NoLoss, LostAtMostOne, Stored
<1>4. StartInv' /\ PushInv' /\ RoomInv' /\ EndInv'
  BY <1>1 DEF StartInv, PushInv, RoomInv, EndInv
<1>5. LossInv'
  BY <1>1, <1>3 DEF IInv, LossInv
<1>6. RushInv'
  BY <1>1, <1>3 DEF IInv, RushInv
<1> QED BY <1>2, <1>4, <1>5, <1>6 DEF IInv

LEMMA StartStep == IInv /\ Start => IInv'
<1> SUFFICES ASSUME IInv, Start PROVE IInv'
  OBVIOUS
<1>1. /\ pc = "start" /\ pc' = "wait_write" /\ row' = [s \in Lanes |-> 0]
      /\ pushed' = [s \in Lanes |-> <<>>] /\ rushed' = FALSE
      /\ source' = source /\ dispVars' = dispVars /\ avl_push' = avl_push /\ seen' = seen
      /\ lane' = lane /\ lane_done' = lane_done /\ full_mask' = full_mask
  BY DEF Start
<1>2. DispInv' /\ state' = state /\ written' = written
  BY <1>1 DEF dispVars, IInv, DispInv, LaneInv, Occupancy
<1>3. /\ state \in {"IDLE", "WRITE"} /\ (state = "WRITE" => ~seen)
      /\ avl_push = NoPush /\ \A s \in Lanes : written[s] = <<>>
  BY <1>1 DEF IInv, StartInv
<1>4. HostTypes'
  <2>1. HostTypes /\ TypeOK /\ row' \in [Lanes -> Nat] /\ pushed' \in [Lanes -> Seq(Orders)]
    BY <1>1 DEF IInv, HostTypes
  <2>2. TypeOK'
    BY <1>1, <2>1 DEF TypeOK
  <2>3. ASSUME NEW s \in Lanes PROVE row'[s] <= Len(source'[s])
    <3>1. row'[s] = 0 /\ Len(source'[s]) \in Nat
      BY <1>1, <2>1 DEF HostTypes
    <3>2. \A n \in Nat : 0 <= n
      OBVIOUS
    <3> QED BY ONLY <3>1, <3>2, Zenon
  <2> QED BY <1>1, <2>1, <2>2, <2>3 DEF HostTypes
<1>5. StartInv' /\ PushInv' /\ RoomInv' /\ EndInv' /\ RushInv'
  BY <1>1, <1>2, <1>3 DEF StartInv, PushInv, RoomInv, EndInv, RushInv
<1>6. LossInv'
  <2>1. \A s \in Lanes : pushed'[s] \in Seq(Orders) /\ Stored(s)' = pushed'[s]
    BY <1>1, <1>2, <1>3, NoPushLane DEF Stored
  <2> QED BY <2>1, AllStored DEF LossInv
<1> QED BY <1>2, <1>4, <1>5, <1>6 DEF IInv

LEMMA LoopSteps == IInv /\ (AllDone \/ Lane) => IInv'
<1> SUFFICES ASSUME IInv, AllDone \/ Lane PROVE IInv'
  OBVIOUS
<1>0. /\ HostTypes /\ TypeOK /\ NumLanes \in Nat /\ Lanes = 1 .. NumLanes
      /\ lane \in 1 .. NumLanes + 1 /\ row \in [Lanes -> Nat] /\ source \in [Lanes -> Seq(Orders)]
  BY EntryAssumption DEF IInv, HostTypes, TypeOK
<1>1. CASE AllDone
  <2>1. /\ pc = "round" /\ pc' = "filled"
        /\ UNCHANGED <<source, dispVars, avl_push, seen, rushed, lane, row, lane_done, full_mask, pushed>>
    BY <1>1 DEF AllDone
  <2>2. HostTypes'
    BY <1>0, <2>1 DEF HostTypes, TypeOK
  <2> QED BY <2>1, <2>2, HostMoves
<1>2. CASE Lane
  <2>1. /\ pc = "lane"
        /\ UNCHANGED <<source, dispVars, avl_push, seen, rushed, full_mask, pushed>>
        /\ \/ pc' = "round" /\ lane' = lane /\ row' = row /\ lane_done' = lane_done
           \/ /\ lane \in 1 .. NumLanes /\ lane' = lane + 1 /\ pc' = "lane" /\ row' = row
              /\ lane_done' = lane_done \/ lane_done' = lane_done \cup {lane}
           \/ /\ lane \in 1 .. NumLanes /\ row[lane] # Len(source[lane])
              /\ pc' = "push" /\ row' = [row EXCEPT ![lane] = row[lane] + 1]
              /\ lane' = lane /\ lane_done' = lane_done
    BY <1>0, <1>2 DEF Lane
  <2>2. /\ seen' = seen /\ rushed' = rushed /\ avl_push' = avl_push /\ full_mask' = full_mask
        /\ pushed' = pushed /\ source' = source
    BY <2>1
  <2>3. CASE row' = row /\ pc' \in {"round", "lane"}
    <3>1. lane' \in 1 .. NumLanes + 1 /\ lane_done' \subseteq Lanes
      <4>1. /\ lane' = lane \/ (lane \in 1 .. NumLanes /\ lane' = lane + 1)
            /\ lane_done' = lane_done \/ (lane \in 1 .. NumLanes /\ lane_done' = lane_done \cup {lane})
        BY <2>1, <2>3
      <4>2. lane' \in 1 .. NumLanes + 1
        BY <1>0, <4>1
      <4>3. lane_done' \subseteq Lanes
        BY <1>0, <4>1 DEF TypeOK
      <4> QED BY <4>2, <4>3
    <3>2. HostTypes'
      BY <1>0, <2>2, <2>3, <3>1 DEF HostTypes, TypeOK, Writing
    <3> QED BY <2>1, <2>3, <3>2, HostMoves
  <2>4. CASE pc' = "push"
    <3>1. /\ lane \in Lanes /\ row[lane] # Len(source[lane]) /\ lane' = lane
          /\ row' = [row EXCEPT ![lane] = row[lane] + 1] /\ lane_done' = lane_done
      BY <1>0, <2>1, <2>4
    <3>2. /\ row[lane] \in Nat /\ Len(source[lane]) \in Nat /\ row[lane] <= Len(source[lane])
      BY <1>0, <3>1 DEF HostTypes
    <3>3. row[lane] + 1 <= Len(source[lane]) /\ row[lane] + 1 \in Nat \ {0}
      BY <3>1, <3>2
    <3>4. row' \in [Lanes -> Nat] /\ row'[lane] = row[lane] + 1
          /\ \A s \in Lanes \ {lane} : row'[s] = row[s]
      BY <1>0, <3>1, <3>3
    <3>5. \A s \in Lanes : row'[s] <= Len(source'[s])
      BY <1>0, <2>2, <3>3, <3>4 DEF HostTypes
    <3>6. TypeOK'
      BY <1>0, <2>2, <2>4, <3>1, <3>4 DEF TypeOK, Writing
    <3>7. HostTypes'
      BY <1>0, <2>2, <2>4, <3>1, <3>3, <3>4, <3>5, <3>6 DEF HostTypes
    <3> QED BY <2>1, <2>4, <3>7, HostMoves
  <2> QED BY <2>1, <2>3, <2>4
<1> QED BY <1>1, <1>2

\* The PUSH register is written, or ignores the write.
LEMMA WriteStep == ASSUME Patient, IInv, Write PROVE IInv'
<1>1. /\ pc = "write" /\ pushed' = [pushed EXCEPT ![lane] = Append(pushed[lane], Order)]
      /\ pc' \in {"refresh", "failed"} /\ Tick(Accept, FALSE)
      /\ source' = source /\ lane' = lane /\ row' = row /\ lane_done' = lane_done
      /\ full_mask' = full_mask
  BY DEF Write
<1>2. /\ HostTypes /\ TypeOK /\ lane \in Lanes /\ DispInv
      /\ state \in {"IDLE", "WRITE", "DISPATCH", "DONE"}
  BY <1>1 DEF IInv, HostTypes, DispInv
<1>3. Order \in Orders
  <2>1. source[lane] \in Seq(Orders) /\ row[lane] \in Nat \ {0} /\ row[lane] <= Len(source[lane])
    BY <1>1, <1>2 DEF HostTypes, TypeOK
  <2>2. row[lane] \in 1 .. Len(source[lane])
    BY <2>1
  <2> QED BY <2>1, <2>2 DEF Order
<1>4. /\ DispInv' /\ avl_push' = Accept /\ seen' \in BOOLEAN /\ rushed' \in BOOLEAN
  BY <1>1, TickEffect
<1>5. /\ pushed \in [Lanes -> Seq(Orders)] /\ pushed' \in [Lanes -> Seq(Orders)]
      /\ pushed'[lane] = Append(pushed[lane], Order)
      /\ \A s \in Lanes \ {lane} : pushed'[s] = pushed[s]
  <2>1. pushed \in [Lanes -> Seq(Orders)]
    BY <1>2 DEF TypeOK
  <2>2. Append(pushed[lane], Order) \in Seq(Orders)
    BY <1>2, <1>3, <2>1
  <2> QED BY <1>1, <1>2, <2>1, <2>2
<1>6. avl_push = NoPush /\ \A s \in Lanes : Stored(s) = written[s]
  BY <1>1, NoPushLane DEF IInv, PushInv, Stored
<1>7. HostTypes'
  <2>1. Accept \in [lane : 0 .. NumLanes, order : Words]
    BY <1>2, <1>3, EntryAssumption DEF Accept, NoPush, Words
  <2>2. TypeOK'
    BY <1>1, <1>2, <1>4, <1>5, <2>1 DEF TypeOK, Writing
  <2> QED BY <1>1, <1>2, <2>2 DEF HostTypes
<1>8. CASE WrReady(lane)
  <2>1. state = "WRITE" /\ NoLoss /\ Len(written[lane]) < Depth
    BY <1>1, <1>8 DEF WrReady, IInv, LossInv, RoomInv
  <2>2. /\ \A s \in Lanes : written'[s] = written[s]
        /\ state' = "WRITE" \/ (state' = "DISPATCH" /\ rushed')
    BY <1>1, <1>6, <2>1, TickEffect
  <2>3. avl_push'.lane = lane /\ avl_push'.order = Order
    BY <1>4, <1>8 DEF Accept
  <2>4. \A s \in Lanes : Stored(s)' = pushed'[s]
    <3>1. \A s \in Lanes : written'[s] = pushed[s]
      BY <1>6, <2>1, <2>2 DEF NoLoss
    <3>2. ASSUME NEW s \in Lanes PROVE Stored(s)' = pushed'[s]
      <4>1. CASE s = lane
        BY <1>5, <2>3, <3>1, <4>1 DEF Stored
      <4>2. CASE s # lane
        BY <1>5, <2>3, <3>1, <4>2 DEF Stored
      <4> QED BY <4>1, <4>2
    <3> QED BY <3>2
  <2>5. LostAtMostOne' /\ NoLoss'
    BY <1>5, <2>4, AllStored
  <2>6. PushInv'
    BY <1>1, <1>2, <1>3, <2>1, <2>2, <2>3, <2>5 DEF PushInv
  <2>7. StartInv' /\ RoomInv' /\ LossInv' /\ RushInv' /\ EndInv'
    BY <1>1, <2>2, <2>5 DEF StartInv, RoomInv, LossInv, RushInv, EndInv
  <2> QED BY <1>4, <1>7, <2>6, <2>7 DEF IInv
<1>9. CASE ~WrReady(lane)
  <2>1. avl_push' = NoPush
    BY <1>4, <1>9 DEF Accept
  <2>2. state # "WRITE"
    BY <1>1, <1>2, <1>9, WritingLane, DispatcherAssumption DEF IInv, RoomInv, WrReady
  <2>3. StartInv' /\ PushInv' /\ RoomInv' /\ EndInv'
    BY <1>1, <2>1 DEF StartInv, PushInv, RoomInv, EndInv
  <2>4. LossInv' /\ RushInv'
    <3>1. CASE state = "IDLE"
      <4>1. state' = "IDLE"
        BY <1>1, <3>1, TickEffect
      <4> QED BY <4>1 DEF LossInv, LostAtMostOne, RushInv
    <3>2. CASE state \in {"DISPATCH", "DONE"}
      <4>1. NoLoss /\ rushed
        BY <1>1, <3>2 DEF IInv, LossInv, RushInv
      <4>2. state' \in {"DISPATCH", "DONE"} /\ rushed' /\ written' = written
        BY <1>1, <3>2, <4>1, TickEffect
      <4>3. \A s \in Lanes : Stored(s)' = pushed[s] /\ Stored(s)' \in Seq(Orders)
        BY <1>5, <1>6, <2>1, <4>1, <4>2, NoPushLane DEF Stored, NoLoss
      <4>4. PICK l \in Lanes : l = lane
        BY <1>2
      <4>5. /\ \A s \in Lanes \ {l} : pushed'[s] = Stored(s)'
            /\ pushed'[l] = Append(Stored(l)', Order)
        BY <1>5, <4>3, <4>4
      <4>6. LostAtMostOne'
        BY <1>3, <4>3, <4>5, OneShort
      <4> QED BY <1>1, <4>2, <4>6 DEF LossInv, RushInv
    <3> QED BY <1>2, <2>2, <3>1, <3>2
  <2> QED BY <1>4, <1>7, <2>3, <2>4 DEF IInv
<1> QED BY <1>8, <1>9

\* The invariant is inductive.
LEMMA NextInv == ASSUME Patient PROVE IInv /\ [Next]_vars => IInv'
<1> SUFFICES ASSUME IInv, [Next]_vars PROVE IInv'
  OBVIOUS
<1>1. CASE UNCHANGED vars
  <2>1. /\ UNCHANGED <<avl_push, seen, rushed, source, pc, lane, row, lane_done, full_mask, pushed>>
        /\ UNCHANGED <<state, fifo, busy, written, taken>>
    BY <1>1 DEF vars, hostVars, dispVars
  <2>2. DispInv'
    BY <2>1 DEF IInv, DispInv, LaneInv, Occupancy
  <2>3. HostTypes'
    BY <2>1 DEF IInv, HostTypes, TypeOK
  <2>4. (NoLoss => NoLoss') /\ (LostAtMostOne => LostAtMostOne')
    BY <2>1 DEF NoLoss, LostAtMostOne, Stored
  <2>5. StartInv' /\ PushInv' /\ RoomInv' /\ LossInv' /\ RushInv' /\ EndInv'
    BY <2>1, <2>4 DEF IInv, StartInv, PushInv, RoomInv, LossInv, RushInv, EndInv
  <2> QED BY <2>2, <2>3, <2>5 DEF IInv
<1>2. CASE Next
  BY <1>2, ReadSteps, ResetInv, StartStep, LoopSteps, WriteStep DEF Next, Host
<1> QED BY <1>1, <1>2

LEMMA AlwaysInv == ASSUME Patient PROVE Spec => []IInv
BY InitInv, NextInv, PTL DEF Spec

-----------------------------------------------------------------------------
(* The theorems.                                                            *)

\* No push the driver reported as done is lost as long as lanes are written,
\* and the harness's counters stay within lanes and files.
THEOREM NoPushIsLost == ASSUME Patient PROVE Spec => []StorageInv
<1>1. IInv => StorageInv
  <2> SUFFICES ASSUME IInv PROVE StorageInv
    OBVIOUS
  <2>1. TypeOK
    BY DEF IInv, HostTypes
  <2>2. PushesStored
    BY DEF IInv, LossInv, NoLoss, PushesStored
  <2> QED BY <2>1, <2>2 DEF StorageInv
<1> QED BY <1>1, AlwaysInv, PTL

\* When hft_log_wait_trade_done returns, the engines took exactly what was
\* pushed and are through with it, unless KEY2 came too early.
THEOREM TradeDoneIsComplete == ASSUME Patient PROVE Spec => []TradeDoneComplete
<1>1. IInv => TradeDoneComplete
  <2> SUFFICES ASSUME IInv, pc = "finished" PROVE busy = {} /\ (rushed \/ taken = pushed)
    BY DEF TradeDoneComplete
  <2>1. state = "DONE" /\ busy = {}
    BY DEF IInv, EndInv
  <2>2. ASSUME ~rushed PROVE taken = pushed
    <3>1. NoLoss /\ avl_push = NoPush
      BY <2>1, <2>2 DEF IInv, RushInv
    <3>2. ASSUME NEW s \in Lanes PROVE taken[s] = pushed[s]
      <4>1. written[s] = pushed[s]
        BY <3>1, NoPushLane DEF NoLoss, Stored
      <4>2. LaneInv(s) /\ Len(taken[s]) \in Nat /\ Len(written[s]) \in Nat
        BY DEF IInv, DispInv
      <4>3. Len(taken[s]) = Len(written[s])
        BY <2>1, <4>2 DEF LaneInv, Regs, Occupancy
      <4>4. taken[s] = written[s]
        BY <4>2, <4>3 DEF LaneInv
      <4> QED BY <4>1, <4>4
    <3> QED BY <3>2 DEF IInv, DispInv, HostTypes, TypeOK
  <2> QED BY <2>1, <2>2
<1> QED BY <1>1, AlwaysInv, PTL

\* A KEY2 that comes between the driver's check of STATUS and the store costs
\* at most the push that is under way.
THEOREM HasteCostsAtMostOne == ASSUME Patient PROVE Spec => []LostAtMostOne
<1>1. IInv => LostAtMostOne
  BY DEF IInv, LossInv
<1> QED BY <1>1, AlwaysInv, PTL
=============================================================================
