----------------------------- MODULE OrderEntry ------------------------------
(***************************************************************************)
(* How orders get from the CSV files into the dispatcher and to the        *)
(* engines: the harness's main loop (HFT_harness.c), the push ioctl of the *)
(* driver (HFT_drivers.c), the Avalon push register and the buttons        *)
(* (HFT_SIM.sv), and the dispatcher.                                       *)
(*                                                                         *)
(* The host runs at its own pace.  An access of a device register takes    *)
(* place at some clock edge and sees the registers as they are before that *)
(* edge; what the host computes between two accesses is a step of its own. *)
(* The harness is the only user of the device, so that the driver's mutex  *)
(* is always free.                                                         *)
(***************************************************************************)
EXTENDS OrderDispatcher, FiniteSets

CONSTANTS
  NumLanes,   \* Lanes = 1 .. NumLanes
  Sources,    \* the contents the lanes' CSV files may have
  Rush        \* buttons the operator may press when the harness is not ready

ASSUME EntryAssumption ==
  /\ NumLanes \in Nat \ {0} /\ Lanes = 1 .. NumLanes
  /\ Sources \subseteq [Lanes -> Seq(Orders)]
  /\ Rush \subseteq {"KEY1", "KEY2"}

VARIABLES
  source,      \* the orders in each lane's CSV file; never changes
  seen,        \* the host read a register since the last KEY1 or KEY2
  avl_push,    \* avl_disp_push_en and _data: the push to store at the next edge
  pc,          \* where the harness is
  lane,        \* its loop variable
  row,         \* rows read from each CSV file
  lane_done,   \* lanes whose file is exhausted
  full_mask,   \* full lanes, as of the last status it read
  pushed,      \* ghost: orders whose push the driver reported as done
  rushed       \* ghost: KEY2 came in this session before the harness was ready

hostVars == <<source, pc, lane, row, lane_done, full_mask, pushed>>
vars == <<dispVars, avl_push, seen, rushed, hostVars>>

NoPush == [lane |-> 0, order |-> NoOrder]

Writing == {"round", "lane", "push", "write", "refresh"}

Init ==
  /\ DispInit
  /\ avl_push = NoPush /\ seen = TRUE /\ rushed = FALSE
  /\ source \in Sources
  /\ pc = "start" /\ lane = 1 /\ lane_done = {} /\ full_mask = {}
  /\ row = [s \in Lanes |-> 0]
  /\ pushed = [s \in Lanes |-> <<>>]

-----------------------------------------------------------------------------
(* The hardware.                                                            *)

FullMask == {s \in Lanes : Full(fifo[s])}

\* Mutant: the push is not a pulse of one cycle.
Edge_Sticky(key1, key2, finished, push) ==
  /\ Clock(key1, key2, FALSE, {avl_push.lane} \cap Lanes,
           [s \in Lanes |-> avl_push.order], finished)
  /\ avl_push' = IF push = NoPush THEN avl_push ELSE push

\* The word of a push reaches its lane one edge after the bus write.
Edge(key1, key2, finished, push) ==
  /\ Clock(key1, key2, FALSE, {avl_push.lane} \cap Lanes,
           [s \in Lanes |-> avl_push.order], finished)
  /\ avl_push' = push

\* A clock edge.  KEY1 is for when the harness is about to wait for it, KEY2
\* for when all was written.  Fingers are slow: between two presses the harness, which
\* polls every few milliseconds, reads a register at least once.
Tick(push, polls) ==
  \E key1, key2 \in {0, 1}, finished \in SUBSET busy :
    /\ key1 + key2 > 0 => seen
    /\ key1 = 1 => pc \in {"start", "wait_write"} \/ "KEY1" \in Rush
    /\ key2 = 1 => pc = "filled" \/ "KEY2" \in Rush
    /\ Edge(key1 = 1, key2 = 1, finished, push)
    /\ seen' = IF key1 + key2 > 0 THEN FALSE ELSE seen \/ polls
    /\ rushed' = (rushed \/ (key2 = 1 /\ pc # "filled"))

Read == Tick(NoPush, TRUE)
Idle == Tick(NoPush, FALSE) /\ UNCHANGED hostVars

\* KEY0, at any moment of a session.
Reset ==
  /\ pc \notin {"finished", "failed"}
  /\ DispReset
  /\ avl_push' = NoPush
  /\ UNCHANGED <<seen, rushed, hostVars>>

-----------------------------------------------------------------------------
(* The harness.                                                             *)

\* Rewind the files.  (Clearing the log is a step of TradePath.)
Start ==
  /\ pc = "start"
  /\ pc' = "wait_write"
  /\ row' = [s \in Lanes |-> 0]
  /\ pushed' = [s \in Lanes |-> <<>>] /\ rushed' = FALSE
  /\ UNCHANGED <<source, dispVars, avl_push, seen, lane, lane_done, full_mask>>

\* hft_disp_wait_state(WRITE), no timeout, no check for a reset.
WaitWrite ==
  /\ pc = "wait_write"
  /\ IF state = "WRITE" THEN pc' = "round" /\ lane_done' = {}
                        ELSE UNCHANGED <<pc, lane_done>>
  /\ Read
  /\ UNCHANGED <<source, lane, row, full_mask, pushed>>

\* The head of hft_write_orders_round_robin's loop.
AllDone ==
  /\ pc = "round" /\ lane_done = Lanes
  /\ pc' = "filled"
  /\ UNCHANGED <<source, dispVars, avl_push, seen, rushed, lane, row, lane_done, full_mask, pushed>>

Round ==
  /\ pc = "round" /\ lane_done # Lanes
  /\ pc' = CASE FullMask = Lanes -> "filled"
             [] FullMask # Lanes /\ state = "IDLE" -> "start"
             [] FullMask # Lanes /\ state \in {"DISPATCH", "DONE"} -> "failed"
             [] OTHER -> "lane"
  /\ lane' = 1 /\ full_mask' = FullMask
  /\ Read
  /\ UNCHANGED <<source, row, lane_done, pushed>>

\* One pass of the inner loop up to the push: a lane that is done or was seen
\* full is skipped, an exhausted file makes its lane done.
Lane ==
  /\ pc = "lane"
  /\ IF lane > NumLanes
     THEN pc' = "round" /\ UNCHANGED <<lane, row, lane_done>>
     ELSE IF lane \in lane_done \cup full_mask
     THEN lane' = lane + 1 /\ UNCHANGED <<pc, row, lane_done>>
     ELSE IF row[lane] = Len(source[lane])
     THEN lane_done' = lane_done \cup {lane} /\ lane' = lane + 1 /\ UNCHANGED <<pc, row>>
     ELSE pc' = "push" /\ row' = [row EXCEPT ![lane] = @ + 1] /\ UNCHANGED <<lane, lane_done>>
  /\ UNCHANGED <<source, dispVars, avl_push, seen, rushed, full_mask, pushed>>

\* Mutant: the driver does not look at STATUS.
Push_NoCheck ==
  /\ pc = "push"
  /\ pc' = "write"
  /\ Read
  /\ UNCHANGED <<source, lane, row, lane_done, full_mask, pushed>>

\* hft_disp_push_order_hw reads STATUS; on EAGAIN or EBUSY the harness tries
\* again until two seconds have passed.
Push ==
  /\ pc = "push"
  /\ pc' \in IF WrReady(lane) THEN {"write"} ELSE {"push", "failed"}
  /\ Read
  /\ UNCHANGED <<source, lane, row, lane_done, full_mask, pushed>>

Order == source[lane][row[lane]]

\* The PUSH register ignores a write while its lane is not ready.
Accept == IF WrReady(lane) THEN [lane |-> lane, order |-> Order] ELSE NoPush

\* The driver writes the PUSH register and reports success; only here does
\* the harness look at the deadline of the whole loop.
Write ==
  /\ pc = "write"
  /\ pushed' = [pushed EXCEPT ![lane] = Append(@, Order)]
  /\ pc' \in {"refresh", "failed"}
  /\ Tick(Accept, FALSE)
  /\ UNCHANGED <<source, lane, row, lane_done, full_mask>>

Refresh ==
  /\ pc = "refresh"
  /\ pc' = IF FullMask = Lanes THEN "filled" ELSE "lane"
  /\ lane' = lane + 1 /\ full_mask' = FullMask
  /\ Read
  /\ UNCHANGED <<source, row, lane_done, pushed>>

\* Mutant: only DISPATCH is waited for, and may be over before it is seen.
Dispatching_NotDone == state = "DISPATCH"

Dispatching == state \in {"DISPATCH", "DONE"}

\* hft_disp_wait_dispatch_or_done.
Filled ==
  /\ pc = "filled"
  /\ pc' = CASE Dispatching -> "trading"
             [] state = "IDLE" -> "start"
             [] OTHER -> "filled"
  /\ Read
  /\ UNCHANGED <<source, lane, row, lane_done, full_mask, pushed>>

\* hft_log_wait_trade_done: STATUS, for a reset, then LOG_INFO, for trade_done.
Trading ==
  /\ pc = "trading"
  /\ pc' = IF state = "IDLE" THEN "start" ELSE "poll"
  /\ Read
  /\ UNCHANGED <<source, lane, row, lane_done, full_mask, pushed>>

\* Mutant: trade_done does not wait for the dispatcher.
TradeDone_EnginesOnly == busy = {}

TradeDone == state = "DONE" /\ busy = {}

\* Ten minutes without trade_done end the session.
Poll ==
  /\ pc = "poll"
  /\ pc' \in IF TradeDone THEN {"finished"} ELSE {"trading", "failed"}
  /\ Read
  /\ UNCHANGED <<source, lane, row, lane_done, full_mask, pushed>>

Host ==
  \/ Start \/ WaitWrite \/ AllDone \/ Round \/ Lane \/ Push \/ Write \/ Refresh
  \/ Filled \/ Trading \/ Poll

Next == Idle \/ Reset \/ Host

Spec == Init /\ [][Next]_vars

\* Clock, host and engines go on; a push that never finds its lane ready times
\* out; the operator presses KEY2 when asked to.
EngineEnds(s) == s \in busy /\ Idle /\ s \notin busy'
PushTimeout == Push /\ pc' = "failed"
PressKey2 == state = "WRITE" /\ pc = "filled" /\ Idle /\ state' = "DISPATCH"

FairSpec ==
  /\ Spec
  /\ WF_vars(Idle) /\ WF_vars(Host) /\ WF_vars(PushTimeout) /\ SF_vars(PressKey2)
  /\ \A s \in Lanes : WF_vars(EngineEnds(s))

-----------------------------------------------------------------------------
(* Properties.                                                              *)

\* What a lane holds or is about to hold.
Stored(s) == IF avl_push.lane = s THEN Append(written[s], avl_push.order) ELSE written[s]

TypeOK ==
  /\ seen \in BOOLEAN /\ rushed \in BOOLEAN /\ avl_push \in [lane : 0 .. NumLanes, order : Words]
  /\ pc \in Writing \cup {"start", "wait_write", "filled", "trading", "poll",
                          "finished", "failed"}
  /\ lane \in 1 .. NumLanes + 1
  /\ row \in [Lanes -> Nat]
  /\ lane_done \subseteq Lanes /\ full_mask \subseteq Lanes
  /\ pushed \in [Lanes -> Seq(Orders)]

\* Every order whose push was reported as done is in its lane, or in the
\* push register on its way there: neither the status the driver checked
\* earlier nor a lane that just filled up can lose one.
PushesStored == state = "WRITE" /\ pc # "start" => \A s \in Lanes : Stored(s) = pushed[s]

\* The harness' counters stay within the files and lanes, and no push that was
\* reported as done is lost.
StorageInv == TypeOK /\ PushesStored

\* When the harness sees trade_done, the engines are through with all they
\* took, which is exactly what it pushed (unless KEY2 cut it short).
TradeDoneComplete == pc = "finished" => busy = {} /\ (rushed \/ taken = pushed)

\* A KEY2 that comes between the driver's check and the store costs at most
\* the one order being pushed, and never the order of the others (a reset,
\* which empties the lanes, leads to IDLE).
LostAtMostOne ==
  state # "IDLE" /\ pc # "start" => \A s \in Lanes :
    /\ Len(Stored(s)) \in {Len(pushed[s]) - 1, Len(pushed[s])}
    /\ \A i \in 1 .. Len(Stored(s)) : Stored(s)[i] = pushed[s][i]
    /\ \A t \in Lanes \ {s} : Stored(s) = pushed[s] \/ Stored(t) = pushed[t]

\* The write loop ends: by full lanes, by exhausted files, or by its timeout.
WriteEnds == pc \in Writing ~> pc \notin Writing

\* A session that was begun comes to an end or, after a reset at whatever
\* moment, is started over: the harness is never stuck in a poll.
SessionEnds == pc = "round" ~> pc \in {"finished", "failed", "start"}
=============================================================================
