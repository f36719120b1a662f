----------------------------- MODULE TradePath ------------------------------
(***************************************************************************)
(* How trades get from the engines to the host: the round-robin merge      *)
(* (trade_aggregator.sv), the log (trade_log.sv), its Avalon registers     *)
(* (HFT_SIM.sv) and the log ioctls of the driver (HFT_drivers.c), which    *)
(* any number of processes may call.                                       *)
(*                                                                         *)
(* An Edge is one clock edge of aggregator, log and Avalon registers.  An  *)
(* access of a register by the driver takes place at an edge and sees the  *)
(* registers as they are before it.  What the engines do at an edge is     *)
(* shown as steps of their own between that edge and the next one.         *)
(*                                                                         *)
(* A trade's price and time are carried along unchanged; its number among  *)
(* the trades of its engine stands for both.  wr_ptr of the log is always  *)
(* count_reg and is left out.                                              *)
(***************************************************************************)
EXTENDS Integers, Sequences

CONSTANTS
  N,          \* engines (8)
  LogDepth,   \* LOG_DEPTH (8704)
  AmtSpan,    \* 2^7: the log keeps seven bits of an amount
  Amounts,    \* amounts of the trades made
  MaxTrades,  \* bound: trades of one engine, one fewer after each reset
  Procs,      \* processes that have the device open
  NoProc,     \* the mutex is free
  PollLimit,  \* times LOG_INFO is polled for one entry (1000)
  MaxResets   \* bound: presses of KEY0

ASSUME TradeAssumption ==
  /\ N \in Nat \ {0} /\ LogDepth \in Nat \ {0} /\ AmtSpan \in Nat \ {0}
  /\ Amounts \subseteq Nat \ {0} /\ MaxTrades \in Nat /\ MaxResets \in Nat
  /\ PollLimit \in Nat \ {0} /\ NoProc \notin Procs

Engines == 0 .. N - 1

VARIABLES
  state,      \* of the dispatcher; WRITE is not told from IDLE
  working,    \* engines that are not idle
  offer,      \* the amount an engine in T_EMIT_TRADE wants to report, or 0
  made,       \* trades each engine has made
  rr_ptr,     \* trade_aggregator
  log,        \* trade_log: mem, count_reg, overflow_reg, sw_rdata
  avl,        \* the log registers of the Avalon slave
  lock,       \* dev.lock: the process that holds it
  ppc,        \* where each process is in its ioctl
  index,      \* the entry it asks for
  polls,      \* polls left
  got,        \* the entry it has put together
  resets,
  given,      \* ghost: amounts each engine handed over, oldest first
  base,       \* ghost: how many of them up to the last clear, that edge included
  waited      \* ghost: handshakes of others since an engine made its offer

engVars  == <<state, working, offer, made>>
hwVars   == <<rr_ptr, log, avl>>
procVars == <<lock, ppc, index, polls, got>>
ghosts   == <<given, base, waited>>
vars     == <<engVars, hwVars, procVars, resets, ghosts>>

ZeroEntry == [engine_id |-> 0, amount |-> 0, ts |-> 0]

\* TRADE_LOG_ENTRY of the n-th trade of engine e.
Compact(e, amt, n) == [engine_id |-> e, amount |-> amt % AmtSpan, ts |-> n]

Init ==
  /\ state = "IDLE" /\ working = {}
  /\ offer = [e \in Engines |-> 0] /\ made = [e \in Engines |-> 0]
  /\ rr_ptr = 0
  /\ log = [mem |-> [i \in 0 .. LogDepth - 1 |-> ZeroEntry], count |-> 0,
            overflow |-> FALSE, sw_rdata |-> ZeroEntry]
  /\ avl = [clear |-> FALSE, read |-> FALSE, index |-> 0, pipe |-> 0,
            shadow |-> ZeroEntry, data_valid |-> FALSE]
  /\ lock = NoProc /\ ppc = [p \in Procs |-> "out"]
  /\ index = [p \in Procs |-> 0] /\ polls = [p \in Procs |-> 0]
  /\ got = [p \in Procs |-> ZeroEntry]
  /\ resets = 0
  /\ given = [e \in Engines |-> <<>>] /\ base = [e \in Engines |-> 0]
  /\ waited = [e \in Engines |-> 0]

-----------------------------------------------------------------------------
(* The engines and the dispatcher, as far as trades go.                     *)

\* KEY2.
Begin ==
  /\ state = "IDLE"
  /\ state' = "DISPATCH"
  /\ UNCHANGED <<working, offer, made, hwVars, procVars, resets, ghosts>>

TakeOrder(e) ==
  /\ state = "DISPATCH" /\ e \notin working
  /\ working' = working \cup {e}
  /\ UNCHANGED <<state, offer, made, hwVars, procVars, resets, ghosts>>

MakeTrade(e) ==
  /\ e \in working /\ offer[e] = 0 /\ made[e] + resets < MaxTrades
  /\ \E amt \in Amounts : offer' = [offer EXCEPT ![e] = amt]
  /\ made' = [made EXCEPT ![e] = @ + 1]
  /\ waited' = [waited EXCEPT ![e] = 0]
  /\ UNCHANGED <<state, working, hwVars, procVars, resets, given, base>>

Rest(e) ==
  /\ e \in working /\ offer[e] = 0
  /\ working' = working \ {e}
  /\ UNCHANGED <<state, offer, made, hwVars, procVars, resets, ghosts>>

\* The last order was taken; engines may still be matching.  An ioctl takes
\* microseconds: none outlives a reset and the next session's orders.
Dispatched ==
  /\ state = "DISPATCH"
  /\ \A p \in Procs : ppc[p] \in {"out", "clear", "check"}
  /\ state' = "DONE"
  /\ UNCHANGED <<working, offer, made, hwVars, procVars, resets, ghosts>>

-----------------------------------------------------------------------------
(* Hardware.                                                                *)

\* Mutant: the scan stops one engine short.
Valid_Short == {e \in Engines : offer[e] # 0 /\ (e - rr_ptr) % N < N - 1}

Valid == {e \in Engines : offer[e] # 0}

\* Mutant: the scan starts at engine 0 every time.
Selected_FromZero == CHOOSE e \in Valid : \A f \in Valid : e <= f

\* Distance of engine e from the round-robin pointer.
Dist(e) == (e - rr_ptr) % N

Selected == CHOOSE e \in Valid : \A f \in Valid : Dist(e) <= Dist(f)

\* Mutant: the log is ready also when it is full.
Ready_Always == TRUE

\* trade_in_ready.
Ready == log.count < LogDepth

Handshake == Valid # {} /\ Ready

PtrNext == (Selected + 1) % N

\* trade_aggregator: the winner's trade is handed over, the pointer moves on.
AggNext ==
  IF Handshake
  THEN /\ rr_ptr' = PtrNext
       /\ offer' = [offer EXCEPT ![Selected] = 0]
       /\ given' = [given EXCEPT ![Selected] = Append(@, offer[Selected])]
       /\ waited' = [e \in Engines |-> IF e \in Valid \ {Selected} THEN waited[e] + 1
                                       ELSE waited[e]]
  ELSE UNCHANGED <<rr_ptr, offer, given, waited>>

\* trade_log.  A clear takes precedence over a trade that is being accepted.
LogNext ==
  LET accept == Valid # {} /\ log.count < LogDepth /\ ~avl.clear
  IN  log' =
    [mem      |-> IF accept
                  THEN [log.mem EXCEPT ![log.count] =
                          Compact(Selected, offer[Selected], made[Selected])]
                  ELSE log.mem,
     count    |-> IF avl.clear THEN 0 ELSE IF accept THEN log.count + 1 ELSE log.count,
     overflow |-> ~avl.clear /\ (log.overflow \/ (Valid # {} /\ log.count = LogDepth)),
     sw_rdata |-> IF avl.read THEN log.mem[avl.index] ELSE log.sw_rdata]

\* Mutant: the shadow is loaded an edge before the log has delivered.
Delivered_Early == avl.pipe = 1

Delivered == avl.pipe = 2

\* The registers behind LOG_CMD, LOG_INFO and LOG_DATA0/1; cmd is what the
\* bus writes to LOG_CMD at this edge, if anything.
AvlNext(cmd, idx) ==
  avl' =
    [clear      |-> cmd = "clear",
     read       |-> cmd = "read",
     index      |-> IF cmd = "read" THEN idx ELSE avl.index,
     pipe       |-> CASE cmd = "read" -> 1 [] cmd = "clear" -> 0
                      [] OTHER -> IF avl.pipe = 1 THEN 2 ELSE 0,
     shadow     |-> IF cmd = "clear" THEN ZeroEntry
                    ELSE IF Delivered THEN log.sw_rdata ELSE avl.shadow,
     data_valid |-> cmd = "none" /\ (Delivered \/ avl.data_valid)]

Edge(cmd, idx) ==
  /\ AggNext /\ LogNext /\ AvlNext(cmd, idx)
  /\ base' = IF avl.clear THEN [e \in Engines |-> Len(given'[e])] ELSE base
  /\ UNCHANGED <<state, working, made, resets>>

Tick == Edge("none", 0) /\ UNCHANGED <<procVars>>

\* KEY0: every register but the log's memory.
Reset ==
  /\ resets < MaxResets /\ resets' = resets + 1
  /\ state' = "IDLE" /\ working' = {}
  /\ offer' = [e \in Engines |-> 0] /\ made' = [e \in Engines |-> 0]
  /\ rr_ptr' = 0
  /\ log' = [log EXCEPT !.count = 0, !.overflow = FALSE, !.sw_rdata = ZeroEntry]
  /\ avl' = [clear |-> FALSE, read |-> FALSE, index |-> 0, pipe |-> 0,
             shadow |-> ZeroEntry, data_valid |-> FALSE]
  /\ given' = [e \in Engines |-> <<>>] /\ base' = [e \in Engines |-> 0]
  /\ waited' = [e \in Engines |-> 0]
  /\ UNCHANGED procVars

-----------------------------------------------------------------------------
(* The driver.  An ioctl holds dev.lock from its first access to its        *)
(* return.                                                                  *)

At(p, s) == ppc[p] = s
Go(p, s) == ppc' = [ppc EXCEPT ![p] = s]

Enter(p) == lock = NoProc /\ lock' = p

\* The ioctl returns an error; its argument is forgotten.
Fail(p) == Go(p, "out") /\ index' = [index EXCEPT ![p] = 0] /\ lock' = NoProc

CallRead(p) ==
  /\ At(p, "out") /\ Enter(p)
  /\ \E i \in 0 .. LogDepth - 1 : index' = [index EXCEPT ![p] = i]
  /\ Go(p, "check")
  /\ UNCHANGED <<engVars, hwVars, polls, got, resets, ghosts>>

\* HFT_IOC_LOG_CLEAR, in whatever state the board is.
CallClear(p) ==
  /\ At(p, "out") /\ Enter(p)
  /\ Go(p, "clear")
  /\ UNCHANGED <<engVars, hwVars, index, polls, got, resets, ghosts>>

Clear(p) ==
  /\ At(p, "clear") /\ Edge("clear", 0)
  /\ Go(p, "out") /\ lock' = NoProc
  /\ UNCHANGED <<index, polls, got>>

\* hft_log_read_entry_hw: STATUS, then LOG_INFO, then LOG_CMD.
Check(p) ==
  /\ At(p, "check") /\ Edge("none", 0)
  /\ IF state = "DONE" THEN Go(p, "info") /\ UNCHANGED <<lock, index>> ELSE Fail(p)
  /\ UNCHANGED <<polls, got>>

Info(p) ==
  /\ At(p, "info") /\ Edge("none", 0)
  /\ IF index[p] < log.count THEN Go(p, "cmd") /\ UNCHANGED <<lock, index>> ELSE Fail(p)
  /\ UNCHANGED <<polls, got>>

Cmd(p) ==
  /\ At(p, "cmd") /\ Edge("read", index[p])
  /\ Go(p, "poll") /\ polls' = [polls EXCEPT ![p] = PollLimit]
  /\ UNCHANGED <<lock, index, got>>

Poll(p) ==
  /\ At(p, "poll") /\ Edge("none", 0)
  /\ polls' = [polls EXCEPT ![p] = IF avl.data_valid THEN 0 ELSE @ - 1]
  /\ Go(p, IF avl.data_valid THEN "data0" ELSE IF polls[p] = 1 THEN "timedout" ELSE "poll")
  /\ UNCHANGED <<lock, index, got>>

TimedOut(p) ==
  /\ At(p, "timedout") /\ Fail(p)
  /\ UNCHANGED <<engVars, hwVars, polls, got, resets, ghosts>>

Data0(p) ==
  /\ At(p, "data0") /\ Edge("none", 0)
  /\ got' = [got EXCEPT ![p].ts = avl.shadow.ts]
  /\ Go(p, "data1")
  /\ UNCHANGED <<lock, index, polls>>

Data1(p) ==
  /\ At(p, "data1") /\ Edge("none", 0)
  /\ got' = [got EXCEPT ![p].engine_id = avl.shadow.engine_id,
                        ![p].amount = avl.shadow.amount]
  /\ Go(p, "return")
  /\ UNCHANGED <<lock, index, polls>>

Return(p) ==
  /\ At(p, "return")
  /\ Go(p, "out") /\ lock' = NoProc
  /\ got' = [got EXCEPT ![p] = ZeroEntry] /\ index' = [index EXCEPT ![p] = 0]
  /\ UNCHANGED <<engVars, hwVars, polls, resets, ghosts>>

Inside(p) ==
  \/ Clear(p) \/ Check(p) \/ Info(p) \/ Cmd(p) \/ Poll(p) \/ TimedOut(p)
  \/ Data0(p) \/ Data1(p) \/ Return(p)

Engine(e) == TakeOrder(e) \/ MakeTrade(e) \/ Rest(e)

Next ==
  \/ Begin \/ Dispatched \/ Tick \/ Reset
  \/ \E e \in Engines : Engine(e)
  \/ \E p \in Procs : CallRead(p) \/ CallClear(p) \/ Inside(p)

Spec == Init /\ [][Next]_vars

\* The clock runs, and a process inside an ioctl gets on with it.
FairSpec == Spec /\ WF_vars(Tick) /\ \A p \in Procs : WF_vars(Inside(p))

-----------------------------------------------------------------------------
(* Properties.                                                              *)

TypeOK ==
  /\ state \in {"IDLE", "DISPATCH", "DONE"} /\ working \subseteq Engines
  /\ offer \in [Engines -> Nat] /\ made \in [Engines -> Nat]
  /\ rr_ptr \in Engines
  /\ log.count \in 0 .. LogDepth /\ DOMAIN log.mem = 0 .. LogDepth - 1
  /\ avl.pipe \in 0 .. 2 /\ avl.index \in 0 .. LogDepth - 1
  /\ lock \in Procs \cup {NoProc}

\* The n-th trade of engine e, as entry w of the log: with its own amount if
\* seven bits hold it.
Holds(w, e, n) ==
  /\ w.engine_id = e /\ w.ts = n
  /\ given[e][n] < AmtSpan => w.amount = given[e][n]

\* Trades of e that the log should hold: handed over since it was cleared.
Logged(e) == base[e] + 1 .. Len(given[e])

\* Every trade an engine handed over since the log was last cleared is in the
\* log, once, with its amount and in the engine's order, also when the log was
\* full and the engine had to wait for a clear; and the log holds nothing else.
LogComplete ==
  /\ \A i \in 0 .. log.count - 1 : \E e \in Engines : \E n \in Logged(e) :
       Holds(log.mem[i], e, n)
  /\ \A e \in Engines : \A n \in Logged(e) : \E i \in 0 .. log.count - 1 :
       Holds(log.mem[i], e, n)
  /\ \A i, j \in 0 .. log.count - 1 :
       i < j /\ log.mem[i].engine_id = log.mem[j].engine_id => log.mem[i].ts < log.mem[j].ts

\* Pointers and counters keep their ranges, and the log is complete.
LogInv == TypeOK /\ LogComplete

\* No engine starves: while it waits with a trade, the others get at most one
\* trade in for each of them.
BoundedWait == \A e \in Valid : waited[e] <= N - 1

\* An entry handed to a process is the one it asked for, not one that another
\* process asked for, an earlier one, or halves of two.
ReadReturnsEntry ==
  \A p \in Procs : At(p, "return") /\ state = "DONE" => got[p] = log.mem[index[p]]

\* The poll for an entry runs out only if the board was reset.
PollsSuffice == \A p \in Procs : At(p, "timedout") => state # "DONE"

\* dev.lock is held by the process inside an ioctl and by nobody else: every
\* return, with an error or without, gives it back.
MutexHeld == \A p \in Procs : At(p, "out") <=> lock # p

\* Two processes that read at the same time each get what they asked for,
\* neither gives up for want of polls, and the mutex is given back.
ReadsInv == MutexHeld /\ ReadReturnsEntry /\ PollsSuffice

\* A trade that is offered is taken by the log, unless the log is full: then
\* the engine waits, until software clears the log or a reset.
TradesLogged == \A e \in Engines : offer[e] # 0 ~> offer[e] = 0 \/ log.count = LogDepth

\* The last trade that engine e handed over is the newest entry of the log.
Newest(e) == log.count > 0 /\ Holds(log.mem[log.count - 1], e, Len(given[e]))

\* What trade_log promises: a trade whose handshake takes place is stored.
\* ready stays high in the cycle of a clear, and the clear wins.
EveryTradeStored ==
  [][\A e \in Engines : Len(given'[e]) > Len(given[e]) => Newest(e)']_vars

\* What sys_def and trade_aggregator promise: the amount of a trade is below 128, so
\* that an entry's seven bits are the amount traded.
AmountKept ==
  \A i \in 0 .. log.count - 1 :
    log.mem[i].amount = given[log.mem[i].engine_id][log.mem[i].ts]
=============================================================================
