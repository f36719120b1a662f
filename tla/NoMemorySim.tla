----------------------------- MODULE NoMemorySim -----------------------------
(***************************************************************************)
(* The software simulator without a memory model (sw_sim/no_memory_sim.c): *)
(* one book for one symbol, and a single look for a trade where the other  *)
(* simulator has a loop.                                                   *)
(***************************************************************************)
EXTENDS SimHeap

CONSTANTS
  Prices, Amounts,   \* of the orders that are submitted
  Gaps,              \* nanoseconds from one order to the next
  MAX_ORDERS         \* bound of a simulation (1000 in manual mode)

VARIABLES
  mode,         \* 0 manual, 1 automatic
  asks, bids,   \* the heaps
  orders,       \* orders submitted
  now,          \* CLOCK_MONOTONIC, in nanoseconds
  checks,       \* calls of check_for_trade up to the next prompt or order
  trades

vars == <<mode, asks, bids, orders, now, checks, trades>>

\* main: the mode is 0 or 1, or the program ends at once.
Init ==
  /\ mode \in {0, 1}
  /\ asks = <<>> /\ bids = <<>> /\ trades = 0
  /\ orders = 0 /\ now = 0 /\ checks = 0

\* An order is followed by one call of check_for_trade, in manual mode by a
\* second one at the end of the loop's body.
Submit(type, p, a) ==
  LET o == create_order(now, p, a)
  IN  /\ checks = 0 /\ orders < MAX_ORDERS
      /\ IF type = "ask" THEN asks' = push("ask", asks, o) /\ UNCHANGED bids
                         ELSE bids' = push("bid", bids, o) /\ UNCHANGED asks
      /\ checks' = IF mode = 0 THEN 2 ELSE 1
      /\ orders' = orders + 1 /\ \E g \in Gaps : now' = now + g
      /\ UNCHANGED <<mode, trades>>

\* Manual mode: a line that is no order leads to the same calls, an answer
\* that is neither Y nor N, and an N, to one.
BadLine ==
  /\ checks = 0 /\ mode = 0
  /\ checks' \in {1, 2}
  /\ UNCHANGED <<mode, asks, bids, orders, now, trades>>

Crosses == asks # <<>> /\ bids # <<>> /\ peek(bids).price >= peek(asks).price

AfterTrade(type, h, other) ==
  IF peek(h).amount > other THEN update(h, peek(h).amount - other) ELSE pop(type, h)

check_for_trade ==
  /\ checks > 0 /\ checks' = checks - 1
  /\ IF Crosses
     THEN /\ bids' = AfterTrade("bid", bids, peek(asks).amount)
          /\ asks' = AfterTrade("ask", asks, peek(bids).amount)
          /\ trades' = trades + 1
     ELSE UNCHANGED <<asks, bids, trades>>
  /\ UNCHANGED <<mode, orders, now>>

\* Nothing more is entered: the number of trades is printed.
Stop == checks = 0 /\ UNCHANGED vars

Next ==
  \/ \E type \in {"ask", "bid"}, p \in Prices, a \in Amounts : Submit(type, p, a)
  \/ BadLine \/ check_for_trade \/ Stop

Spec == Init /\ [][Next]_vars

-----------------------------------------------------------------------------
\* The README's rule: when the best bid is at least the best ask a trade is
\* made, so no book is left crossed once an order has been dealt with.
UncrossedBetweenOrders == checks = 0 => ~Crosses
=============================================================================
