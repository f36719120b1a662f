------------------------------ MODULE OrderBook ------------------------------
(***************************************************************************)
(* What a symbol engine promises to the exchange: a book of bids and asks  *)
(* matched in price-time priority, with partial fills, one trade at a      *)
(* time, until the book is no longer crossed.                              *)
(*                                                                         *)
(* An order carries the time ts of its arrival.  The implementations keep  *)
(* only a counter that starts again every Span units: of two orders of one *)
(* price the older is first if both came between two such starts, and      *)
(* either may be if not.                                                   *)
(***************************************************************************)
EXTENDS Integers

CONSTANTS
  NoNode,   \* no trade
  Span      \* time units after which a timestamp starts again

VARIABLES
  bids, asks,   \* resting orders
  trade         \* the trade that was made but not yet reported

bookVars == <<bids, asks, trade>>

Older(a, b) == a.ts < b.ts /\ a.ts \div Span = b.ts \div Span

BidFirst(a, b) == a.price > b.price \/ (a.price = b.price /\ Older(a, b))
AskFirst(a, b) == a.price < b.price \/ (a.price = b.price /\ Older(a, b))

BestBids == {b \in bids : \A o \in bids : ~BidFirst(o, b)}
BestAsks == {a \in asks : \A o \in asks : ~AskFirst(o, a)}

Crossed == \E b \in bids, a \in asks : b.price >= a.price

Init == bids = {} /\ asks = {} /\ trade = NoNode

\* An order enters a book that has nothing left to match.
Submit ==
  /\ ~Crossed /\ trade = NoNode
  /\ \/ \E o \in bids' : bids' = bids \cup {o} /\ o \notin bids /\ asks' = asks
     \/ \E o \in asks' : asks' = asks \cup {o} /\ o \notin asks /\ bids' = bids
  /\ UNCHANGED trade

\* What is left of order o after quantity q of it was traded.
Rest(o, q) == IF o.amount > q THEN {[o EXCEPT !.amount = @ - q]} ELSE {}

\* A best bid and a best ask trade the smaller of their amounts at the bid's
\* price.
Match ==
  /\ trade = NoNode
  /\ \E b \in BestBids, a \in BestAsks :
       LET q == IF b.amount < a.amount THEN b.amount ELSE a.amount
       IN  /\ b.price >= a.price
           /\ trade' = [b EXCEPT !.amount = q]
           /\ bids' = (bids \ {b}) \cup Rest(b, q)
           /\ asks' = (asks \ {a}) \cup Rest(a, q)

Report ==
  /\ trade # NoNode
  /\ trade' = NoNode
  /\ UNCHANGED <<bids, asks>>

Next == Submit \/ Match \/ Report

Spec == Init /\ [][Next]_bookVars
=============================================================================
