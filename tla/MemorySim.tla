------------------------------ MODULE MemorySim ------------------------------
(***************************************************************************)
(* The software simulator with paged memory (sw_sim/memory_sim.c, mmu.h):  *)
(* one order book per symbol, frames of one pool handed out to the books a *)
(* page at a time, an overflow page that all books share, and the matching *)
(* loop.  Orders are typed in, read from a CSV file or drawn at random.    *)
(*                                                                         *)
(* Of SimStats the counts of trades, overflow accesses and rejections are  *)
(* kept; cycles, reads, writes and the printed report are not.             *)
(***************************************************************************)
EXTENDS SimHeap, FiniteSets

CONSTANTS
  Symbols, NoSymbol,
  NoNode,                 \* no trade
  Prices, Amounts,        \* of the orders that are submitted
  Clock,                  \* CLOCK_MONOTONIC at the first order
  Gaps,                   \* nanoseconds from one order to the next
  PAGE_SIZE,              \* nodes of a page (64)
  MAX_PAGES,              \* frames (256)
  MAX_PAGES_PER_SYMBOL,   \* 128
  OVERFLOW_PAGE_SIZE,     \* 8
  MAX_ORDERS,             \* bound of a simulation (1500000)
  FileLimits              \* files a process may have open: the limits tried

ASSUME SimAssumption ==
  /\ IsFiniteSet(Symbols) /\ NoSymbol \notin Symbols /\ NoNode \notin Order
  /\ Prices \subseteq Int /\ Amounts \subseteq Int
  /\ Second \in Nat \ {0} /\ Clock \in Nat /\ Gaps \subseteq Nat \ {0}
  /\ PAGE_SIZE \in Nat \ {0} /\ MAX_PAGES \in Nat
  /\ MAX_PAGES_PER_SYMBOL \in Nat /\ OVERFLOW_PAGE_SIZE \in Nat
  /\ MAX_ORDERS \in Nat /\ FileLimits \subseteq Nat

Frames == 0 .. MAX_PAGES - 1

VARIABLES
  pc,                   \* where the simulator is
  now,                  \* CLOCK_MONOTONIC at the next order, in nanoseconds
  orders,               \* orders submitted
  books,                \* ex->books: symbols in the order of their first order
  ob,                   \* symbol of the order being processed
  asks, bids,           \* the heaps of each book
  virtual_pages,        \* the frames of each book, in the order of their use
  nodes_in_curr_page,   \* of each book
  free_bitmap,          \* the frames that are free
  owner_symbol,         \* of each frame, -1 if it has none
  node_count,           \* of each frame
  overflow,             \* overflow.cnt
  trades,               \* of each book
  overflow_accesses, hard_rejects,
  files,                \* results.txt opened and not closed
  max_files,            \* the limit of files; never changes
  trade,                \* the trade printed last, until its cleanup
  exact                 \* ghost: trades of each book that emptied both orders

memVars   == <<virtual_pages, nodes_in_curr_page, free_bitmap, owner_symbol,
               node_count, overflow>>
heapVars  == <<asks, bids>>
statVars  == <<trades, overflow_accesses, hard_rejects, exact>>
inputVars == <<now, orders, books, ob>>
vars      == <<pc, inputVars, heapVars, memVars, statVars, files, max_files, trade>>

Init ==
  /\ pc = "main" /\ now = Clock /\ orders = 0
  /\ books = <<>> /\ ob = NoSymbol
  /\ asks = [s \in Symbols |-> <<>>] /\ bids = [s \in Symbols |-> <<>>]
  /\ virtual_pages = [s \in Symbols |-> <<>>]
  /\ nodes_in_curr_page = [s \in Symbols |-> 0]
  /\ free_bitmap = Frames
  /\ owner_symbol = [f \in Frames |-> -1] /\ node_count = [f \in Frames |-> 0]
  /\ overflow = 0
  /\ trades = [s \in Symbols |-> 0] /\ exact = [s \in Symbols |-> 0]
  /\ overflow_accesses = 0 /\ hard_rejects = 0
  /\ files = 0 /\ max_files \in FileLimits /\ trade = NoNode

\* The three modes differ in where orders come from, not in what becomes of
\* them.  An unknown mode, less than two orders in automatic mode and a CSV
\* file that is not named or cannot be opened end the program.
main ==
  /\ pc = "main"
  /\ pc' \in {"next", "csv", "exited"}
  /\ UNCHANGED <<inputVars, heapVars, memVars, statVars, files, max_files, trade>>

\* The first line of a CSV file is a header, and dropped, unless ask or bid is
\* found in it (and ASK or BID, which the loop would accept, is not).
csv_header ==
  /\ pc = "csv"
  /\ pc' = "next"
  /\ UNCHANGED <<inputVars, heapVars, memVars, statVars, files, max_files, trade>>

-----------------------------------------------------------------------------
(* Memory.                                                                  *)

page_count(s) == Len(virtual_pages[s])
CurrFrame(s)  == virtual_pages[s][page_count(s)]

\* Index in ex->books of a book that is there or is created for the order.
SymId(s) ==
  IF \E i \in DOMAIN books : books[i] = s
  THEN (CHOOSE i \in DOMAIN books : books[i] = s) - 1
  ELSE Len(books)

find_or_create_book(s) == books' = IF SymId(s) = Len(books) THEN Append(books, s) ELSE books

HasRoom(s) == page_count(s) > 0 /\ nodes_in_curr_page[s] < PAGE_SIZE

\* Mutant: the frame is not marked as used.
allocate_frame_KeepsBit(f) ==
  /\ f \in free_bitmap /\ \A g \in free_bitmap : f <= g
  /\ free_bitmap' = free_bitmap

\* The first free frame.
allocate_frame(f) ==
  /\ f \in free_bitmap /\ \A g \in free_bitmap : f <= g
  /\ free_bitmap' = free_bitmap \ {f}

CurrPage(s) ==
  /\ HasRoom(s)
  /\ nodes_in_curr_page' = [nodes_in_curr_page EXCEPT ![s] = @ + 1]
  /\ node_count' = [node_count EXCEPT ![CurrFrame(s)] = @ + 1]
  /\ UNCHANGED <<virtual_pages, free_bitmap, owner_symbol, overflow, overflow_accesses>>

MayGrow(s) == page_count(s) < MAX_PAGES_PER_SYMBOL /\ free_bitmap # {}

NewPage(s) ==
  /\ ~HasRoom(s) /\ MayGrow(s)
  /\ \E f \in Frames :
       /\ allocate_frame(f)
       /\ owner_symbol' = [owner_symbol EXCEPT ![f] = SymId(s)]
       /\ node_count' = [node_count EXCEPT ![f] = 1]
       /\ virtual_pages' = [virtual_pages EXCEPT ![s] = Append(@, f)]
  /\ nodes_in_curr_page' = [nodes_in_curr_page EXCEPT ![s] = 1]
  /\ UNCHANGED <<overflow, overflow_accesses>>

OverflowPage(s) ==
  /\ ~HasRoom(s) /\ ~MayGrow(s) /\ overflow < OVERFLOW_PAGE_SIZE
  /\ overflow' = overflow + 1 /\ overflow_accesses' = overflow_accesses + 1
  /\ UNCHANGED <<virtual_pages, nodes_in_curr_page, free_bitmap, owner_symbol, node_count>>

Full(s) == ~HasRoom(s) /\ ~MayGrow(s) /\ overflow >= OVERFLOW_PAGE_SIZE

-----------------------------------------------------------------------------
(* Orders and trades.                                                       *)

\* An order goes into the heap of its side; matching follows.
Insert(s, type, o) ==
  /\ CurrPage(s) \/ NewPage(s) \/ OverflowPage(s)
  /\ IF type = "ask" THEN asks' = [asks EXCEPT ![s] = push("ask", @, o)] /\ UNCHANGED bids
                     ELSE bids' = [bids EXCEPT ![s] = push("bid", @, o)] /\ UNCHANGED asks
  /\ pc' = "check"
  /\ UNCHANGED hard_rejects

\* A rejected order is not matched either.
HardReject(s) ==
  /\ Full(s)
  /\ hard_rejects' = hard_rejects + 1
  /\ pc' = "next"
  /\ UNCHANGED <<heapVars, memVars, overflow_accesses>>

\* The body of the loop of automatic_, manual_ and csv_execution.
Submit(s, type, p, a) ==
  /\ pc = "next" /\ orders < MAX_ORDERS
  /\ ob' = s /\ find_or_create_book(s)
  /\ Insert(s, type, create_order(now, p, a)) \/ HardReject(s)
  /\ orders' = orders + 1 /\ \E g \in Gaps : now' = now + g
  /\ UNCHANGED <<trades, exact, files, max_files, trade>>

\* fopen fails: exit(1).
FileError ==
  /\ pc = "check" /\ files = max_files
  /\ pc' = "exited"
  /\ UNCHANGED <<inputVars, heapVars, memVars, statVars, files, max_files, trade>>

OneSided == asks[ob] = <<>> \/ bids[ob] = <<>>

\* Mutant: orders of the same price do not trade.
Crosses_Strict == peek(bids[ob]).price > peek(asks[ob]).price

Crosses == peek(bids[ob]).price >= peek(asks[ob]).price

\* Mutant: the file is not closed.
fclose_Missing == files' = files + 1

\* What was opened at the start of check_for_trade_multi is closed.
fclose == files' = files

\* check_for_trade_multi returns 0, and leaves the file open if one side is
\* empty.
NoTrade ==
  /\ pc = "check" /\ files < max_files
  /\ \/ OneSided /\ files' = files + 1
     \/ ~OneSided /\ ~Crosses /\ fclose
  /\ pc' = "next"
  /\ UNCHANGED <<inputVars, heapVars, memVars, statVars, max_files, trade>>

\* Mutant: an order that is filled exactly stays, with nothing left of it.
AfterTrade_KeepsEmpty(type, h, other) ==
  IF peek(h).amount >= other THEN update(h, peek(h).amount - other) ELSE pop(type, h)

\* A side's heap after its root has traded with an order for amount other.
AfterTrade(type, h, other) ==
  IF peek(h).amount > other THEN update(h, peek(h).amount - other) ELSE pop(type, h)

\* The best bid and the best ask trade: an exact match removes both, else the
\* smaller one is removed and the larger one reduced.
Trade ==
  /\ pc = "check" /\ files < max_files /\ ~OneSided /\ Crosses
  /\ LET bid == peek(bids[ob])
         ask == peek(asks[ob])
     IN  /\ bids' = [bids EXCEPT ![ob] = AfterTrade("bid", @, ask.amount)]
         /\ asks' = [asks EXCEPT ![ob] = AfterTrade("ask", @, bid.amount)]
         /\ trade' = [bid EXCEPT !.amount = IF bid.amount > ask.amount
                                            THEN ask.amount ELSE bid.amount]
         /\ exact' = [exact EXCEPT ![ob] = IF bid.amount = ask.amount THEN @ + 1 ELSE @]
  /\ fclose
  /\ pc' = "cleanup"
  /\ UNCHANGED <<inputVars, memVars, trades, overflow_accesses, hard_rejects, max_files>>

\* nodes_in_curr_page after the last page was given back.
CurrAfterFree(s) == IF page_count(s) > 1 THEN PAGE_SIZE ELSE 0

\* Mutant: a trade gives back the last page whatever is left in it.
FreeNode_WholePage(s) ==
  /\ node_count' = [node_count EXCEPT ![CurrFrame(s)] = 0]
  /\ owner_symbol' = [owner_symbol EXCEPT ![CurrFrame(s)] = -1]
  /\ free_bitmap' = free_bitmap \cup {CurrFrame(s)}
  /\ virtual_pages' = [virtual_pages EXCEPT ![s] = SubSeq(@, 1, Len(@) - 1)]
  /\ nodes_in_curr_page' = [nodes_in_curr_page EXCEPT ![s] = CurrAfterFree(s)]

\* The last node of the last page goes: with the page's last node the page,
\* and the page before it, which is full, becomes the current one.
FreeNode(s) ==
  LET f    == CurrFrame(s)
      last == node_count[f] = 1
  IN  /\ node_count' = [node_count EXCEPT ![f] = @ - 1]
      /\ owner_symbol' = IF last THEN [owner_symbol EXCEPT ![f] = -1] ELSE owner_symbol
      /\ free_bitmap' = IF last THEN free_bitmap \cup {f} ELSE free_bitmap
      /\ virtual_pages' = IF last THEN [virtual_pages EXCEPT ![s] = SubSeq(@, 1, Len(@) - 1)]
                                  ELSE virtual_pages
      /\ nodes_in_curr_page' = [nodes_in_curr_page EXCEPT ![s] =
           IF last THEN CurrAfterFree(s) ELSE @ - 1]

\* post_trade_cleanup gives back a node of the overflow page, whoever put it
\* there, and a node of the book's pages.
post_trade_cleanup ==
  /\ pc = "cleanup"
  /\ trades' = [trades EXCEPT ![ob] = @ + 1]
  /\ overflow' = IF overflow > 0 THEN overflow - 1 ELSE 0
  /\ IF nodes_in_curr_page[ob] > 0 THEN FreeNode(ob)
     ELSE UNCHANGED <<virtual_pages, nodes_in_curr_page, free_bitmap, owner_symbol, node_count>>
  /\ pc' = "check" /\ trade' = NoNode
  /\ UNCHANGED <<inputVars, heapVars, overflow_accesses, hard_rejects, exact, files, max_files>>

\* A line that is malformed or of neither type is skipped.
SkipLine == pc = "next" /\ UNCHANGED vars

\* Nothing more is entered, or MAX_ORDERS are in: the statistics are printed.
Stop == pc \in {"next", "exited"} /\ UNCHANGED vars

Next ==
  \/ main \/ csv_header \/ SkipLine \/ FileError \/ NoTrade \/ Trade \/ post_trade_cleanup \/ Stop
  \/ \E s \in Symbols, type \in {"ask", "bid"}, p \in Prices, a \in Amounts :
       Submit(s, type, p, a)

Spec == Init /\ [][Next]_vars

-----------------------------------------------------------------------------
(* Properties.                                                              *)

Nodes(s) == Len(asks[s]) + Len(bids[s])

\* Nodes for which the pages of a book have been charged.
Charged(s) ==
  IF page_count(s) = 0 THEN 0 ELSE PAGE_SIZE * (page_count(s) - 1) + nodes_in_curr_page[s]

TypeOK ==
  /\ pc \in {"main", "csv", "next", "check", "cleanup", "exited"}
  /\ orders \in 0 .. MAX_ORDERS
  /\ books \in Seq(Symbols) /\ ob \in Symbols \cup {NoSymbol}
  /\ \A s \in Symbols : asks[s] \in Seq(Order) /\ bids[s] \in Seq(Order)
  /\ virtual_pages \in [Symbols -> Seq(Frames)]
  /\ free_bitmap \subseteq Frames
  /\ node_count \in [Frames -> 0 .. PAGE_SIZE]
  /\ overflow \in 0 .. OVERFLOW_PAGE_SIZE
  /\ files \in 0 .. max_files

\* Between two orders, both heaps of every book are ordered, though a trade
\* changes the root of one in place.
HeapsOrdered ==
  \A s \in Symbols : Ordered("ask", asks[s]) /\ Ordered("bid", bids[s])

\* A frame is free, or it is in one place of one book's page list, and that
\* book is its owner: no two books ever share a frame and none is lost.
FramesOwned ==
  \A f \in Frames :
    LET pages == UNION {{s} \X DOMAIN virtual_pages[s] : s \in Symbols}
        uses  == {u \in pages : virtual_pages[u[1]][u[2]] = f}
    IN  IF f \in free_bitmap
        THEN uses = {} /\ owner_symbol[f] = -1 /\ node_count[f] = 0
        ELSE \E u \in uses : uses = {u} /\ owner_symbol[f] = SymId(u[1])

\* Every page of a book but the last is full, the last one is not empty and
\* its count is the book's: a page can be taken back as soon as its count is
\* zero, and the one before it then has room for nobody else.
PagesFilled ==
  \A s \in Symbols :
    /\ page_count(s) = 0 => nodes_in_curr_page[s] = 0
    /\ page_count(s) > 0 => /\ node_count[CurrFrame(s)] = nodes_in_curr_page[s]
                            /\ nodes_in_curr_page[s] \in 1 .. PAGE_SIZE
    /\ \A i \in 1 .. page_count(s) - 1 : node_count[virtual_pages[s][i]] = PAGE_SIZE

\* Heaps, page lists, owners, free bitmap and counts, which the simulator keeps
\* in different places, agree after every step of every order.
BooksInv == TypeOK /\ HeapsOrdered /\ FramesOwned /\ PagesFilled

\* While the overflow page was never needed, every order of a book has a place
\* in the book's pages: no page is given back, to be handed to another book,
\* while orders are left in it.
OrdersHavePlaces ==
  overflow_accesses = 0 /\ pc # "cleanup" => \A s \in Symbols : Nodes(s) <= Charged(s)

\* The README's rule for pages: one that is left empty is removed, so that
\* between two orders a book without orders has no page.
EmptyPagesRemoved ==
  overflow_accesses = 0 /\ pc = "next" =>
    \A s \in Symbols : Nodes(s) = 0 => page_count(s) = 0

\* The README's rule for time: the root with which a trade is looked for is
\* the oldest order of its price.
OldestFirst ==
  pc = "check" =>
    /\ \A i \in DOMAIN bids[ob] :
         bids[ob][i].price = peek(bids[ob]).price => peek(bids[ob]).ts <= bids[ob][i].ts
    /\ \A i \in DOMAIN asks[ob] :
         asks[ob][i].price = peek(asks[ob]).price => peek(asks[ob]).ts <= asks[ob][i].ts

\* Whatever was matched or rejected in between, an order that was submitted
\* is in a book, was filled, or was rejected; a trade fills one order or two,
\* so that the loop that matches an order ends.
OrdersAccounted ==
  LET total[S \in SUBSET Symbols] ==
        IF S = {} THEN 0
        ELSE LET s == CHOOSE s \in S : TRUE
             IN  Nodes(s) + trades[s] + exact[s] + total[S \ {s}]
      reported == IF pc = "cleanup" THEN 1 ELSE 0
  IN  orders = total[Symbols] + reported + hard_rejects

\* results.txt stays open once per order at most: the simulator exits for
\* want of file descriptors no earlier than after as many orders.
ExitsLate == pc = "exited" => orders \in {0} \cup (max_files + 1 .. MAX_ORDERS)

Book(s) == INSTANCE OrderBook WITH
             Span  <- Second,
             bids  <- {bids[s][i] : i \in DOMAIN bids[s]},
             asks  <- {asks[s][i] : i \in DOMAIN asks[s]},
             trade <- IF ob = s THEN trade ELSE NoNode

\* The golden model and the engine of the board promise the same: each book
\* of the simulator is an order book in price-time priority that matches
\* every order it accepts until the book is no longer crossed.  Time counts
\* among orders of the same second (OldestFirst says what is lost by that).
ImplementsOrderBook ==
  /\ \A s \in Symbols : Book(s)!Init
  /\ [][\A s \in Symbols : Book(s)!Next \/ UNCHANGED Book(s)!bookVars]_vars
=============================================================================
