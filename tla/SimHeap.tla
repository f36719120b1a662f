------------------------------- MODULE SimHeap -------------------------------
(***************************************************************************)
(* The binary heap of the software simulators (sw_sim/heap.h), as          *)
(* functions on sequences.  data[i] of the code is element i + 1 here.     *)
(*                                                                         *)
(* An order's timestamp is the nanosecond within the second at which it    *)
(* was created, so an older order may well carry the larger timestamp.     *)
(* ts, the whole reading of the clock, is not kept by the code: no cmp     *)
(* looks at it, it is there to state properties.                           *)
(* is_expired compares a difference of 32 bits with a limit of 48 bits and *)
(* is never true: sift_down's branches for expired orders, and with them   *)
(* free_node_memory, are unreachable and left out.                         *)
(***************************************************************************)
EXTENDS Integers, Sequences

CONSTANTS Second   \* nanoseconds in a second (10^9)

Order == [price : Int, timestamp : Nat, amount : Int, ts : Nat]

\* The 16 bits of a price or an amount.
Short(n) == ((n + 2^15) % 2^16) - 2^15

\* create_order at time ts of CLOCK_MONOTONIC.
create_order(ts, p, a) ==
  [price |-> Short(p), timestamp |-> ts % Second, amount |-> Short(a), ts |-> ts]

\* The lines min_cmp and max_cmp share: the older order wins, and among
\* orders of one nanosecond the larger.
OlderOrLarger(a, b) ==
  a.timestamp < b.timestamp \/ (a.timestamp = b.timestamp /\ a.amount > b.amount)

\* cmp(a, b) = a
min_cmp(a, b) == a.price < b.price \/ (a.price = b.price /\ OlderOrLarger(a, b))

max_cmp(a, b) == a.price > b.price \/ (a.price = b.price /\ OlderOrLarger(a, b))

Wins(type, a, b) == IF type = "ask" THEN min_cmp(a, b) ELSE max_cmp(a, b)

Swap(h, i, j) == [h EXCEPT ![i] = h[j], ![j] = h[i]]

\* A heap and the index of one of its nodes.
Places == {x \in Seq(Order) \X Nat : x[2] \in 1 .. Len(x[1])}

sift_up(type, h, i) ==
  LET Up[x \in Places] ==
        LET g == x[1]
            k == x[2]
        IN  IF k > 1 /\ Wins(type, g[k], g[k \div 2])
            THEN Up[<<Swap(g, k, k \div 2), k \div 2>>]
            ELSE g
  IN  Up[<<h, i>>]

\* The best of the node at k and its children.
Best(type, g, k) ==
  LET left == IF 2 * k <= Len(g) /\ Wins(type, g[2 * k], g[k]) THEN 2 * k ELSE k
  IN  IF 2 * k + 1 <= Len(g) /\ Wins(type, g[2 * k + 1], g[left]) THEN 2 * k + 1 ELSE left

sift_down(type, h, i) ==
  LET Down[x \in Places] ==
        LET g == x[1]
            k == x[2]
        IN  IF Best(type, g, k) # k
            THEN Down[<<Swap(g, k, Best(type, g, k)), Best(type, g, k)>>]
            ELSE g
  IN  Down[<<h, i>>]

peek(h) == h[1]

update(h, new_amount) == [h EXCEPT ![1].amount = Short(new_amount)]

push(type, h, o) == sift_up(type, Append(h, o), Len(h) + 1)

\* The last node replaces the root (which may be the same one) and sinks.
pop(type, h) ==
  IF Len(h) = 1 THEN <<>>
  ELSE sift_down(type, SubSeq([h EXCEPT ![1] = h[Len(h)]], 1, Len(h) - 1), 1)

-----------------------------------------------------------------------------
\* No parent is worse than its child in price or, at one price, in timestamp.
\* (An update may leave it smaller than a child of its own nanosecond.)
Ordered(type, h) ==
  \A i \in 2 .. Len(h) :
    LET p == h[i \div 2]
    IN  \/ p.price = h[i].price /\ p.timestamp <= h[i].timestamp
        \/ IF type = "ask" THEN p.price < h[i].price ELSE p.price > h[i].price
=============================================================================
