------------------------------ MODULE SimProofs ------------------------------
(***************************************************************************)
(* Proofs about MemorySim, for every number of symbols, every page size    *)
(* and number of pages, any prices and amounts and any number of orders.   *)
(*                                                                         *)
(* The recursive functions of the model (the sifts of the heap, the sum    *)
(* over the books) are loops with a measure: that such a function exists,  *)
(* and that what holds of each round holds of its value, is proved once,   *)
(* by least counterexample.                                                *)
(***************************************************************************)
EXTENDS MemorySim, TLAPS, FiniteSetTheorems

-----------------------------------------------------------------------------
(* Loops.  A loop on the states S goes on from x in go with step[x] and     *)
(* returns out[x] elsewhere; m[x] bounds the rounds it takes.               *)

\* A set of natural numbers that is not empty has a least member.
LEMMA LeastNat ==
  ASSUME NEW T, T \subseteq Nat, T # {}
  PROVE  \E x \in T : \A y \in T : x <= y
<1>1. IsWellFoundedOn(OpToRel(<, Nat), Nat)
  BY NatLessThanWellFounded
<1>2. PICK x \in T : \A y \in T : ~(<<y, x>> \in OpToRel(<, Nat))
  BY <1>1, WFMin
<1>3. ASSUME NEW y \in T, y < x PROVE FALSE
  <2>1. <<y, x>> \in OpToRel(<, Nat)
    <3>1. OpToRel(<, Nat) = {ss \in Nat \X Nat : ss[1] < ss[2]}
      BY Zenon DEF OpToRel
    <3>2. <<y, x>> \in Nat \X Nat /\ <<y, x>>[1] = y /\ <<y, x>>[2] = x
      OBVIOUS
    <3> QED
      BY <1>3, <3>1, <3>2
  <2> QED
    BY <1>2, <2>1
<1> QED
  BY <1>3

\* Of the members of a set, one has the least measure.
LEMMA LeastMeasure ==
  ASSUME NEW S, NEW m \in [S -> Nat], NEW T, T \subseteq S, T # {}
  PROVE  \E x \in T : \A y \in T : m[x] <= m[y]
<1> DEFINE M == {m[x] : x \in T}
<1>1. M \subseteq Nat /\ M # {}
  OBVIOUS
<1> HIDE DEF M
<1>2. PICK a \in M : \A b \in M : a <= b
  BY <1>1, LeastNat
<1> QED
  BY <1>2 DEF M

Bounded(S, go, step, m) ==
  /\ step \in [S -> S] /\ m \in [S -> Nat]
  /\ \A x \in S : x \in go => m[step[x]] < m[x]

\* f solves the loop's equation where m is below n.
Solves(f, n, S, go, step, out, m) ==
  f = [x \in {y \in S : m[y] < n} |-> IF x \in go THEN f[step[x]] ELSE out[x]]

\* Two solutions agree where both are defined.
LEMMA SolutionsAgree ==
  ASSUME NEW S, NEW go, NEW step, NEW out, NEW m, Bounded(S, go, step, m),
         NEW n1 \in Nat, NEW n2 \in Nat, NEW f1, NEW f2,
         Solves(f1, n1, S, go, step, out, m), Solves(f2, n2, S, go, step, out, m)
  PROVE  \A x \in S : m[x] < n1 /\ m[x] < n2 => f1[x] = f2[x]
<1> USE DEF Bounded
<1> DEFINE T == {x \in S : m[x] < n1 /\ m[x] < n2 /\ f1[x] # f2[x]}
<1> SUFFICES ASSUME T # {} PROVE FALSE
  OBVIOUS
<1>1. PICK x \in T : \A y \in T : m[x] <= m[y]
  BY LeastMeasure
<1>2. x \in S /\ m[x] < n1 /\ m[x] < n2 /\ f1[x] # f2[x]
  OBVIOUS
<1>3. /\ f1[x] = IF x \in go THEN f1[step[x]] ELSE out[x]
      /\ f2[x] = IF x \in go THEN f2[step[x]] ELSE out[x]
  BY <1>2 DEF Solves
<1>4. x \in go /\ f1[step[x]] # f2[step[x]]
  BY <1>2, <1>3
<1>5. step[x] \in S /\ m[step[x]] \in Nat /\ m[x] \in Nat /\ m[step[x]] < m[x]
  BY <1>2, <1>4
<1>6. step[x] \in T
  BY <1>2, <1>4, <1>5
<1> QED
  BY <1>1, <1>5, <1>6

\* The equation has a solution where m is below n.
LEMMA SolutionExists ==
  ASSUME NEW S, NEW go, NEW step, NEW out, NEW m, Bounded(S, go, step, m)
  PROVE  \A n \in Nat : \E f : Solves(f, n, S, go, step, out, m)
<1> USE DEF Bounded
<1> DEFINE T == {n \in Nat : ~ \E f : Solves(f, n, S, go, step, out, m)}
<1> SUFFICES ASSUME T # {} PROVE FALSE
  OBVIOUS
<1>1. PICK n \in T : \A k \in T : n <= k
  BY LeastNat
<1>2. CASE n = 0
  <2> DEFINE f == [x \in {y \in S : m[y] < 0} |-> IF x \in go THEN out[x] ELSE out[x]]
  <2>1. {y \in S : m[y] < 0} = {}
    OBVIOUS
  <2>2. Solves(f, 0, S, go, step, out, m)
    BY <2>1 DEF Solves
  <2> QED
    BY <1>2, <2>2
<1>3. CASE n # 0
  <2>1. n - 1 \in Nat /\ n - 1 \notin T
    BY <1>1, <1>3
  <2>2. PICK g : Solves(g, n - 1, S, go, step, out, m)
    BY <2>1
  <2> DEFINE D == {y \in S : m[y] < n}
             f == [x \in D |-> IF x \in go THEN g[step[x]] ELSE out[x]]
  <2>3. ASSUME NEW x \in D, x \in go PROVE f[step[x]] = g[step[x]]
    <3>1. step[x] \in S /\ m[step[x]] < n - 1 /\ step[x] \in D
      BY <2>3
    <3> QED
      BY <2>2, <3>1 DEF Solves
  <2>4. f = [x \in D |-> IF x \in go THEN f[step[x]] ELSE out[x]]
    BY <2>3
  <2>5. Solves(f, n, S, go, step, out, m)
    BY <2>4 DEF Solves
  <2> QED
    BY <2>5
<1> QED
  BY <1>2, <1>3

\* The equation of a loop whose rounds are bounded has a solution.
LEMMA LoopExists ==
  ASSUME NEW S, NEW go, NEW step, NEW out, NEW m, Bounded(S, go, step, m)
  PROVE  \E f : f = [x \in S |-> IF x \in go THEN f[step[x]] ELSE out[x]]
<1> DEFINE F(n) == CHOOSE f : Solves(f, n, S, go, step, out, m)
           W == [x \in S |-> F(m[x] + 1)[x]]
<1>1. ASSUME NEW n \in Nat PROVE Solves(F(n), n, S, go, step, out, m)
  BY SolutionExists
<1> HIDE DEF F
<1>2. ASSUME NEW x \in S PROVE W[x] = IF x \in go THEN W[step[x]] ELSE out[x]
  <2>1. m[x] + 1 \in Nat /\ m[x] < m[x] + 1
    BY DEF Bounded
  <2>2. F(m[x] + 1)[x] = IF x \in go THEN F(m[x] + 1)[step[x]] ELSE out[x]
    BY <1>1, <2>1 DEF Solves
  <2>3. CASE x \in go
    <3>1. step[x] \in S /\ m[step[x]] \in Nat /\ m[step[x]] < m[x]
      BY <2>3 DEF Bounded
    <3>2. m[step[x]] + 1 \in Nat /\ m[step[x]] < m[step[x]] + 1 /\ m[step[x]] < m[x] + 1
      BY <3>1 DEF Bounded
    <3>3. F(m[x] + 1)[step[x]] = F(m[step[x]] + 1)[step[x]]
      <4>1. Solves(F(m[x] + 1), m[x] + 1, S, go, step, out, m)
        BY <1>1, <2>1
      <4>2. Solves(F(m[step[x]] + 1), m[step[x]] + 1, S, go, step, out, m)
        BY <1>1, <3>2
      <4> HIDE DEF W
      <4> QED
        BY <2>1, <3>1, <3>2, <4>1, <4>2, SolutionsAgree
    <3> QED
      BY <2>2, <2>3, <3>1, <3>3
  <2>4. CASE x \notin go
    BY <2>2, <2>4
  <2> QED
    BY <2>3, <2>4
<1>3. W = [x \in S |-> IF x \in go THEN W[step[x]] ELSE out[x]]
  BY <1>2
<1> QED
  BY <1>3

\* From a state that satisfies an invariant of its rounds a loop returns what a
\* last state yields that satisfies it too.
LEMMA LoopInvariant ==
  ASSUME NEW S, NEW go, NEW step, NEW out, NEW m, Bounded(S, go, step, m),
         NEW W, \A x \in S : W[x] = IF x \in go THEN W[step[x]] ELSE out[x],
         NEW P, P \subseteq S, \A x \in P : x \in go => step[x] \in P
  PROVE  \A x \in P : \E y \in P : y \notin go /\ W[x] = out[y]
<1> DEFINE T == {x \in P : ~ \E y \in P : y \notin go /\ W[x] = out[y]}
<1> SUFFICES ASSUME T # {} PROVE FALSE
  OBVIOUS
<1>2. PICK x \in T : \A y \in T : m[x] <= m[y]
  BY LeastMeasure DEF Bounded
<1>3. x \in S /\ x \in P
  OBVIOUS
<1>4. CASE x \notin go
  BY <1>3, <1>4
<1>5. CASE x \in go
  <2>1. step[x] \in P /\ step[x] \in S /\ m[step[x]] < m[x] /\ W[x] = W[step[x]]
    BY <1>3, <1>5 DEF Bounded
  <2>2. step[x] \notin T
    BY <1>2, <1>3, <2>1 DEF Bounded
  <2> QED
    BY <2>1, <2>2
<1> QED
  BY <1>4, <1>5

-----------------------------------------------------------------------------
(* The heaps of heap.h.                                                     *)

\* Order p may stand above order c.
NoWorse(type, p, c) ==
  \/ p.price = c.price /\ p.timestamp <= c.timestamp
  \/ IF type = "ask" THEN p.price < c.price ELSE p.price > c.price

\* The winner of a comparison is no worse; being no worse is transitive.
LEMMA Comparator ==
  ASSUME NEW type
  PROVE  /\ \A a, b \in Order : Wins(type, a, b) => NoWorse(type, a, b)
         /\ \A a, b \in Order : ~ Wins(type, a, b) => NoWorse(type, b, a)
         /\ \A a, b, c \in Order :
              NoWorse(type, a, b) /\ NoWorse(type, b, c) => NoWorse(type, a, c)
BY DEF Order, Wins, min_cmp, max_cmp, OlderOrLarger, NoWorse

Contents(h) == {h[i] : i \in 1 .. Len(h)}

\* No two orders came at the same time.
Distinct(h) == \A i, j \in 1 .. Len(h) : h[i].ts = h[j].ts => i = j

\* A swap changes two places and keeps what is in the heap.
LEMMA SwapsTwo ==
  ASSUME NEW g \in Seq(Order), NEW a \in 1 .. Len(g), NEW b \in 1 .. Len(g)
  PROVE  /\ Swap(g, a, b) \in Seq(Order) /\ Len(Swap(g, a, b)) = Len(g)
         /\ \A i \in 1 .. Len(g) : Swap(g, a, b)[i] = IF i = b THEN g[a] ELSE
                                                      IF i = a THEN g[b] ELSE g[i]
         /\ Contents(Swap(g, a, b)) = Contents(g)
         /\ Distinct(g) => Distinct(Swap(g, a, b))
<1> DEFINE w == Swap(g, a, b)
<1>1. w \in Seq(Order) /\ Len(w) = Len(g)
  BY DEF Swap
<1>2. \A i \in 1 .. Len(g) : w[i] = IF i = b THEN g[a] ELSE IF i = a THEN g[b] ELSE g[i]
  BY DEF Swap
<1> HIDE DEF w
<1>3. Contents(w) = Contents(g)
  <2>1. ASSUME NEW o \in Contents(w) PROVE o \in Contents(g)
    BY <1>1, <1>2 DEF Contents
  <2>2. ASSUME NEW i \in 1 .. Len(g) PROVE g[i] \in Contents(w)
    <3>1. CASE i = a
      <4>1. g[i] = w[b]
        BY <1>2, <3>1
      <4> QED
        BY <1>1, <4>1 DEF Contents
    <3>2. CASE i = b
      <4>1. g[i] = w[a]
        BY <1>2, <3>2
      <4> QED
        BY <1>1, <4>1 DEF Contents
    <3>3. CASE i # a /\ i # b
      <4>1. g[i] = w[i]
        BY <1>2, <3>3
      <4> QED
        BY <1>1, <4>1 DEF Contents
    <3> QED
      BY <3>1, <3>2, <3>3
  <2> QED
    BY <2>1, <2>2 DEF Contents
<1>4. Distinct(g) => Distinct(w)
  BY <1>1, <1>2 DEF Distinct
<1> QED
  BY <1>1, <1>2, <1>3, <1>4 DEF w

\* The same for every heap.
LEMMA SwapKeeps ==
  \A g \in Seq(Order) : \A a, b \in 1 .. Len(g) :
    /\ Swap(g, a, b) \in Seq(Order) /\ Len(Swap(g, a, b)) = Len(g)
    /\ Contents(Swap(g, a, b)) = Contents(g)
    /\ Distinct(g) => Distinct(Swap(g, a, b))
BY ONLY SwapsTwo

-----------------------------------------------------------------------------
(* sift_up.                                                                 *)

\* The heap is ordered but for the node at k, which may precede its parent.
UpOrdered(type, g, k) ==
  /\ \A i \in 2 .. Len(g) : i # k => NoWorse(type, g[i \div 2], g[i])
  /\ k > 1 => \A i \in 2 .. Len(g) : i \div 2 = k => NoWorse(type, g[k \div 2], g[i])

UpGo(type) == {x \in Places : x[2] > 1 /\ Wins(type, x[1][x[2]], x[1][x[2] \div 2])}

UpStep(type) ==
  [x \in Places |-> IF x \in UpGo(type) THEN <<Swap(x[1], x[2], x[2] \div 2), x[2] \div 2>> ELSE x]

\* The states of a sift_up that started with n nodes, which were C, in a heap
\* that was, if d, without equal timestamps.
UpStates(type, n, C, d) ==
  {x \in Places : /\ Len(x[1]) = n /\ Contents(x[1]) = C /\ (d => Distinct(x[1]))
                  /\ UpOrdered(type, x[1], x[2])}

\* The parent of a node is a node before it.
LEMMA HalfBelow == \A k \in Nat : k > 1 => k \div 2 \in Nat /\ k \div 2 >= 1 /\ k \div 2 < k
OBVIOUS

\* sift_up climbs.
LEMMA UpBounded ==
  ASSUME NEW type
  PROVE  Bounded(Places, UpGo(type), UpStep(type), [x \in Places |-> x[2]])
<1>1. ASSUME NEW x \in UpGo(type)
      PROVE  /\ UpStep(type)[x] = <<Swap(x[1], x[2], x[2] \div 2), x[2] \div 2>>
             /\ UpStep(type)[x] \in Places /\ x \in Places /\ x[2] \div 2 < x[2]
  <2>1. x \in Places /\ x[1] \in Seq(Order) /\ x[2] \in 1 .. Len(x[1]) /\ x[2] > 1
    BY DEF UpGo, Places
  <2>2. x[2] \div 2 \in 1 .. Len(x[1]) /\ x[2] \div 2 < x[2]
    BY <2>1, HalfBelow
  <2>3. Swap(x[1], x[2], x[2] \div 2) \in Seq(Order)
        /\ Len(Swap(x[1], x[2], x[2] \div 2)) = Len(x[1])
    BY <2>1, <2>2, SwapsTwo
  <2>4. <<Swap(x[1], x[2], x[2] \div 2), x[2] \div 2>> \in Places
    BY <2>2, <2>3 DEF Places
  <2> QED
    BY <2>1, <2>2, <2>4 DEF UpStep
<1>2. UpStep(type) \in [Places -> Places]
  BY <1>1 DEF UpStep
<1>3. \A x \in Places : x[2] \in Nat
  BY DEF Places
<1>4. \A x \in Places : x \in UpGo(type) => UpStep(type)[x][2] < x[2]
  BY <1>1
<1> QED
  BY <1>2, <1>3, <1>4 DEF Bounded

\* A round of sift_up: the node at k changes places with its parent.
LEMMA UpRound ==
  ASSUME NEW type, NEW g \in Seq(Order), NEW k \in 2 .. Len(g),
         Wins(type, g[k], g[k \div 2]), UpOrdered(type, g, k)
  PROVE  UpOrdered(type, Swap(g, k, k \div 2), k \div 2)
<1> DEFINE p == k \div 2
           w == Swap(g, k, p)
<1>1. p \in 1 .. Len(g) /\ p < k
  BY HalfBelow
<1>2. /\ w \in Seq(Order) /\ Len(w) = Len(g)
      /\ \A i \in 1 .. Len(g) : w[i] = IF i = p THEN g[k] ELSE IF i = k THEN g[p] ELSE g[i]
  <2>1. k \in 1 .. Len(g)
    OBVIOUS
  <2> HIDE DEF p
  <2>2. /\ Swap(g, k, p) \in Seq(Order) /\ Len(Swap(g, k, p)) = Len(g)
        /\ \A i \in 1 .. Len(g) : Swap(g, k, p)[i] = IF i = p THEN g[k] ELSE
                                                     IF i = k THEN g[p] ELSE g[i]
    BY ONLY <1>1, <2>1, g \in Seq(Order), SwapsTwo
  <2> QED
    BY ONLY <2>2
<1> HIDE DEF w
<1>3. \A i \in 1 .. Len(g) : g[i] \in Order
  OBVIOUS
<1>4. NoWorse(type, g[k], g[p])
  BY <1>1, <1>3, Comparator
<1>5. ASSUME NEW i \in 2 .. Len(g), i # p PROVE NoWorse(type, w[i \div 2], w[i])
  <2>1. i \div 2 \in 1 .. Len(g) /\ i \div 2 < i
    BY HalfBelow
  <2>2. CASE i = k
    BY <1>1, <1>2, <1>4, <2>2
  <2>3. CASE i # k /\ i \div 2 = k
    <3>1. w[i] = g[i] /\ w[i \div 2] = g[p]
      BY <1>1, <1>2, <1>5, <2>1, <2>3
    <3> QED
      BY <2>3, <3>1 DEF UpOrdered
  <2>4. CASE i # k /\ i \div 2 = p
    <3>1. w[i] = g[i] /\ w[i \div 2] = g[k]
      BY <1>1, <1>2, <1>5, <2>1, <2>4
    <3>2. NoWorse(type, g[p], g[i])
      BY <2>4 DEF UpOrdered
    <3> QED
      BY <1>1, <1>3, <1>4, <3>1, <3>2, Comparator
  <2>5. CASE i # k /\ i \div 2 # k /\ i \div 2 # p
    <3>1. w[i] = g[i] /\ w[i \div 2] = g[i \div 2]
      BY <1>1, <1>2, <1>5, <2>1, <2>5
    <3> QED
      BY <2>5, <3>1 DEF UpOrdered
  <2> QED
    BY <2>2, <2>3, <2>4, <2>5
<1>6. ASSUME p > 1, NEW i \in 2 .. Len(g), i \div 2 = p PROVE NoWorse(type, w[p \div 2], w[i])
  <2>1. p \div 2 \in 1 .. Len(g) /\ p \div 2 < p
    BY <1>1, <1>6, HalfBelow
  <2>2. w[p \div 2] = g[p \div 2]
    BY <1>1, <1>2, <2>1
  <2>3. NoWorse(type, g[p \div 2], g[p])
    BY <1>1, <1>6 DEF UpOrdered
  <2>4. CASE i = k
    BY <1>1, <1>2, <2>2, <2>3, <2>4
  <2>5. CASE i # k
    <3>1. i # p /\ w[i] = g[i]
      BY <1>1, <1>2, <1>6, <2>5, HalfBelow
    <3>2. NoWorse(type, g[p], g[i])
      BY <1>6, <2>5 DEF UpOrdered
    <3> QED
      BY <1>1, <1>3, <2>1, <2>2, <2>3, <3>1, <3>2, Comparator
  <2> QED
    BY <2>4, <2>5
<1> HIDE DEF p
<1>7. UpOrdered(type, w, p)
  BY <1>2, <1>5, <1>6 DEF UpOrdered
<1> QED
  BY <1>7 DEF w, p

\* sift_up keeps the nodes and, from a heap that is ordered but for its node at i,
\* makes an ordered heap.
LEMMA SiftUp ==
  ASSUME NEW type, NEW h \in Seq(Order), NEW i \in 1 .. Len(h), UpOrdered(type, h, i)
  PROVE  /\ sift_up(type, h, i) \in Seq(Order)
         /\ Len(sift_up(type, h, i)) = Len(h)
         /\ Contents(sift_up(type, h, i)) = Contents(h)
         /\ Distinct(h) => Distinct(sift_up(type, h, i))
         /\ Ordered(type, sift_up(type, h, i))
<1> DEFINE go == UpGo(type)
           step == UpStep(type)
           out == [x \in Places |-> x[1]]
           m == [x \in Places |-> x[2]]
           P == UpStates(type, Len(h), Contents(h), Distinct(h))
           Eq(f) == f = [x \in Places |->
                           IF x[2] > 1 /\ Wins(type, x[1][x[2]], x[1][x[2] \div 2])
                           THEN f[<<Swap(x[1], x[2], x[2] \div 2), x[2] \div 2>>]
                           ELSE x[1]]
           W == CHOOSE f : Eq(f)
<1>1. Bounded(Places, go, step, m)
  BY UpBounded
<1>2. PICK f : f = [x \in Places |-> IF x \in go THEN f[step[x]] ELSE out[x]]
  <2> HIDE DEF go, step, out, m
  <2> QED
    BY <1>1, LoopExists
<1>3. Eq(f)
  BY <1>2 DEF UpGo, UpStep
<1>4. Eq(W)
  <2> HIDE DEF Eq
  <2> QED
    BY <1>3
<1>5. \A x \in Places : W[x] = IF x \in go THEN W[step[x]] ELSE out[x]
  <2> HIDE DEF W
  <2> QED
    BY <1>4 DEF UpGo, UpStep
<1>6. sift_up(type, h, i) = W[<<h, i>>]
  BY DEF sift_up
<1>7. <<h, i>> \in P
  BY DEF UpStates, Places
<1>8. P \subseteq Places
  BY DEF UpStates
<1>9. ASSUME NEW x \in P, x \in go PROVE step[x] \in P
  <2>1. /\ x \in Places /\ Len(x[1]) = Len(h) /\ Contents(x[1]) = Contents(h)
        /\ (Distinct(h) => Distinct(x[1])) /\ UpOrdered(type, x[1], x[2])
    BY DEF UpStates
  <2>2. x[1] \in Seq(Order) /\ x[2] \in 2 .. Len(x[1]) /\ Wins(type, x[1][x[2]], x[1][x[2] \div 2])
    BY <1>9 DEF UpGo, Places
  <2> DEFINE p == x[2] \div 2
             w == Swap(x[1], x[2], p)
  <2>3. step[x] = <<w, p>> /\ step[x] \in Places
    BY <1>1, <1>9, <2>1 DEF UpStep, Bounded
  <2>4. p \in 1 .. Len(x[1])
    BY <2>2, HalfBelow
  <2>5. /\ Len(w) = Len(h) /\ Contents(w) = Contents(h) /\ (Distinct(h) => Distinct(w))
    <3>1. x[2] \in 1 .. Len(x[1])
      BY <2>2
    <3> HIDE DEF p
    <3>2. Len(w) = Len(x[1]) /\ Contents(w) = Contents(x[1]) /\ (Distinct(x[1]) => Distinct(w))
      BY ONLY <2>2, <2>4, <3>1, SwapKeeps
    <3> QED
      BY ONLY <2>1, <3>2
  <2>6. UpOrdered(type, w, p)
    BY <2>1, <2>2, UpRound
  <2> HIDE DEF w, p, step
  <2> QED
    BY <2>3, <2>5, <2>6 DEF UpStates
<1>10. PICK y \in P : y \notin go /\ W[<<h, i>>] = out[y]
  <2> HIDE DEF go, step, out, m, P, W
  <2>1. \A x \in P : x \in go => step[x] \in P
    BY <1>9
  <2>2. \A x \in P : \E y \in P : y \notin go /\ W[x] = out[y]
    BY ONLY <1>1, <1>5, <1>8, <2>1, LoopInvariant
  <2> QED
    BY <1>7, <2>2
<1>11. /\ y \in Places /\ Len(y[1]) = Len(h) /\ Contents(y[1]) = Contents(h)
       /\ (Distinct(h) => Distinct(y[1])) /\ UpOrdered(type, y[1], y[2])
       /\ y[1] \in Seq(Order) /\ y[2] \in 1 .. Len(y[1])
  BY DEF UpStates, Places
<1>12. ASSUME NEW j \in 2 .. Len(y[1]) PROVE NoWorse(type, y[1][j \div 2], y[1][j])
  <2>1. CASE j # y[2]
    BY <1>11, <2>1 DEF UpOrdered
  <2>2. CASE j = y[2]
    <3>1. ~ Wins(type, y[1][j], y[1][j \div 2])
      BY <1>10, <1>11, <2>2 DEF UpGo
    <3>2. j \div 2 \in 1 .. Len(y[1])
      BY <1>11, HalfBelow
    <3> QED
      BY <1>11, <3>1, <3>2, Comparator
  <2> QED
    BY <2>1, <2>2
<1>13. Ordered(type, y[1])
  BY <1>12 DEF Ordered, NoWorse
<1>14. sift_up(type, h, i) = y[1]
  BY <1>6, <1>10, <1>11
<1> QED
  BY <1>11, <1>13, <1>14

-----------------------------------------------------------------------------
(* sift_down.                                                               *)

\* The heap is ordered but for the node at k, which its children may precede.
DownOrdered(type, g, k) ==
  /\ \A i \in 2 .. Len(g) : i \div 2 # k => NoWorse(type, g[i \div 2], g[i])
  /\ k > 1 => \A i \in 2 .. Len(g) : i \div 2 = k => NoWorse(type, g[k \div 2], g[i])

DownGo(type) == {x \in Places : Best(type, x[1], x[2]) # x[2]}

DownStep(type) ==
  [x \in Places |-> IF x \in DownGo(type)
                    THEN <<Swap(x[1], x[2], Best(type, x[1], x[2])), Best(type, x[1], x[2])>>
                    ELSE x]

DownStates(type, n, C, d) ==
  {x \in Places : /\ Len(x[1]) = n /\ Contents(x[1]) = C /\ (d => Distinct(x[1]))
                  /\ DownOrdered(type, x[1], x[2])}

\* The best of a node and its children is no worse than any of them.
LEMMA BestOfThree ==
  ASSUME NEW type, NEW g \in Seq(Order), NEW k \in 1 .. Len(g)
  PROVE  /\ Best(type, g, k) \in 1 .. Len(g)
         /\ Best(type, g, k) # k => /\ Best(type, g, k) > k /\ Best(type, g, k) \div 2 = k
                                    /\ NoWorse(type, g[Best(type, g, k)], g[k])
         /\ \A i \in 2 .. Len(g) : i \div 2 = k => NoWorse(type, g[Best(type, g, k)], g[i])
<1> DEFINE left == IF 2 * k <= Len(g) /\ Wins(type, g[2 * k], g[k]) THEN 2 * k ELSE k
           b == Best(type, g, k)
<1>1. \A i \in 1 .. Len(g) : g[i] \in Order
  OBVIOUS
<1>2. \A o \in Order : NoWorse(type, o, o)
  BY DEF NoWorse, Order
<1>3. left \in 1 .. Len(g) /\ left \in {k, 2 * k} /\ NoWorse(type, g[left], g[k])
      /\ (2 * k <= Len(g) => NoWorse(type, g[left], g[2 * k]))
  <2>1. CASE 2 * k <= Len(g) /\ Wins(type, g[2 * k], g[k])
    <3>1. left = 2 * k /\ 2 * k \in 1 .. Len(g)
      BY <2>1
    <3> QED
      BY <1>1, <1>2, <2>1, <3>1, Comparator
  <2>2. CASE ~ (2 * k <= Len(g) /\ Wins(type, g[2 * k], g[k]))
    <3>1. left = k
      BY <2>2
    <3>2. ASSUME 2 * k <= Len(g) PROVE NoWorse(type, g[k], g[2 * k])
      <4>1. 2 * k \in 1 .. Len(g) /\ ~ Wins(type, g[2 * k], g[k])
        BY <2>2, <3>2
      <4> QED
        BY <1>1, <4>1, Comparator
    <3> QED
      BY <1>1, <1>2, <3>1, <3>2
  <2> QED
    BY <2>1, <2>2
<1>4. b = IF 2 * k + 1 <= Len(g) /\ Wins(type, g[2 * k + 1], g[left]) THEN 2 * k + 1 ELSE left
  BY DEF Best
<1> HIDE DEF left, b
<1>5. /\ b \in 1 .. Len(g) /\ b \in {k, 2 * k, 2 * k + 1} /\ NoWorse(type, g[b], g[k])
      /\ (2 * k <= Len(g) => NoWorse(type, g[b], g[2 * k]))
      /\ (2 * k + 1 <= Len(g) => NoWorse(type, g[b], g[2 * k + 1]))
  <2>1. CASE 2 * k + 1 <= Len(g) /\ Wins(type, g[2 * k + 1], g[left])
    <3>1. b = 2 * k + 1 /\ b \in 1 .. Len(g)
      BY <1>4, <2>1
    <3>2. NoWorse(type, g[b], g[left]) /\ NoWorse(type, g[b], g[b])
      BY <1>1, <1>2, <1>3, <2>1, <3>1, Comparator
    <3>3. NoWorse(type, g[b], g[k])
      BY <1>1, <1>3, <3>1, <3>2, Comparator
    <3>4. ASSUME 2 * k <= Len(g) PROVE NoWorse(type, g[b], g[2 * k])
      <4>1. 2 * k \in 1 .. Len(g)
        BY <3>4
      <4> QED
        BY <1>1, <1>3, <3>1, <3>2, <3>4, <4>1, Comparator
    <3> QED
      BY <3>1, <3>2, <3>3, <3>4
  <2>2. CASE ~ (2 * k + 1 <= Len(g) /\ Wins(type, g[2 * k + 1], g[left]))
    <3>1. b = left
      BY <1>4, <2>2
    <3>2. ASSUME 2 * k + 1 <= Len(g) PROVE NoWorse(type, g[left], g[2 * k + 1])
      <4>1. 2 * k + 1 \in 1 .. Len(g) /\ ~ Wins(type, g[2 * k + 1], g[left])
        BY <2>2, <3>2
      <4> QED
        BY <1>1, <1>3, <4>1, Comparator
    <3> QED
      BY <1>3, <3>1, <3>2
  <2> QED
    BY <2>1, <2>2
<1>6. b # k => b > k /\ b \div 2 = k
  BY <1>5
<1>7. \A i \in 2 .. Len(g) : i \div 2 = k => i = 2 * k \/ i = 2 * k + 1
  OBVIOUS
<1>8. \A i \in 2 .. Len(g) : i \div 2 = k => NoWorse(type, g[b], g[i])
  BY <1>5, <1>7
<1> QED
  BY <1>5, <1>6, <1>8 DEF b

\* sift_down sinks.
LEMMA DownBounded ==
  ASSUME NEW type
  PROVE  Bounded(Places, DownGo(type), DownStep(type), [x \in Places |-> Len(x[1]) - x[2]])
<1>1. ASSUME NEW x \in DownGo(type)
      PROVE  /\ DownStep(type)[x]
                  = <<Swap(x[1], x[2], Best(type, x[1], x[2])), Best(type, x[1], x[2])>>
             /\ DownStep(type)[x] \in Places /\ x \in Places
             /\ Len(DownStep(type)[x][1]) - DownStep(type)[x][2] < Len(x[1]) - x[2]
  <2> DEFINE b == Best(type, x[1], x[2])
             w == Swap(x[1], x[2], b)
  <2>1. x \in Places /\ x[1] \in Seq(Order) /\ x[2] \in 1 .. Len(x[1]) /\ b # x[2]
    BY DEF DownGo, Places
  <2>2. b \in 1 .. Len(x[1]) /\ b > x[2]
    BY <2>1, BestOfThree
  <2>3. DownStep(type)[x] = <<w, b>>
    BY <2>1 DEF DownStep
  <2> HIDE DEF b
  <2>4. w \in Seq(Order) /\ Len(w) = Len(x[1])
    BY ONLY <2>1, <2>2, SwapKeeps
  <2> HIDE DEF w
  <2>5. <<w, b>> \in Places
    BY <2>2, <2>4 DEF Places
  <2> QED
    BY <2>1, <2>2, <2>3, <2>4, <2>5 DEF w, b
<1>2. DownStep(type) \in [Places -> Places]
  BY <1>1 DEF DownStep
<1>3. \A x \in Places : Len(x[1]) - x[2] \in Nat
  BY DEF Places
<1>4. \A x \in Places : x \in DownGo(type) =>
        Len(DownStep(type)[x][1]) - DownStep(type)[x][2] < Len(x[1]) - x[2]
  BY <1>1
<1> QED
  BY <1>1, <1>2, <1>3, <1>4 DEF Bounded

\* A round of sift_down: the node at k changes places with its better child.
LEMMA DownRound ==
  ASSUME NEW type, NEW g \in Seq(Order), NEW k \in 1 .. Len(g),
         Best(type, g, k) # k, DownOrdered(type, g, k)
  PROVE  DownOrdered(type, Swap(g, k, Best(type, g, k)), Best(type, g, k))
<1> DEFINE b == Best(type, g, k)
           w == Swap(g, k, b)
<1>1. /\ b \in 1 .. Len(g) /\ b > k /\ b \div 2 = k
      /\ NoWorse(type, g[b], g[k])
      /\ \A i \in 2 .. Len(g) : i \div 2 = k => NoWorse(type, g[b], g[i])
  BY BestOfThree
<1> HIDE DEF b
<1>2. /\ w \in Seq(Order) /\ Len(w) = Len(g)
      /\ \A i \in 1 .. Len(g) : w[i] = IF i = b THEN g[k] ELSE IF i = k THEN g[b] ELSE g[i]
  <2>1. b \in 1 .. Len(g)
    BY <1>1
  <2> QED
    BY ONLY <2>1, SwapsTwo
<1> HIDE DEF w
<1>3. \A i \in 1 .. Len(g) : g[i] \in Order
  OBVIOUS
<1>4. ASSUME NEW i \in 2 .. Len(g), i \div 2 # b PROVE NoWorse(type, w[i \div 2], w[i])
  <2>1. i \div 2 \in 1 .. Len(g) /\ i \div 2 < i
    BY HalfBelow
  <2>2. CASE i = b
    <3>1. w[i] = g[k] /\ w[i \div 2] = g[b]
      BY <1>1, <1>2, <2>2
    <3> QED
      BY <1>1, <3>1
  <2>3. CASE i = k
    <3>1. w[i] = g[b] /\ w[i \div 2] = g[k \div 2]
      BY <1>1, <1>2, <1>4, <2>1, <2>3
    <3>2. b \in 2 .. Len(g) /\ k > 1
      BY <1>1, <2>3
    <3> QED
      BY <1>1, <3>1, <3>2 DEF DownOrdered
  <2>4. CASE i # b /\ i # k /\ i \div 2 = k
    <3>1. w[i] = g[i] /\ w[i \div 2] = g[b]
      BY <1>1, <1>2, <2>1, <2>4
    <3> QED
      BY <1>1, <2>4, <3>1
  <2>5. CASE i # b /\ i # k /\ i \div 2 # k
    <3>1. w[i] = g[i] /\ w[i \div 2] = g[i \div 2]
      BY <1>1, <1>2, <1>4, <2>1, <2>5
    <3> QED
      BY <2>5, <3>1 DEF DownOrdered
  <2> QED
    BY <2>2, <2>3, <2>4, <2>5
<1>5. ASSUME NEW i \in 2 .. Len(g), i \div 2 = b PROVE NoWorse(type, w[b \div 2], w[i])
  <2>1. i \div 2 < i
    BY HalfBelow
  <2>2. w[i] = g[i] /\ w[b \div 2] = g[b]
    BY <1>1, <1>2, <1>5, <2>1
  <2> QED
    BY <1>1, <1>5, <2>2 DEF DownOrdered
<1>6. DownOrdered(type, w, b)
  BY <1>2, <1>4, <1>5 DEF DownOrdered
<1> QED
  BY <1>6 DEF w, b

\* sift_down keeps the nodes and, from a heap that is ordered but for its node
\* at i, makes an ordered heap.
LEMMA SiftDown ==
  ASSUME NEW type, NEW h \in Seq(Order), NEW i \in 1 .. Len(h), DownOrdered(type, h, i)
  PROVE  /\ sift_down(type, h, i) \in Seq(Order)
         /\ Len(sift_down(type, h, i)) = Len(h)
         /\ Contents(sift_down(type, h, i)) = Contents(h)
         /\ Distinct(h) => Distinct(sift_down(type, h, i))
         /\ Ordered(type, sift_down(type, h, i))
<1> DEFINE go == DownGo(type)
           step == DownStep(type)
           out == [x \in Places |-> x[1]]
           m == [x \in Places |-> Len(x[1]) - x[2]]
           P == DownStates(type, Len(h), Contents(h), Distinct(h))
           Eq(f) == f = [x \in Places |->
                           IF Best(type, x[1], x[2]) # x[2]
                           THEN f[<<Swap(x[1], x[2], Best(type, x[1], x[2])),
                                    Best(type, x[1], x[2])>>]
                           ELSE x[1]]
           W == CHOOSE f : Eq(f)
<1>1. Bounded(Places, go, step, m)
  BY DownBounded
<1>2. PICK f : f = [x \in Places |-> IF x \in go THEN f[step[x]] ELSE out[x]]
  <2> HIDE DEF go, step, out, m
  <2> QED
    BY <1>1, LoopExists
<1>3. Eq(f)
  BY <1>2 DEF DownGo, DownStep
<1>4. Eq(W)
  <2> HIDE DEF Eq
  <2> QED
    BY <1>3
<1>5. \A x \in Places : W[x] = IF x \in go THEN W[step[x]] ELSE out[x]
  <2> HIDE DEF W
  <2> QED
    BY <1>4 DEF DownGo, DownStep
<1>6. sift_down(type, h, i) = W[<<h, i>>]
  BY DEF sift_down
<1>7. <<h, i>> \in P
  BY DEF DownStates, Places
<1>8. P \subseteq Places
  BY DEF DownStates
<1>9. ASSUME NEW x \in P, x \in go PROVE step[x] \in P
  <2>1. /\ x \in Places /\ Len(x[1]) = Len(h) /\ Contents(x[1]) = Contents(h)
        /\ (Distinct(h) => Distinct(x[1])) /\ DownOrdered(type, x[1], x[2])
    BY DEF DownStates
  <2> DEFINE b == Best(type, x[1], x[2])
             w == Swap(x[1], x[2], b)
  <2>2. x[1] \in Seq(Order) /\ x[2] \in 1 .. Len(x[1]) /\ b # x[2]
    BY <1>9 DEF DownGo, Places
  <2>3. step[x] = <<w, b>> /\ step[x] \in Places
    BY <1>1, <1>9, <2>1 DEF DownStep, Bounded
  <2>4. b \in 1 .. Len(x[1])
    BY <2>2, BestOfThree
  <2>5. /\ Len(w) = Len(h) /\ Contents(w) = Contents(h) /\ (Distinct(h) => Distinct(w))
    <3> HIDE DEF b
    <3>1. Len(w) = Len(x[1]) /\ Contents(w) = Contents(x[1]) /\ (Distinct(x[1]) => Distinct(w))
      BY ONLY <2>2, <2>4, SwapKeeps
    <3> QED
      BY ONLY <2>1, <3>1
  <2>6. DownOrdered(type, w, b)
    BY <2>1, <2>2, DownRound
  <2> HIDE DEF w, b, step
  <2> QED
    BY <2>3, <2>5, <2>6 DEF DownStates
<1>10. PICK y \in P : y \notin go /\ W[<<h, i>>] = out[y]
  <2> HIDE DEF go, step, out, m, P, W
  <2>1. \A x \in P : x \in go => step[x] \in P
    BY <1>9
  <2>2. \A x \in P : \E y \in P : y \notin go /\ W[x] = out[y]
    BY ONLY <1>1, <1>5, <1>8, <2>1, LoopInvariant
  <2> QED
    BY <1>7, <2>2
<1>11. /\ y \in Places /\ Len(y[1]) = Len(h) /\ Contents(y[1]) = Contents(h)
       /\ (Distinct(h) => Distinct(y[1])) /\ DownOrdered(type, y[1], y[2])
       /\ y[1] \in Seq(Order) /\ y[2] \in 1 .. Len(y[1])
  BY DEF DownStates, Places
<1>12. ASSUME NEW j \in 2 .. Len(y[1]) PROVE NoWorse(type, y[1][j \div 2], y[1][j])
  <2>1. CASE j \div 2 # y[2]
    BY <1>11, <2>1 DEF DownOrdered
  <2>2. CASE j \div 2 = y[2]
    <3>1. Best(type, y[1], y[2]) = y[2]
      BY <1>10, <1>11 DEF DownGo
    <3>2. NoWorse(type, y[1][Best(type, y[1], y[2])], y[1][j])
      BY <1>11, <2>2, BestOfThree
    <3> QED
      BY <2>2, <3>1, <3>2
  <2> QED
    BY <2>1, <2>2
<1>13. Ordered(type, y[1])
  BY <1>12 DEF Ordered, NoWorse
<1>14. sift_down(type, h, i) = y[1]
  BY <1>6, <1>10, <1>11
<1> QED
  BY <1>11, <1>13, <1>14

-----------------------------------------------------------------------------
(* push, pop and update.                                                    *)

\* Ordered, in terms of NoWorse.
LEMMA OrderedMeans ==
  ASSUME NEW type, NEW h
  PROVE  Ordered(type, h) <=> \A i \in 2 .. Len(h) : NoWorse(type, h[i \div 2], h[i])
BY DEF Ordered, NoWorse

\* push adds the order and keeps the heap ordered.
LEMMA Pushed ==
  ASSUME NEW type, NEW h \in Seq(Order), Ordered(type, h), NEW o \in Order
  PROVE  /\ push(type, h, o) \in Seq(Order) /\ Len(push(type, h, o)) = Len(h) + 1
         /\ Contents(push(type, h, o)) = Contents(h) \cup {o}
         /\ Distinct(h) /\ (\A x \in Contents(h) : x.ts # o.ts) => Distinct(push(type, h, o))
         /\ Ordered(type, push(type, h, o))
<1> DEFINE g == Append(h, o)
           n == Len(h) + 1
<1>1. /\ g \in Seq(Order) /\ Len(g) = n /\ n \in 1 .. Len(g) /\ g[n] = o
      /\ \A i \in 1 .. Len(h) : g[i] = h[i]
  OBVIOUS
<1> HIDE DEF g
<1>2. UpOrdered(type, g, n)
  <2>1. ASSUME NEW i \in 2 .. Len(g), i # n PROVE NoWorse(type, g[i \div 2], g[i])
    <3>1. i \in 2 .. Len(h) /\ i \div 2 \in 1 .. Len(h)
      BY <1>1, <2>1, HalfBelow
    <3> QED
      BY <1>1, <3>1, OrderedMeans
  <2>2. \A i \in 2 .. Len(g) : i \div 2 # n
    BY <1>1, HalfBelow
  <2> HIDE DEF n
  <2> QED
    BY <2>1, <2>2 DEF UpOrdered
<1>3. Contents(g) = Contents(h) \cup {o}
  <2>1. ASSUME NEW i \in 1 .. Len(h) PROVE h[i] \in Contents(g)
    BY <1>1 DEF Contents
  <2>2. o \in Contents(g)
    BY <1>1 DEF Contents
  <2>3. \A i \in 1 .. Len(g) : i \in 1 .. Len(h) \/ g[i] = o
    BY <1>1
  <2> QED
    BY <1>1, <2>1, <2>2, <2>3 DEF Contents
<1>4. Distinct(h) /\ (\A x \in Contents(h) : x.ts # o.ts) => Distinct(g)
  <2>1. SUFFICES ASSUME Distinct(h), \A x \in Contents(h) : x.ts # o.ts,
                        NEW i \in 1 .. Len(g), NEW j \in 1 .. Len(g), g[i].ts = g[j].ts
                 PROVE  i = j
    BY DEF Distinct
  <2>2. \A k \in 1 .. Len(h) : g[k].ts # o.ts
    BY <1>1, <2>1 DEF Contents
  <2>3. (i \in 1 .. Len(h) \/ i = n) /\ (j \in 1 .. Len(h) \/ j = n)
    BY <1>1
  <2> QED
    BY <1>1, <2>1, <2>2, <2>3 DEF Distinct
<1>5. push(type, h, o) = sift_up(type, g, n)
  BY DEF push, g
<1> HIDE DEF n
<1>6. /\ sift_up(type, g, n) \in Seq(Order) /\ Len(sift_up(type, g, n)) = Len(g)
      /\ Contents(sift_up(type, g, n)) = Contents(g)
      /\ (Distinct(g) => Distinct(sift_up(type, g, n))) /\ Ordered(type, sift_up(type, g, n))
  BY <1>1, <1>2, SiftUp
<1> QED
  BY <1>1, <1>3, <1>4, <1>5, <1>6 DEF n

\* What pop hands to sift_down: the last node in place of the root.
Shortened(h) == SubSeq([h EXCEPT ![1] = h[Len(h)]], 1, Len(h) - 1)

\* It is ordered but for its root.
LEMMA ShortenedHeap ==
  ASSUME NEW type, NEW h \in Seq(Order), Len(h) > 1, Ordered(type, h)
  PROVE  /\ Shortened(h) \in Seq(Order) /\ Len(Shortened(h)) = Len(h) - 1
         /\ \A i \in 1 .. Len(h) - 1 : Shortened(h)[i] = IF i = 1 THEN h[Len(h)] ELSE h[i]
         /\ DownOrdered(type, Shortened(h), 1)
<1> DEFINE g == Shortened(h)
<1>1. g \in Seq(Order) /\ Len(g) = Len(h) - 1
  BY DEF Shortened
<1>2. \A i \in 1 .. Len(h) - 1 : g[i] = IF i = 1 THEN h[Len(h)] ELSE h[i]
  BY DEF Shortened
<1> HIDE DEF g
<1>3. ASSUME NEW i \in 2 .. Len(g), i \div 2 # 1 PROVE NoWorse(type, g[i \div 2], g[i])
  <2>1. i \div 2 \in 1 .. Len(g) /\ i \in 2 .. Len(h)
    BY <1>1, HalfBelow
  <2>2. g[i] = h[i] /\ g[i \div 2] = h[i \div 2]
    BY <1>1, <1>2, <1>3, <2>1
  <2> QED
    BY <2>1, <2>2, OrderedMeans
<1>4. DownOrdered(type, g, 1)
  BY <1>3 DEF DownOrdered
<1> QED
  BY <1>1, <1>2, <1>4 DEF g

\* pop removes the root and keeps the heap ordered.
LEMMA Popped ==
  ASSUME NEW type, NEW h \in Seq(Order), Len(h) > 0, Ordered(type, h)
  PROVE  /\ pop(type, h) \in Seq(Order) /\ Len(pop(type, h)) = Len(h) - 1
         /\ Contents(pop(type, h)) \subseteq Contents(h)
         /\ Distinct(h) => /\ Distinct(pop(type, h))
                           /\ Contents(pop(type, h)) = Contents(h) \ {peek(h)}
         /\ Ordered(type, pop(type, h))
<1>1. CASE Len(h) = 1
  <2>1. pop(type, h) = <<>>
    BY <1>1 DEF pop
  <2>2. Len(<<>>) = 0 /\ Contents(<<>>) = {} /\ Distinct(<<>>)
    BY DEF Contents, Distinct
  <2>3. Contents(h) = {peek(h)}
    BY <1>1 DEF Contents, peek
  <2>4. Ordered(type, <<>>)
    BY <2>2, OrderedMeans
  <2> QED
    BY <1>1, <2>1, <2>2, <2>3, <2>4
<1>2. CASE Len(h) > 1
  <2> DEFINE g == Shortened(h)
             n == Len(h)
  <2>1. pop(type, h) = sift_down(type, g, 1)
    BY <1>2 DEF pop, Shortened
  <2>2. /\ g \in Seq(Order) /\ Len(g) = n - 1 /\ DownOrdered(type, g, 1)
        /\ \A i \in 1 .. n - 1 : g[i] = IF i = 1 THEN h[n] ELSE h[i]
    BY <1>2, ShortenedHeap
  <2> HIDE DEF g
  <2>3. n \in Nat /\ n > 1 /\ 1 \in 1 .. Len(g)
    BY <1>2, <2>2
  <2>4. Contents(g) \subseteq Contents(h)
    BY <2>2, <2>3 DEF Contents
  <2>5. ASSUME Distinct(h) PROVE Distinct(g) /\ Contents(g) = Contents(h) \ {peek(h)}
    <3>1. Distinct(g)
      BY <2>2, <2>3, <2>5 DEF Distinct
    <3>2. \A i \in 1 .. Len(g) : g[i] # peek(h)
      BY <2>2, <2>3, <2>5 DEF Distinct, peek
    <3>3. ASSUME NEW i \in 1 .. n, h[i] # peek(h) PROVE h[i] \in Contents(g)
      <4>1. CASE i = n
        BY <2>2, <2>3, <4>1 DEF Contents
      <4>2. CASE i # n
        <5>1. i \in 1 .. Len(g) /\ g[i] = h[i]
          BY <2>2, <2>3, <3>3, <4>2 DEF peek
        <5> QED
          BY <5>1 DEF Contents
      <4> QED
        BY <4>1, <4>2
    <3>4. \A o \in Contents(g) : o \in Contents(h) /\ o # peek(h)
      BY <2>4, <3>2 DEF Contents
    <3>5. \A o \in Contents(h) : o # peek(h) => o \in Contents(g)
      BY <3>3 DEF Contents
    <3> QED
      BY <3>1, <3>4, <3>5
  <2> HIDE DEF n
  <2>6. Len(pop(type, h)) = n - 1 /\ pop(type, h) \in Seq(Order)
        /\ Contents(pop(type, h)) = Contents(g) /\ (Distinct(g) => Distinct(pop(type, h)))
        /\ Ordered(type, pop(type, h))
    BY <2>1, <2>2, <2>3, SiftDown
  <2> QED
    BY <2>4, <2>5, <2>6 DEF n
<1> QED
  BY SMTT(30), <1>1, <1>2

\* Sixteen bits: a number, and the same one if it is small enough.
Small(n) == n \in 0 .. 2^15 - 1

LEMMA ShortIsInt ==
  \A n \in Int : Short(n) \in Int /\ (Short(n) >= 0 => Small(Short(n))) /\ (Small(n) => Short(n) = n)
<1>1. 2^15 = 32768 /\ 2^16 = 65536
  OBVIOUS
<1> QED
  BY <1>1 DEF Short, Small

\* update changes the amount of the root, which the order of the heap does not
\* depend on.
LEMMA Updated ==
  ASSUME NEW type, NEW h \in Seq(Order), Len(h) > 0, Ordered(type, h), NEW a \in Int
  PROVE  /\ update(h, a) \in Seq(Order) /\ Len(update(h, a)) = Len(h)
         /\ Contents(update(h, a)) \subseteq Contents(h) \cup {[peek(h) EXCEPT !.amount = Short(a)]}
         /\ Distinct(h) => /\ Distinct(update(h, a))
                           /\ Contents(update(h, a))
                                = (Contents(h) \ {peek(h)}) \cup {[peek(h) EXCEPT !.amount = Short(a)]}
         /\ Ordered(type, update(h, a))
<1> DEFINE g == update(h, a)
           c == Short(a)
           r == [peek(h) EXCEPT !.amount = c]
<1>1. /\ r \in Order /\ r.ts = peek(h).ts /\ r.price = peek(h).price
      /\ r.timestamp = peek(h).timestamp
  <2>1. h[1] \in Order /\ c \in Int
    BY ShortIsInt
  <2> HIDE DEF c
  <2>2. /\ [h[1] EXCEPT !.amount = c] \in Order /\ [h[1] EXCEPT !.amount = c].ts = h[1].ts
        /\ [h[1] EXCEPT !.amount = c].price = h[1].price
        /\ [h[1] EXCEPT !.amount = c].timestamp = h[1].timestamp
    BY <2>1 DEF Order
  <2> QED
    BY <2>2 DEF peek
<1>2. g = [h EXCEPT ![1] = r]
  BY DEF update, peek
<1> HIDE DEF g, r
<1>3. /\ g \in Seq(Order) /\ Len(g) = Len(h) /\ 1 \in 1 .. Len(h)
      /\ \A i \in 1 .. Len(h) : g[i] = IF i = 1 THEN r ELSE h[i]
  BY <1>1, <1>2
<1>4. \A i \in 1 .. Len(h) : g[i].ts = h[i].ts /\ g[i].price = h[i].price
                             /\ g[i].timestamp = h[i].timestamp
  BY <1>1, <1>3 DEF peek
<1>5. \A i \in 2 .. Len(h) : NoWorse(type, g[i \div 2], g[i])
  <2>1. TAKE i \in 2 .. Len(h)
  <2>2. i \div 2 \in 1 .. Len(h) /\ NoWorse(type, h[i \div 2], h[i])
    BY HalfBelow, OrderedMeans
  <2> QED
    BY <1>4, <2>2 DEF NoWorse
<1>6. Contents(g) \subseteq Contents(h) \cup {r}
  BY <1>3 DEF Contents
<1>7. ASSUME Distinct(h) PROVE Distinct(g) /\ Contents(g) = (Contents(h) \ {peek(h)}) \cup {r}
  <2>1. Distinct(g)
    BY <1>3, <1>4, <1>7 DEF Distinct
  <2>2. r \in Contents(g)
    BY <1>3 DEF Contents
  <2>3. ASSUME NEW i \in 1 .. Len(h), h[i] # peek(h) PROVE h[i] \in Contents(g)
    <3>1. g[i] = h[i]
      BY <1>3, <2>3 DEF peek
    <3> QED
      BY <1>3, <3>1 DEF Contents
  <2>4. ASSUME NEW i \in 1 .. Len(h), i # 1 PROVE g[i] \in Contents(h) /\ g[i] # peek(h)
    <3>1. g[i] = h[i] /\ h[i].ts # h[1].ts
      BY <1>3, <1>7, <2>4 DEF Distinct
    <3> QED
      BY <3>1 DEF Contents, peek
  <2> QED
    BY SMTT(30), <1>3, <2>1, <2>2, <2>3, <2>4 DEF Contents
<1>8. Ordered(type, g)
  BY <1>3, <1>5, OrderedMeans
<1> QED
  BY <1>3, <1>6, <1>7, <1>8 DEF g, r

\* The root of an ordered heap is no worse than any of its nodes.
LEMMA RootFirst ==
  ASSUME NEW type, NEW h \in Seq(Order), Len(h) > 0, Ordered(type, h)
  PROVE  peek(h) \in Contents(h) /\ \A o \in Contents(h) : NoWorse(type, peek(h), o)
<1>1. \A i \in 1 .. Len(h) : h[i] \in Order
  OBVIOUS
<1> DEFINE T == {i \in 1 .. Len(h) : ~ NoWorse(type, h[1], h[i])}
<1>2. T = {}
  <2> SUFFICES ASSUME T # {} PROVE FALSE
    OBVIOUS
  <2>1. T \subseteq Nat
    OBVIOUS
  <2>2. PICK i \in T : \A j \in T : i <= j
    <3> HIDE DEF T
    <3> QED
      BY <2>1, LeastNat
  <2>3. i # 1
    BY <1>1 DEF NoWorse, Order
  <2>4. i \in 2 .. Len(h) /\ i \div 2 \in 1 .. Len(h) /\ i \div 2 < i
    BY <2>3, HalfBelow
  <2>5. NoWorse(type, h[1], h[i \div 2])
    BY <2>2, <2>4
  <2>6. NoWorse(type, h[i \div 2], h[i])
    BY <2>4, OrderedMeans
  <2>7. NoWorse(type, h[1], h[i])
    BY <1>1, <2>4, <2>5, <2>6, Comparator
  <2> QED
    BY <2>7
<1> QED
  BY <1>2 DEF Contents, peek

-----------------------------------------------------------------------------
(* The inductive invariant.                                                 *)

InputInv ==
  /\ pc \in {"main", "csv", "next", "check", "cleanup", "exited"}
  /\ now \in Nat /\ orders \in 0 .. MAX_ORDERS
  /\ ob \in Symbols \cup {NoSymbol} /\ (pc \in {"check", "cleanup"} => ob \in Symbols)
  /\ max_files \in Nat

HeapInv ==
  /\ asks \in [Symbols -> Seq(Order)] /\ bids \in [Symbols -> Seq(Order)]
  /\ HeapsOrdered

StatInv ==
  /\ trades \in [Symbols -> Nat] /\ exact \in [Symbols -> Nat]
  /\ overflow_accesses \in Nat /\ hard_rejects \in Nat

\* An order leaves results.txt open once at most, and not before its matching
\* is over.
FilesInv ==
  /\ files \in 0 .. max_files
  /\ pc \in {"main", "csv"} => orders = 0 /\ files = 0
  /\ pc = "next" => files <= orders
  /\ pc \in {"check", "cleanup"} => files < orders
  /\ ExitsLate

MemType ==
  /\ virtual_pages \in [Symbols -> Seq(Frames)]
  /\ nodes_in_curr_page \in [Symbols -> 0 .. PAGE_SIZE]
  /\ free_bitmap \subseteq Frames
  /\ owner_symbol \in [Frames -> Int] /\ node_count \in [Frames -> 0 .. PAGE_SIZE]
  /\ overflow \in 0 .. OVERFLOW_PAGE_SIZE

Known(s) == \E i \in 1 .. Len(books) : books[i] = s

\* Every symbol has one book.
OneBook ==
  /\ books \in Seq(Symbols)
  /\ \A i, j \in 1 .. Len(books) : books[i] = books[j] => i = j

\* The pages of a book are not free and the book's own.
PagesUsed ==
  \A s \in Symbols : \A i \in 1 .. Len(virtual_pages[s]) :
    /\ virtual_pages[s][i] \notin free_bitmap
    /\ owner_symbol[virtual_pages[s][i]] = SymId(s) /\ Known(s)

\* No frame is two pages.
PagesDistinct ==
  \A s, t \in Symbols : \A i \in 1 .. Len(virtual_pages[s]) : \A j \in 1 .. Len(virtual_pages[t]) :
    virtual_pages[s][i] = virtual_pages[t][j] => s = t /\ i = j

\* A frame that is not free is a page of some book.
NoneLost ==
  \A f \in Frames : f \notin free_bitmap =>
    \E s \in Symbols : \E i \in 1 .. Len(virtual_pages[s]) : virtual_pages[s][i] = f

FreeBlank == \A f \in free_bitmap : owner_symbol[f] = -1 /\ node_count[f] = 0

MemInv == MemType /\ OneBook /\ PagesUsed /\ PagesDistinct /\ NoneLost /\ FreeBlank /\ PagesFilled

\* While the overflow page was not needed the pages of a book are charged for its
\* nodes, one more per exact match (post_trade_cleanup gives back one of two), and
\* one for a trade that waits for its cleanup.
ChargeInv ==
  overflow_accesses = 0 =>
    \A s \in Symbols :
      Charged(s) = Nodes(s) + exact[s] + (IF pc = "cleanup" /\ ob = s THEN 1 ELSE 0)

SimInv == InputInv /\ HeapInv /\ StatInv /\ FilesInv /\ MemInv /\ ChargeInv

-----------------------------------------------------------------------------
(* Books and frames.                                                        *)

\* find_or_create_book gives a symbol its one book and moves no other.
LEMMA BookGrows ==
  ASSUME OneBook, NEW s \in Symbols, find_or_create_book(s)
  PROVE  /\ OneBook' /\ Known(s)' /\ SymId(s)' = SymId(s)
         /\ \A t \in Symbols : Known(t) => Known(t)' /\ SymId(t)' = SymId(t)
<1>1. books \in Seq(Symbols) /\ DOMAIN books = 1 .. Len(books) /\ Len(books) \in Nat
  BY DEF OneBook
<1>2. ASSUME NEW t \in Symbols, NEW i \in 1 .. Len(books), books[i] = t
      PROVE  SymId(t) = i - 1
  <2>1. (CHOOSE j \in DOMAIN books : books[j] = t) = i
    BY <1>1, <1>2 DEF OneBook
  <2> QED
    BY <1>1, <1>2, <2>1 DEF SymId
<1>3. CASE Known(s)
  <2>1. books' = books
    <3>1. SymId(s) # Len(books)
      BY <1>1, <1>2, <1>3 DEF Known
    <3> QED
      BY <3>1 DEF find_or_create_book
  <2> QED
    BY <1>3, <2>1 DEF OneBook, Known, SymId
<1>4. CASE ~ Known(s)
  <2>1. SymId(s) = Len(books)
    BY <1>1, <1>4 DEF SymId, Known
  <2>2. books' = Append(books, s)
    BY <2>1 DEF find_or_create_book
  <2>3. /\ books' \in Seq(Symbols) /\ Len(books') = Len(books) + 1 /\ books'[Len(books) + 1] = s
        /\ \A i \in 1 .. Len(books) : books'[i] = books[i]
        /\ DOMAIN books' = 1 .. Len(books')
    BY <1>1, <2>2
  <2>4. \A i \in 1 .. Len(books) : books[i] # s
    BY <1>4 DEF Known
  <2>5. OneBook'
    <3>1. ASSUME NEW i \in 1 .. Len(books'), NEW j \in 1 .. Len(books'), books'[i] = books'[j]
          PROVE  i = j
      <4>1. (i \in 1 .. Len(books) \/ i = Len(books) + 1) /\ (j \in 1 .. Len(books) \/ j = Len(books) + 1)
        BY <1>1, <2>3
      <4> QED
        BY <2>3, <2>4, <3>1, <4>1 DEF OneBook
    <3> QED
      BY <2>3, <3>1 DEF OneBook
  <2>6. ASSUME NEW t \in Symbols, NEW i \in 1 .. Len(books'), books'[i] = t
        PROVE  SymId(t)' = i - 1
    <3>1. (CHOOSE j \in DOMAIN books' : books'[j] = t) = i
      BY <2>3, <2>5, <2>6 DEF OneBook
    <3> QED
      BY <2>3, <2>6, <3>1 DEF SymId
  <2>7. Len(books) + 1 \in 1 .. Len(books')
    BY <1>1, <2>3
  <2>8. Known(s)' /\ SymId(s)' = SymId(s)
    BY <1>1, <2>1, <2>3, <2>6, <2>7 DEF Known
  <2>9. ASSUME NEW t \in Symbols, Known(t) PROVE Known(t)' /\ SymId(t)' = SymId(t)
    <3>1. PICK i \in 1 .. Len(books) : books[i] = t
      BY <2>9 DEF Known
    <3>2. i \in 1 .. Len(books') /\ books'[i] = t
      BY <1>1, <2>3, <3>1
    <3> QED
      BY <1>2, <2>6, <3>1, <3>2 DEF Known
  <2> QED
    BY <2>5, <2>8, <2>9
<1> QED
  BY <1>3, <1>4

\* The pages of a book are frames.
LEMMA PagesAre ==
  ASSUME MemType, NEW s \in Symbols
  PROVE  /\ page_count(s) = Len(virtual_pages[s]) /\ page_count(s) \in Nat
         /\ virtual_pages[s] \in Seq(Frames)
         /\ \A i \in 1 .. Len(virtual_pages[s]) : virtual_pages[s][i] \in Frames
         /\ page_count(s) > 0 => CurrFrame(s) \in Frames
BY DEF MemType, page_count, CurrFrame

\* What pages use, owners and counts say of frames is FramesOwned.
LEMMA MemIsOwned ==
  ASSUME MemInv PROVE FramesOwned
<1> DEFINE pages == UNION {{s} \X DOMAIN virtual_pages[s] : s \in Symbols}
           uses(f) == {u \in pages : virtual_pages[u[1]][u[2]] = f}
<1>1. \A s \in Symbols : DOMAIN virtual_pages[s] = 1 .. Len(virtual_pages[s])
  BY DEF MemInv, MemType
<1>2. \A u \in pages : u[1] \in Symbols /\ u[2] \in 1 .. Len(virtual_pages[u[1]]) /\ u = <<u[1], u[2]>>
  BY <1>1
<1>3. \A s \in Symbols : \A i \in 1 .. Len(virtual_pages[s]) : <<s, i>> \in pages
  BY <1>1
<1> HIDE DEF pages
<1>4. ASSUME NEW f \in Frames, f \in free_bitmap
      PROVE  uses(f) = {} /\ owner_symbol[f] = -1 /\ node_count[f] = 0
  BY <1>2, <1>4 DEF MemInv, PagesUsed, FreeBlank
<1>5. ASSUME NEW f \in Frames, f \notin free_bitmap
      PROVE  \E u \in uses(f) : uses(f) = {u} /\ owner_symbol[f] = SymId(u[1])
  <2>1. PICK s \in Symbols : \E i \in 1 .. Len(virtual_pages[s]) : virtual_pages[s][i] = f
    BY <1>5 DEF MemInv, NoneLost
  <2>2. PICK i \in 1 .. Len(virtual_pages[s]) : virtual_pages[s][i] = f
    BY <2>1
  <2> DEFINE u == <<s, i>>
  <2>3. u \in uses(f) /\ u[1] = s
    BY <1>3, <2>2
  <2>4. ASSUME NEW v \in uses(f) PROVE v = u
    <3>1. v[1] \in Symbols /\ v[2] \in 1 .. Len(virtual_pages[v[1]]) /\ v = <<v[1], v[2]>>
          /\ virtual_pages[v[1]][v[2]] = f
      BY <1>2
    <3> QED
      BY <2>2, <3>1 DEF MemInv, PagesDistinct
  <2>5. owner_symbol[f] = SymId(s)
    BY <2>2 DEF MemInv, PagesUsed
  <2> QED
    BY <2>3, <2>4, <2>5
<1> QED
  BY <1>4, <1>5 DEF FramesOwned, pages

-----------------------------------------------------------------------------
(* Memory steps.                                                            *)

\* The book's pages are charged for one node more (d = 1) or less (d = -1).
Charges(s, d) ==
  /\ Charged(s)' = Charged(s) + d
  /\ \A t \in Symbols : t # s => Charged(t)' = Charged(t)

\* A node is taken from the current page.
LEMMA CurrPageKeeps ==
  ASSUME MemInv, NEW s \in Symbols, CurrPage(s), find_or_create_book(s)
  PROVE  MemInv' /\ Charges(s, 1)
<1> DEFINE c == CurrFrame(s)
<1>1. MemType /\ OneBook /\ PagesUsed /\ PagesDistinct /\ NoneLost /\ FreeBlank /\ PagesFilled
  BY DEF MemInv
<1>2. PAGE_SIZE \in Nat \ {0} /\ MAX_PAGES \in Nat
  BY SimAssumption
<1>3. /\ page_count(s) \in Nat /\ page_count(s) > 0 /\ page_count(s) = Len(virtual_pages[s])
      /\ c \in Frames /\ c = virtual_pages[s][page_count(s)]
      /\ nodes_in_curr_page[s] \in 0 .. PAGE_SIZE /\ nodes_in_curr_page[s] < PAGE_SIZE
      /\ node_count[c] = nodes_in_curr_page[s]
  BY <1>1, PagesAre DEF CurrPage, HasRoom, MemType, CurrFrame, PagesFilled
<1>4. /\ nodes_in_curr_page' = [nodes_in_curr_page EXCEPT ![s] = @ + 1]
      /\ node_count' = [node_count EXCEPT ![c] = @ + 1]
      /\ UNCHANGED <<virtual_pages, free_bitmap, owner_symbol, overflow>>
  BY DEF CurrPage
<1>5. c \notin free_bitmap
  BY <1>1, <1>3 DEF PagesUsed
<1>6. OneBook' /\ \A t \in Symbols : Known(t) => Known(t)' /\ SymId(t)' = SymId(t)
  BY <1>1, BookGrows
<1> HIDE DEF c
<1>7. MemType'
  BY <1>1, <1>2, <1>3, <1>4 DEF MemType
<1>8. PagesUsed'
  BY <1>1, <1>4, <1>6 DEF PagesUsed
<1>9. PagesDistinct' /\ NoneLost'
  BY <1>1, <1>4 DEF PagesDistinct, NoneLost
<1>10. FreeBlank'
  BY <1>1, <1>3, <1>4, <1>5 DEF FreeBlank, MemType
<1>11. \A t \in Symbols : page_count(t)' = page_count(t) /\ CurrFrame(t)' = CurrFrame(t)
  BY <1>4 DEF page_count, CurrFrame
<1>12. PagesFilled'
  <2>1. SUFFICES ASSUME NEW t \in Symbols
                 PROVE  /\ page_count(t) = 0 => nodes_in_curr_page'[t] = 0
                        /\ page_count(t) > 0 => /\ node_count'[CurrFrame(t)] = nodes_in_curr_page'[t]
                                                /\ nodes_in_curr_page'[t] \in 1 .. PAGE_SIZE
                        /\ \A i \in 1 .. page_count(t) - 1 : node_count'[virtual_pages[t][i]] = PAGE_SIZE
    BY <1>4, <1>11 DEF PagesFilled
  <2>2. page_count(t) \in Nat /\ page_count(t) = Len(virtual_pages[t])
        /\ CurrFrame(t) = virtual_pages[t][page_count(t)]
        /\ \A i \in 1 .. page_count(t) : virtual_pages[t][i] \in Frames
    BY <1>1, PagesAre DEF CurrFrame
  <2>3. \A i \in 1 .. page_count(t) : virtual_pages[t][i] = c => t = s /\ i = page_count(s)
    BY <1>1, <1>3, <2>2 DEF PagesDistinct
  <2>4. \A i \in 1 .. page_count(t) - 1 : node_count'[virtual_pages[t][i]] = PAGE_SIZE
    <3>1. TAKE i \in 1 .. page_count(t) - 1
    <3>2. virtual_pages[t][i] # c /\ virtual_pages[t][i] \in Frames
      BY <1>3, <2>2, <2>3
    <3> QED
      BY <1>1, <1>4, <2>2, <3>2 DEF PagesFilled, MemType
  <2>5. CASE t = s
    <3>1. CurrFrame(t) = c
      BY <1>3, <2>2, <2>5
    <3> QED
      BY SMTT(30), <1>1, <1>2, <1>3, <1>4, <2>4, <2>5, <3>1 DEF MemType
  <2>6. CASE t # s
    <3>1. nodes_in_curr_page'[t] = nodes_in_curr_page[t]
      BY <1>1, <1>4, <2>6 DEF MemType
    <3>2. page_count(t) > 0 => node_count'[CurrFrame(t)] = node_count[CurrFrame(t)]
      BY <1>1, <1>4, <2>2, <2>3, <2>6 DEF MemType
    <3> QED
      BY <1>1, <2>4, <3>1, <3>2 DEF PagesFilled
  <2> QED
    BY <2>5, <2>6
<1>13. Charges(s, 1)
  <2>1. nodes_in_curr_page'[s] = nodes_in_curr_page[s] + 1
        /\ \A t \in Symbols : t # s => nodes_in_curr_page'[t] = nodes_in_curr_page[t]
    BY <1>1, <1>4 DEF MemType
  <2>2. PAGE_SIZE * (page_count(s) - 1) \in Int
    BY <1>2, <1>3
  <2>3. Charged(s)' = Charged(s) + 1
    <3> DEFINE q == PAGE_SIZE * (page_count(s) - 1)
    <3>1. Charged(s) = q + nodes_in_curr_page[s]
      BY <1>3 DEF Charged
    <3>2. Charged(s)' = q + nodes_in_curr_page'[s]
      BY <1>3, <1>11 DEF Charged
    <3> HIDE DEF q
    <3> QED
      BY <1>3, <2>1, <2>2, <3>1, <3>2 DEF q
  <2>4. \A t \in Symbols : t # s => Charged(t)' = Charged(t)
    BY <1>11, <2>1 DEF Charged
  <2> QED
    BY <2>3, <2>4 DEF Charges
<1> QED
  BY <1>6, <1>7, <1>8, <1>9, <1>10, <1>12, <1>13 DEF MemInv

\* A node is taken from a page that is new.
LEMMA NewPageKeeps ==
  ASSUME MemInv, NEW s \in Symbols, NewPage(s), find_or_create_book(s)
  PROVE  MemInv' /\ Charges(s, 1)
<1>1. MemType /\ OneBook /\ PagesUsed /\ PagesDistinct /\ NoneLost /\ FreeBlank /\ PagesFilled
  BY DEF MemInv
<1>2. PAGE_SIZE \in Nat \ {0} /\ MAX_PAGES \in Nat
  BY SimAssumption
<1>3. PICK f \in Frames :
        /\ f \in free_bitmap /\ free_bitmap' = free_bitmap \ {f}
        /\ owner_symbol' = [owner_symbol EXCEPT ![f] = SymId(s)]
        /\ node_count' = [node_count EXCEPT ![f] = 1]
        /\ virtual_pages' = [virtual_pages EXCEPT ![s] = Append(@, f)]
  BY DEF NewPage, allocate_frame
<1>4. nodes_in_curr_page' = [nodes_in_curr_page EXCEPT ![s] = 1] /\ overflow' = overflow
  BY DEF NewPage
<1>5. /\ page_count(s) \in Nat /\ page_count(s) = Len(virtual_pages[s])
      /\ nodes_in_curr_page[s] \in 0 .. PAGE_SIZE
      /\ page_count(s) > 0 => nodes_in_curr_page[s] = PAGE_SIZE
                              /\ node_count[CurrFrame(s)] = nodes_in_curr_page[s]
  <2>1. /\ page_count(s) \in Nat /\ page_count(s) = Len(virtual_pages[s])
        /\ nodes_in_curr_page[s] \in 0 .. PAGE_SIZE
    BY <1>1, PagesAre DEF MemType
  <2>2. ~ (page_count(s) > 0 /\ nodes_in_curr_page[s] < PAGE_SIZE)
    BY DEF NewPage, HasRoom
  <2>3. page_count(s) > 0 => node_count[CurrFrame(s)] = nodes_in_curr_page[s]
    BY <1>1 DEF PagesFilled
  <2> QED
    BY <1>2, <2>1, <2>2, <2>3
<1>6. /\ OneBook' /\ Known(s)' /\ SymId(s)' = SymId(s)
      /\ \A t \in Symbols : Known(t) => Known(t)' /\ SymId(t)' = SymId(t)
  BY <1>1, BookGrows
<1>7. SymId(s) \in Int
  BY <1>1 DEF SymId, OneBook
<1>8. /\ virtual_pages' \in [Symbols -> Seq(Frames)]
      /\ Len(virtual_pages'[s]) = Len(virtual_pages[s]) + 1
      /\ virtual_pages'[s][Len(virtual_pages[s]) + 1] = f
      /\ \A i \in 1 .. Len(virtual_pages[s]) : virtual_pages'[s][i] = virtual_pages[s][i]
      /\ \A t \in Symbols : t # s => virtual_pages'[t] = virtual_pages[t]
  BY <1>1, <1>3 DEF MemType
<1>9. MemType'
  BY <1>1, <1>2, <1>3, <1>4, <1>7, <1>8 DEF MemType
\* The pages are the old ones, which are not f, and f.
<1>10. ASSUME NEW t \in Symbols, NEW i \in 1 .. Len(virtual_pages'[t])
       PROVE  \/ /\ i \in 1 .. Len(virtual_pages[t]) /\ virtual_pages'[t][i] = virtual_pages[t][i]
                 /\ virtual_pages'[t][i] # f /\ virtual_pages'[t][i] \in Frames
              \/ t = s /\ i = Len(virtual_pages[s]) + 1 /\ virtual_pages'[t][i] = f
  <2>1. Len(virtual_pages[t]) \in Nat /\ \A j \in 1 .. Len(virtual_pages[t]) : virtual_pages[t][j] \in Frames
    BY <1>1, PagesAre
  <2>2. CASE i \in 1 .. Len(virtual_pages[t])
    BY <1>1, <1>3, <1>8, <2>1, <2>2 DEF PagesUsed
  <2>3. CASE i \notin 1 .. Len(virtual_pages[t])
    BY <1>8, <2>1, <2>3
  <2> QED
    BY <2>2, <2>3
<1>11. PagesUsed'
  <2>1. SUFFICES ASSUME NEW t \in Symbols, NEW i \in 1 .. Len(virtual_pages'[t])
                 PROVE  /\ virtual_pages'[t][i] \notin free_bitmap'
                        /\ owner_symbol'[virtual_pages'[t][i]] = SymId(t)' /\ Known(t)'
    BY DEF PagesUsed
  <2>2. CASE /\ i \in 1 .. Len(virtual_pages[t]) /\ virtual_pages'[t][i] = virtual_pages[t][i]
             /\ virtual_pages'[t][i] # f /\ virtual_pages'[t][i] \in Frames
    BY <1>1, <1>3, <1>6, <2>2 DEF PagesUsed, MemType
  <2>3. CASE t = s /\ i = Len(virtual_pages[s]) + 1 /\ virtual_pages'[t][i] = f
    BY <1>1, <1>3, <1>6, <2>3 DEF MemType
  <2> QED
    BY <1>10, <2>2, <2>3
<1>12. PagesDistinct'
  <2>1. SUFFICES ASSUME NEW t \in Symbols, NEW u \in Symbols,
                        NEW i \in 1 .. Len(virtual_pages'[t]), NEW j \in 1 .. Len(virtual_pages'[u]),
                        virtual_pages'[t][i] = virtual_pages'[u][j]
                 PROVE  t = u /\ i = j
    BY DEF PagesDistinct
  <2>2. CASE virtual_pages'[t][i] = f
    BY <1>10, <2>1, <2>2
  <2>3. CASE virtual_pages'[t][i] # f
    <3>1. /\ i \in 1 .. Len(virtual_pages[t]) /\ virtual_pages'[t][i] = virtual_pages[t][i]
          /\ j \in 1 .. Len(virtual_pages[u]) /\ virtual_pages'[u][j] = virtual_pages[u][j]
      BY <1>10, <2>1, <2>3
    <3> QED
      <4>1. virtual_pages[t][i] = virtual_pages[u][j]
        BY <2>1, <3>1
      <4> QED
        BY ONLY <1>1, <3>1, <4>1 DEF PagesDistinct
  <2> QED
    BY <2>2, <2>3
<1>13. NoneLost'
  <2>1. SUFFICES ASSUME NEW g \in Frames, g \notin free_bitmap'
                 PROVE  \E t \in Symbols : \E i \in 1 .. Len(virtual_pages'[t]) : virtual_pages'[t][i] = g
    BY DEF NoneLost
  <2>2. CASE g = f
    <3>1. Len(virtual_pages[s]) + 1 \in 1 .. Len(virtual_pages'[s])
      BY <1>5, <1>8
    <3> QED
      BY <1>8, <2>2, <3>1
  <2>3. CASE g # f
    <3>1. PICK t \in Symbols : \E i \in 1 .. Len(virtual_pages[t]) : virtual_pages[t][i] = g
      BY <1>1, <1>3, <2>1, <2>3 DEF NoneLost
    <3>2. PICK i \in 1 .. Len(virtual_pages[t]) : virtual_pages[t][i] = g
      BY <3>1
    <3>3. i \in 1 .. Len(virtual_pages'[t]) /\ virtual_pages'[t][i] = g
      <4>1. CASE t = s
        <5>1. i \in 1 .. Len(virtual_pages[s]) /\ virtual_pages[s][i] = g
          BY ONLY <3>2, <4>1
        <5> QED
          BY ONLY <1>5, <1>8, <4>1, <5>1
      <4>2. CASE t # s
        BY <1>8, <3>2, <4>2
      <4> QED
        BY <4>1, <4>2
    <3> QED
      BY <3>3
  <2> QED
    BY <2>2, <2>3
<1>14. FreeBlank'
  BY <1>1, <1>3 DEF FreeBlank, MemType
<1>15. /\ page_count(s)' = page_count(s) + 1 /\ CurrFrame(s)' = f
       /\ \A t \in Symbols : t # s => page_count(t)' = page_count(t) /\ CurrFrame(t)' = CurrFrame(t)
  BY <1>5, <1>8 DEF page_count, CurrFrame
<1>16. PagesFilled'
  <2>1. SUFFICES ASSUME NEW t \in Symbols
                 PROVE  /\ page_count(t)' = 0 => nodes_in_curr_page'[t] = 0
                        /\ page_count(t)' > 0 => /\ node_count'[CurrFrame(t)'] = nodes_in_curr_page'[t]
                                                 /\ nodes_in_curr_page'[t] \in 1 .. PAGE_SIZE
                        /\ \A i \in 1 .. page_count(t)' - 1 : node_count'[virtual_pages'[t][i]] = PAGE_SIZE
    BY DEF PagesFilled
  <2>2. page_count(t) \in Nat /\ page_count(t) = Len(virtual_pages[t])
        /\ CurrFrame(t) = virtual_pages[t][page_count(t)]
        /\ \A i \in 1 .. page_count(t) : virtual_pages[t][i] \in Frames /\ virtual_pages[t][i] # f
    BY <1>1, <1>3, PagesAre DEF CurrFrame, PagesUsed
  <2>3. \A i \in 1 .. page_count(t) : node_count'[virtual_pages[t][i]] = node_count[virtual_pages[t][i]]
    BY <1>1, <1>3, <2>2 DEF MemType
  <2>4. CASE t = s
    <3>1. \A i \in 1 .. page_count(t) : node_count[virtual_pages[t][i]] = PAGE_SIZE
      <4>1. TAKE i \in 1 .. page_count(t)
      <4>2. CASE i = page_count(t)
        BY <1>5, <2>2, <2>4, <4>2
      <4>3. CASE i # page_count(t)
        BY <1>1, <2>2, <4>3 DEF PagesFilled
      <4> QED
        BY <4>2, <4>3
    <3>2. \A i \in 1 .. page_count(t)' - 1 : node_count'[virtual_pages'[t][i]] = PAGE_SIZE
      <4>1. page_count(t)' - 1 = page_count(t)
        BY <1>5, <1>15, <2>4
      <4>2. \A i \in 1 .. page_count(t) : virtual_pages'[t][i] = virtual_pages[t][i]
        BY <1>5, <1>8, <2>4
      <4> QED
        BY <2>3, <3>1, <4>1, <4>2
    <3>3. node_count'[f] = 1 /\ nodes_in_curr_page'[s] = 1
      BY <1>1, <1>3, <1>4 DEF MemType
    <3> QED
      BY <1>2, <1>5, <1>15, <2>4, <3>2, <3>3
  <2>5. CASE t # s
    <3>1. nodes_in_curr_page'[t] = nodes_in_curr_page[t] /\ virtual_pages'[t] = virtual_pages[t]
          /\ page_count(t)' = page_count(t) /\ CurrFrame(t)' = CurrFrame(t)
      BY <1>1, <1>4, <1>8, <1>15, <2>5 DEF MemType
    <3>2. page_count(t) > 0 => page_count(t) \in 1 .. page_count(t)
      BY <2>2
    <3>3. page_count(t) > 0 => node_count'[CurrFrame(t)] = node_count[CurrFrame(t)]
      BY <2>2, <2>3, <3>2
    <3>4. \A i \in 1 .. page_count(t) - 1 : node_count'[virtual_pages[t][i]] = PAGE_SIZE
      BY <1>1, <2>2, <2>3 DEF PagesFilled
    <3> QED
      BY <1>1, <3>1, <3>3, <3>4 DEF PagesFilled
  <2> QED
    BY <2>4, <2>5
<1>17. Charges(s, 1)
  <2>1. nodes_in_curr_page'[s] = 1
        /\ \A t \in Symbols : t # s => nodes_in_curr_page'[t] = nodes_in_curr_page[t]
    BY <1>1, <1>4 DEF MemType
  <2>2. PAGE_SIZE * (page_count(s) - 1) + PAGE_SIZE = PAGE_SIZE * page_count(s)
        /\ PAGE_SIZE * page_count(s) \in Int
    BY <1>2, <1>5
  <2>3. Charged(s) = PAGE_SIZE * page_count(s)
    BY <1>1, <1>2, <1>5, <2>2 DEF Charged
  <2>4. Charged(s)' = PAGE_SIZE * page_count(s) + 1
    <3>1. page_count(s)' # 0 /\ page_count(s)' - 1 = page_count(s)
      BY <1>5, <1>15
    <3> QED
      BY <2>1, <3>1 DEF Charged
  <2>5. \A t \in Symbols : t # s => Charged(t)' = Charged(t)
    BY <1>15, <2>1 DEF Charged
  <2> QED
    BY <2>3, <2>4, <2>5 DEF Charges
<1> QED
  BY <1>6, <1>9, <1>11, <1>12, <1>13, <1>14, <1>16, <1>17 DEF MemInv

\* Neither the overflow page nor a rejection touches the pages.
LEMMA OverflowKeeps ==
  ASSUME MemInv, (\E s \in Symbols : find_or_create_book(s)) \/ UNCHANGED books,
         UNCHANGED <<virtual_pages, nodes_in_curr_page, free_bitmap, owner_symbol, node_count>>,
         overflow' \in 0 .. OVERFLOW_PAGE_SIZE
  PROVE  MemInv' /\ \A t \in Symbols : Charged(t)' = Charged(t)
<1>1. MemType /\ OneBook /\ PagesUsed /\ PagesDistinct /\ NoneLost /\ FreeBlank /\ PagesFilled
  BY DEF MemInv
<1>2. OneBook' /\ \A t \in Symbols : Known(t) => Known(t)' /\ SymId(t)' = SymId(t)
  <2>1. CASE \E s \in Symbols : find_or_create_book(s)
    BY <1>1, <2>1, BookGrows
  <2>2. CASE UNCHANGED books
    BY <1>1, <2>2 DEF OneBook, Known, SymId
  <2> QED
    BY <2>1, <2>2
<1>3. MemType'
  BY <1>1 DEF MemType
<1>4. PagesUsed'
  BY <1>1, <1>2 DEF PagesUsed
<1>5. PagesDistinct' /\ NoneLost' /\ FreeBlank'
  BY <1>1 DEF PagesDistinct, NoneLost, FreeBlank
<1>6. \A t \in Symbols : page_count(t)' = page_count(t) /\ CurrFrame(t)' = CurrFrame(t)
  BY DEF page_count, CurrFrame
<1>7. PagesFilled'
  BY <1>1, <1>6 DEF PagesFilled
<1>8. \A t \in Symbols : Charged(t)' = Charged(t)
  BY <1>6 DEF Charged
<1> QED
  BY <1>2, <1>3, <1>4, <1>5, <1>7, <1>8 DEF MemInv

\* A node of a page that has others is given back.
LEMMA FreeOneKeeps ==
  ASSUME MemInv, NEW s \in Symbols, nodes_in_curr_page[s] > 0, FreeNode(s),
         node_count[CurrFrame(s)] # 1, UNCHANGED books, overflow' \in 0 .. OVERFLOW_PAGE_SIZE
  PROVE  MemInv' /\ Charges(s, -1)
<1> DEFINE c == CurrFrame(s)
<1>1. MemType /\ OneBook /\ PagesUsed /\ PagesDistinct /\ NoneLost /\ FreeBlank /\ PagesFilled
  BY DEF MemInv
<1>2. PAGE_SIZE \in Nat \ {0} /\ MAX_PAGES \in Nat
  BY SimAssumption
<1>3. /\ page_count(s) \in Nat /\ page_count(s) > 0 /\ page_count(s) = Len(virtual_pages[s])
      /\ c \in Frames /\ c = virtual_pages[s][page_count(s)]
      /\ nodes_in_curr_page[s] \in 1 .. PAGE_SIZE /\ node_count[c] = nodes_in_curr_page[s]
  <2>1. page_count(s) \in Nat /\ page_count(s) # 0
    BY <1>1, PagesAre DEF PagesFilled
  <2> QED
    BY <1>1, <2>1, PagesAre DEF MemType, CurrFrame, PagesFilled
<1>4. /\ nodes_in_curr_page' = [nodes_in_curr_page EXCEPT ![s] = @ - 1]
      /\ node_count' = [node_count EXCEPT ![c] = @ - 1]
      /\ UNCHANGED <<virtual_pages, free_bitmap, owner_symbol>>
  BY DEF FreeNode
<1>5. c \notin free_bitmap
  BY <1>1, <1>3 DEF PagesUsed
<1> HIDE DEF c
<1>6. node_count[c] # 1
  BY DEF c
<1>7. MemType'
  BY SMTT(30), <1>1, <1>2, <1>3, <1>4 DEF MemType
<1>8. OneBook' /\ PagesUsed'
  BY <1>1, <1>4 DEF OneBook, PagesUsed, Known, SymId
<1>9. PagesDistinct' /\ NoneLost'
  BY <1>1, <1>4 DEF PagesDistinct, NoneLost
<1>10. FreeBlank'
  BY <1>1, <1>3, <1>4, <1>5 DEF FreeBlank, MemType
<1>11. \A t \in Symbols : page_count(t)' = page_count(t) /\ CurrFrame(t)' = CurrFrame(t)
  BY <1>4 DEF page_count, CurrFrame
<1>12. PagesFilled'
  <2>1. SUFFICES ASSUME NEW t \in Symbols
                 PROVE  /\ page_count(t) = 0 => nodes_in_curr_page'[t] = 0
                        /\ page_count(t) > 0 => /\ node_count'[CurrFrame(t)] = nodes_in_curr_page'[t]
                                                /\ nodes_in_curr_page'[t] \in 1 .. PAGE_SIZE
                        /\ \A i \in 1 .. page_count(t) - 1 : node_count'[virtual_pages[t][i]] = PAGE_SIZE
    BY <1>4, <1>11 DEF PagesFilled
  <2>2. page_count(t) \in Nat /\ page_count(t) = Len(virtual_pages[t])
        /\ CurrFrame(t) = virtual_pages[t][page_count(t)]
        /\ \A i \in 1 .. page_count(t) : virtual_pages[t][i] \in Frames
    BY <1>1, PagesAre DEF CurrFrame
  <2>3. \A i \in 1 .. page_count(t) : virtual_pages[t][i] = c => t = s /\ i = page_count(s)
    BY <1>1, <1>3, <2>2 DEF PagesDistinct
  <2>4. \A i \in 1 .. page_count(t) - 1 : node_count'[virtual_pages[t][i]] = PAGE_SIZE
    <3>1. TAKE i \in 1 .. page_count(t) - 1
    <3>2. virtual_pages[t][i] # c /\ virtual_pages[t][i] \in Frames
      BY <1>3, <2>2, <2>3
    <3> QED
      BY <1>1, <1>4, <2>2, <3>2 DEF PagesFilled, MemType
  <2>5. CASE t = s
    <3>1. CurrFrame(t) = c
      BY <1>3, <2>2, <2>5
    <3> QED
      BY SMTT(30), <1>1, <1>2, <1>3, <1>4, <1>6, <2>4, <2>5, <3>1 DEF MemType
  <2>6. CASE t # s
    <3>1. nodes_in_curr_page'[t] = nodes_in_curr_page[t]
      BY <1>1, <1>4, <2>6 DEF MemType
    <3>2. page_count(t) > 0 => node_count'[CurrFrame(t)] = node_count[CurrFrame(t)]
      BY <1>1, <1>4, <2>2, <2>3, <2>6 DEF MemType
    <3> QED
      BY <1>1, <2>4, <3>1, <3>2 DEF PagesFilled
  <2> QED
    BY <2>5, <2>6
<1>13. Charges(s, -1)
  <2>1. nodes_in_curr_page'[s] = nodes_in_curr_page[s] - 1
        /\ \A t \in Symbols : t # s => nodes_in_curr_page'[t] = nodes_in_curr_page[t]
    BY <1>1, <1>4 DEF MemType
  <2>2. PAGE_SIZE * (page_count(s) - 1) \in Int
    BY <1>2, <1>3
  <2>3. Charged(s)' = Charged(s) + (-1)
    <3> DEFINE q == PAGE_SIZE * (page_count(s) - 1)
    <3>1. Charged(s) = q + nodes_in_curr_page[s]
      BY <1>3 DEF Charged
    <3>2. Charged(s)' = q + nodes_in_curr_page'[s]
      BY <1>3, <1>11 DEF Charged
    <3> HIDE DEF q
    <3> QED
      BY <1>3, <2>1, <2>2, <3>1, <3>2 DEF q
  <2>4. \A t \in Symbols : t # s => Charged(t)' = Charged(t)
    BY <1>11, <2>1 DEF Charged
  <2> QED
    BY <2>3, <2>4 DEF Charges
<1> QED
  BY <1>7, <1>8, <1>9, <1>10, <1>12, <1>13 DEF MemInv

\* A page is given back with its last node.
LEMMA FreePageKeeps ==
  ASSUME MemInv, NEW s \in Symbols, nodes_in_curr_page[s] > 0, FreeNode(s),
         node_count[CurrFrame(s)] = 1, UNCHANGED books, overflow' \in 0 .. OVERFLOW_PAGE_SIZE
  PROVE  MemInv' /\ Charges(s, -1)
<1> DEFINE c == CurrFrame(s)
           n == page_count(s)
<1>1. MemType /\ OneBook /\ PagesUsed /\ PagesDistinct /\ NoneLost /\ FreeBlank /\ PagesFilled
  BY DEF MemInv
<1>2. PAGE_SIZE \in Nat \ {0} /\ MAX_PAGES \in Nat
  BY SimAssumption
<1>3. /\ n \in Nat /\ n > 0 /\ n = Len(virtual_pages[s])
      /\ c \in Frames /\ c = virtual_pages[s][n]
      /\ nodes_in_curr_page[s] \in 1 .. PAGE_SIZE /\ node_count[c] = nodes_in_curr_page[s]
  <2>1. n \in Nat /\ n # 0
    BY <1>1, PagesAre DEF PagesFilled
  <2> QED
    BY <1>1, <2>1, PagesAre DEF MemType, CurrFrame, PagesFilled
<1>4. /\ node_count' = [node_count EXCEPT ![c] = @ - 1]
      /\ owner_symbol' = [owner_symbol EXCEPT ![c] = -1]
      /\ free_bitmap' = free_bitmap \cup {c}
      /\ virtual_pages' = [virtual_pages EXCEPT ![s] = SubSeq(@, 1, Len(@) - 1)]
      /\ nodes_in_curr_page' = [nodes_in_curr_page EXCEPT ![s] = IF n > 1 THEN PAGE_SIZE ELSE 0]
  BY DEF FreeNode, CurrAfterFree
<1>5. node_count[c] = 1
  OBVIOUS
<1> HIDE DEF c, n
<1>6. /\ virtual_pages' \in [Symbols -> Seq(Frames)]
      /\ Len(virtual_pages'[s]) = n - 1
      /\ \A i \in 1 .. n - 1 : virtual_pages'[s][i] = virtual_pages[s][i]
      /\ \A t \in Symbols : t # s => virtual_pages'[t] = virtual_pages[t]
  <2>1. virtual_pages[s] \in Seq(Frames)
    BY <1>1 DEF MemType
  <2> DEFINE w == SubSeq(virtual_pages[s], 1, Len(virtual_pages[s]) - 1)
  <2>2. w \in Seq(Frames) /\ Len(w) = n - 1 /\ \A i \in 1 .. n - 1 : w[i] = virtual_pages[s][i]
    BY <1>3, <2>1
  <2> HIDE DEF w
  <2>3. virtual_pages' = [virtual_pages EXCEPT ![s] = w]
    BY <1>4 DEF w
  <2> QED
    BY <1>1, <2>2, <2>3 DEF MemType
<1>7. MemType'
  <2>1. nodes_in_curr_page' \in [Symbols -> 0 .. PAGE_SIZE]
    BY <1>1, <1>2, <1>4 DEF MemType
  <2>2. free_bitmap' \subseteq Frames
    BY <1>1, <1>3, <1>4 DEF MemType
  <2>3. node_count' \in [Frames -> 0 .. PAGE_SIZE]
    <3>1. node_count \in [Frames -> 0 .. PAGE_SIZE] /\ node_count' = [node_count EXCEPT ![c] = 0]
      BY <1>1, <1>4, <1>5 DEF MemType
    <3>2. 0 \in 0 .. PAGE_SIZE
      BY <1>2
    <3> QED
      BY ONLY <3>1, <3>2
  <2>4. owner_symbol' \in [Frames -> Int]
    <3>1. owner_symbol \in [Frames -> Int] /\ owner_symbol' = [owner_symbol EXCEPT ![c] = -1]
      BY <1>1, <1>4 DEF MemType
    <3> QED
      <4>1. \A x \in Int : [owner_symbol EXCEPT ![c] = x] \in [Frames -> Int]
        BY ONLY <3>1
      <4> QED
        BY <3>1, <4>1
  <2> QED
    BY <1>6, <2>1, <2>2, <2>3, <2>4 DEF MemType
\* The pages are the old ones but c.
<1>8. ASSUME NEW t \in Symbols, NEW i \in 1 .. Len(virtual_pages'[t])
      PROVE  /\ i \in 1 .. Len(virtual_pages[t]) /\ virtual_pages'[t][i] = virtual_pages[t][i]
             /\ virtual_pages'[t][i] # c /\ virtual_pages'[t][i] \in Frames
  <2>1. Len(virtual_pages[t]) \in Nat /\ \A j \in 1 .. Len(virtual_pages[t]) : virtual_pages[t][j] \in Frames
    BY <1>1, PagesAre
  <2>2. i \in 1 .. Len(virtual_pages[t]) /\ virtual_pages'[t][i] = virtual_pages[t][i]
        /\ (t = s => i # n)
    <3>1. CASE t = s
      BY <1>3, <1>6, <2>1, <3>1
    <3>2. CASE t # s
      BY <1>6, <3>2
    <3> QED
      BY <3>1, <3>2
  <2>3. n \in 1 .. Len(virtual_pages[s])
    BY <1>3
  <2>4. virtual_pages[t][i] # virtual_pages[s][n]
    BY ONLY <1>1, <2>2, <2>3, s \in Symbols, t \in Symbols DEF PagesDistinct
  <2> QED
    BY <1>3, <2>1, <2>2, <2>4
<1>9. PagesUsed' /\ OneBook'
  <2>1. OneBook' /\ \A t \in Symbols : Known(t)' = Known(t) /\ SymId(t)' = SymId(t)
    BY <1>1 DEF OneBook, Known, SymId
  <2>2. SUFFICES ASSUME NEW t \in Symbols, NEW i \in 1 .. Len(virtual_pages'[t])
                 PROVE  /\ virtual_pages'[t][i] \notin free_bitmap'
                        /\ owner_symbol'[virtual_pages'[t][i]] = SymId(t)' /\ Known(t)'
    BY <2>1 DEF PagesUsed
  <2> QED
    <3> DEFINE g == virtual_pages'[t][i]
    <3>1. g = virtual_pages[t][i] /\ g # c /\ g \in Frames /\ i \in 1 .. Len(virtual_pages[t])
      BY <1>8
    <3>2. g \notin free_bitmap /\ owner_symbol[g] = SymId(t) /\ Known(t)
      BY <1>1, <3>1 DEF PagesUsed
    <3> HIDE DEF g
    <3>3. g \notin free_bitmap' /\ owner_symbol'[g] = owner_symbol[g]
      BY <1>1, <1>4, <3>1, <3>2 DEF MemType
    <3> QED
      BY <2>1, <3>2, <3>3 DEF g
<1>10. PagesDistinct'
  <2>1. SUFFICES ASSUME NEW t \in Symbols, NEW u \in Symbols,
                        NEW i \in 1 .. Len(virtual_pages'[t]), NEW j \in 1 .. Len(virtual_pages'[u]),
                        virtual_pages'[t][i] = virtual_pages'[u][j]
                 PROVE  t = u /\ i = j
    BY DEF PagesDistinct
  <2>2. /\ i \in 1 .. Len(virtual_pages[t]) /\ j \in 1 .. Len(virtual_pages[u])
        /\ virtual_pages[t][i] = virtual_pages[u][j]
    BY <1>8, <2>1
  <2> QED
    BY ONLY <1>1, <2>2, t \in Symbols, u \in Symbols DEF PagesDistinct
<1>11. NoneLost'
  <2>1. SUFFICES ASSUME NEW g \in Frames, g \notin free_bitmap'
                 PROVE  \E t \in Symbols : \E i \in 1 .. Len(virtual_pages'[t]) : virtual_pages'[t][i] = g
    BY DEF NoneLost
  <2>2. g # c /\ g \notin free_bitmap
    BY <1>4, <2>1
  <2>3. PICK t \in Symbols : \E i \in 1 .. Len(virtual_pages[t]) : virtual_pages[t][i] = g
    BY <1>1, <2>2 DEF NoneLost
  <2>4. PICK i \in 1 .. Len(virtual_pages[t]) : virtual_pages[t][i] = g
    BY <2>3
  <2>5. i \in 1 .. Len(virtual_pages'[t]) /\ virtual_pages'[t][i] = g
    <3>1. CASE t = s
      <4>1. i # n
        BY <1>3, <2>2, <2>4, <3>1
      <4> QED
        BY <1>3, <1>6, <2>4, <3>1, <4>1
    <3>2. CASE t # s
      BY <1>6, <2>4, <3>2
    <3> QED
      BY <3>1, <3>2
  <2> QED
    BY <2>5
<1>12. FreeBlank'
  BY <1>1, <1>3, <1>4, <1>5 DEF FreeBlank, MemType
<1>13. /\ page_count(s)' = n - 1 /\ (n > 1 => CurrFrame(s)' = virtual_pages[s][n - 1])
       /\ \A t \in Symbols : t # s => page_count(t)' = page_count(t) /\ CurrFrame(t)' = CurrFrame(t)
  BY SMTT(30), <1>3, <1>6 DEF page_count, CurrFrame
<1>14. nodes_in_curr_page'[s] = (IF n > 1 THEN PAGE_SIZE ELSE 0)
       /\ \A t \in Symbols : t # s => nodes_in_curr_page'[t] = nodes_in_curr_page[t]
  BY <1>1, <1>4 DEF MemType
<1>15. \A t \in Symbols : \A i \in 1 .. Len(virtual_pages'[t]) :
         node_count'[virtual_pages'[t][i]] = node_count[virtual_pages[t][i]]
  BY <1>1, <1>4, <1>8 DEF MemType
<1>16. PagesFilled'
  <2>1. SUFFICES ASSUME NEW t \in Symbols
                 PROVE  /\ page_count(t)' = 0 => nodes_in_curr_page'[t] = 0
                        /\ page_count(t)' > 0 => /\ node_count'[CurrFrame(t)'] = nodes_in_curr_page'[t]
                                                 /\ nodes_in_curr_page'[t] \in 1 .. PAGE_SIZE
                        /\ \A i \in 1 .. page_count(t)' - 1 : node_count'[virtual_pages'[t][i]] = PAGE_SIZE
    BY DEF PagesFilled
  <2>2. page_count(t)' = Len(virtual_pages'[t]) /\ page_count(t)' \in Nat
        /\ CurrFrame(t)' = virtual_pages'[t][page_count(t)']
    BY <1>6 DEF page_count, CurrFrame
  <2>3. CASE t = s
    <3>1. \A i \in 1 .. n - 1 : node_count[virtual_pages[s][i]] = PAGE_SIZE
      BY <1>1 DEF PagesFilled, n
    <3>2. \A i \in 1 .. page_count(t)' : node_count'[virtual_pages'[t][i]] = PAGE_SIZE
      BY <1>13, <1>15, <2>2, <2>3, <3>1
    <3>3. page_count(t)' > 0 => page_count(t)' \in 1 .. page_count(t)' /\ n > 1
      BY <1>3, <1>13, <2>2, <2>3
    <3>4. \A i \in 1 .. page_count(t)' - 1 : i \in 1 .. page_count(t)'
      BY <2>2
    <3> QED
      <4>1. \A i \in 1 .. page_count(t)' - 1 : node_count'[virtual_pages'[t][i]] = PAGE_SIZE
        BY <3>2, <3>4
      <4>2. page_count(t)' > 0 => node_count'[CurrFrame(t)'] = PAGE_SIZE /\ nodes_in_curr_page'[t] = PAGE_SIZE
        BY <1>14, <2>2, <2>3, <3>2, <3>3
      <4>3. page_count(t)' = 0 => nodes_in_curr_page'[t] = 0
        BY <1>3, <1>13, <1>14, <2>3
      <4> QED
        BY <1>2, <4>1, <4>2, <4>3
  <2>4. CASE t # s
    <3>1. page_count(t)' = page_count(t) /\ CurrFrame(t)' = CurrFrame(t) /\ virtual_pages'[t] = virtual_pages[t]
          /\ nodes_in_curr_page'[t] = nodes_in_curr_page[t]
      BY <1>6, <1>13, <1>14, <2>4
    <3>2. \A i \in 1 .. page_count(t) : node_count'[virtual_pages[t][i]] = node_count[virtual_pages[t][i]]
      <4>1. page_count(t) = Len(virtual_pages'[t])
        BY <2>2, <3>1
      <4>2. TAKE i \in 1 .. page_count(t)
      <4>3. i \in 1 .. Len(virtual_pages'[t])
        BY <4>1
      <4>4. node_count'[virtual_pages'[t][i]] = node_count[virtual_pages[t][i]]
        BY <1>15, <4>3
      <4> QED
        BY <3>1, <4>4
    <3>3. page_count(t) > 0 => page_count(t) \in 1 .. page_count(t)
      BY <2>2, <3>1
    <3>4. page_count(t) > 0 => node_count'[CurrFrame(t)] = node_count[CurrFrame(t)]
      BY <2>2, <3>1, <3>2, <3>3
    <3>5. \A i \in 1 .. page_count(t) - 1 : node_count'[virtual_pages[t][i]] = PAGE_SIZE
      BY <1>1, <2>2, <3>1, <3>2 DEF PagesFilled
    <3> QED
      BY <1>1, <3>1, <3>4, <3>5 DEF PagesFilled
  <2> QED
    BY <2>3, <2>4
<1>17. Charges(s, -1)
  <2>1. Charged(s) = PAGE_SIZE * (n - 1) + 1
    BY <1>3, <1>5 DEF Charged, n, c
  <2>2. Charged(s)' = PAGE_SIZE * (n - 1)
    <3>1. CASE n = 1
      <4>1. PAGE_SIZE * (n - 1) = 0
        BY <1>2, <3>1
      <4> QED
        BY <1>13, <3>1, <4>1 DEF Charged
    <3>2. CASE n > 1
      <4>1. PAGE_SIZE * (n - 2) + PAGE_SIZE = PAGE_SIZE * (n - 1)
        BY <1>2, <1>3
      <4>2. page_count(s)' - 1 = n - 2 /\ page_count(s)' # 0
        BY <1>3, <1>13, <3>2
      <4> QED
        BY <1>14, <3>2, <4>1, <4>2 DEF Charged
    <3> QED
      <4>1. n = 1 \/ n > 1
        <5>1. n \in Nat
          BY <1>3
        <5>2. n > 0
          BY <1>3
        <5> QED
          BY ONLY <5>1, <5>2
      <4> QED
        BY <3>1, <3>2, <4>1
  <2>3. PAGE_SIZE * (n - 1) \in Int
    BY <1>2, <1>3
  <2>4. \A t \in Symbols : t # s => Charged(t)' = Charged(t)
    BY <1>13, <1>14 DEF Charged
  <2> HIDE DEF Charged
  <2>5. Charged(s)' = Charged(s) + (-1)
    BY <2>1, <2>2, <2>3
  <2> QED
    BY <2>4, <2>5 DEF Charges
<1> QED
  BY <1>7, <1>9, <1>10, <1>11, <1>12, <1>16, <1>17 DEF MemInv

-----------------------------------------------------------------------------
(* Steps.                                                                   *)

\* The order that is created keeps the clock's reading modulo a second.
LEMMA OrderMade ==
  ASSUME NEW p \in Int, NEW a \in Int, now \in Nat
  PROVE  /\ create_order(now, p, a) \in Order /\ create_order(now, p, a).ts = now
         /\ create_order(now, p, a).timestamp = now % Second
         /\ create_order(now, p, a).amount = Short(a)
<1>1. Short(p) \in Int /\ Short(a) \in Int
  BY ShortIsInt
<1>2. now % Second \in Nat
  BY SimAssumption
<1> QED
  BY <1>1, <1>2 DEF create_order, Order

\* Time passes from one order to the next.
LEMMA ClockMoves ==
  ASSUME now \in Nat, \E g \in Gaps : now' = now + g
  PROVE  now' \in Nat /\ now' > now
<1>1. PICK g \in Gaps : now' = now + g
  OBVIOUS
<1>2. g \in Nat \ {0}
  BY SimAssumption
<1> QED
  BY <1>1, <1>2

\* A side after a trade: the root is gone or, if it was larger, reduced.
LEMMA Traded ==
  ASSUME NEW type, NEW h \in Seq(Order), Len(h) > 0, Ordered(type, h), NEW other \in Int
  PROVE  /\ AfterTrade(type, h, other) \in Seq(Order)
         /\ Ordered(type, AfterTrade(type, h, other))
         /\ Len(AfterTrade(type, h, other)) = IF peek(h).amount > other THEN Len(h) ELSE Len(h) - 1
<1>1. peek(h) \in Order /\ peek(h).amount \in Int
  <2>1. h[1] \in Order
    OBVIOUS
  <2> QED
    BY <2>1 DEF peek, Order
<1>2. CASE peek(h).amount > other
  <2>1. peek(h).amount - other \in Int
    BY <1>1
  <2> QED
    BY <1>2, <2>1, Updated DEF AfterTrade
<1>3. CASE ~ (peek(h).amount > other)
  BY <1>3, Popped DEF AfterTrade
<1> QED
  BY <1>2, <1>3

\* An order is inserted in one heap of its book.
LEMMA InsertHeaps ==
  ASSUME InputInv, HeapInv, NEW s \in Symbols, NEW type \in {"ask", "bid"},
         NEW o \in Order, Insert(s, type, o)
  PROVE  /\ HeapInv' /\ Nodes(s)' = Nodes(s) + 1
         /\ \A t \in Symbols : t # s => Nodes(t)' = Nodes(t)
<1>1. asks \in [Symbols -> Seq(Order)] /\ bids \in [Symbols -> Seq(Order)]
      /\ \A t \in Symbols : Ordered("ask", asks[t]) /\ Ordered("bid", bids[t])
  BY DEF HeapInv, HeapsOrdered
<1>2. CASE type = "ask"
  <2> DEFINE w == push("ask", asks[s], o)
  <2>1. asks' = [asks EXCEPT ![s] = w] /\ bids' = bids
    BY <1>2 DEF Insert
  <2>2. w \in Seq(Order) /\ Len(w) = Len(asks[s]) + 1 /\ Ordered("ask", w)
    BY <1>1, Pushed
  <2> HIDE DEF w
  <2>3. /\ asks' \in [Symbols -> Seq(Order)] /\ asks'[s] = w
        /\ \A t \in Symbols : t # s => asks'[t] = asks[t]
    BY <1>1, <2>1, <2>2
  <2>4. HeapInv'
    BY <1>1, <2>1, <2>2, <2>3 DEF HeapInv, HeapsOrdered
  <2>5. Len(asks[s]) \in Nat /\ Len(bids[s]) \in Nat
    BY <1>1
  <2> QED
    BY <2>1, <2>2, <2>3, <2>4, <2>5 DEF Nodes
<1>3. CASE type = "bid"
  <2> DEFINE w == push("bid", bids[s], o)
  <2>1. bids' = [bids EXCEPT ![s] = w] /\ asks' = asks
    BY <1>3 DEF Insert
  <2>2. w \in Seq(Order) /\ Len(w) = Len(bids[s]) + 1 /\ Ordered("bid", w)
    BY <1>1, Pushed
  <2> HIDE DEF w
  <2>3. /\ bids' \in [Symbols -> Seq(Order)] /\ bids'[s] = w
        /\ \A t \in Symbols : t # s => bids'[t] = bids[t]
    BY <1>1, <2>1, <2>2
  <2>4. HeapInv'
    BY <1>1, <2>1, <2>2, <2>3 DEF HeapInv, HeapsOrdered
  <2>5. Len(asks[s]) \in Nat /\ Len(bids[s]) \in Nat
    BY <1>1
  <2> QED
    BY <2>1, <2>2, <2>3, <2>4, <2>5 DEF Nodes
<1> QED
  BY <1>2, <1>3

\* A trade removes one order or, if it is exact, two.
LEMMA TradeHeaps ==
  ASSUME InputInv, HeapInv, StatInv, Trade
  PROVE  /\ HeapInv'
         /\ \A t \in Symbols : t = ob => Nodes(t)' + exact'[t] = Nodes(t) + exact[t] - 1
         /\ \A t \in Symbols : t # ob => Nodes(t)' = Nodes(t) /\ exact'[t] = exact[t]
<1>1. /\ asks \in [Symbols -> Seq(Order)] /\ bids \in [Symbols -> Seq(Order)]
      /\ \A t \in Symbols : Ordered("ask", asks[t]) /\ Ordered("bid", bids[t])
      /\ exact \in [Symbols -> Nat]
  BY DEF HeapInv, HeapsOrdered, StatInv
<1>2. ob \in Symbols /\ asks[ob] # <<>> /\ bids[ob] # <<>>
  BY DEF Trade, OneSided, InputInv
<1> DEFINE x == peek(bids[ob]).amount
           y == peek(asks[ob]).amount
           bw == AfterTrade("bid", bids[ob], y)
           aw == AfterTrade("ask", asks[ob], x)
<1>3. /\ bids' = [bids EXCEPT ![ob] = bw] /\ asks' = [asks EXCEPT ![ob] = aw]
      /\ exact' = [exact EXCEPT ![ob] = IF x = y THEN @ + 1 ELSE @]
  BY DEF Trade
<1>4. /\ Len(asks[ob]) \in Nat /\ Len(asks[ob]) > 0 /\ asks[ob] \in Seq(Order)
      /\ Len(bids[ob]) \in Nat /\ Len(bids[ob]) > 0 /\ bids[ob] \in Seq(Order)
      /\ Ordered("ask", asks[ob]) /\ Ordered("bid", bids[ob])
  BY <1>1, <1>2
<1>5. x \in Int /\ y \in Int
  <2>1. bids[ob][1] \in Order /\ asks[ob][1] \in Order
    BY <1>4
  <2> QED
    BY <2>1 DEF peek, Order
<1>6. /\ bw \in Seq(Order) /\ Ordered("bid", bw)
      /\ Len(bw) = IF x > y THEN Len(bids[ob]) ELSE Len(bids[ob]) - 1
  <2> HIDE DEF y
  <2> QED
    BY <1>4, <1>5, Traded
<1>7. /\ aw \in Seq(Order) /\ Ordered("ask", aw)
      /\ Len(aw) = IF y > x THEN Len(asks[ob]) ELSE Len(asks[ob]) - 1
  <2> HIDE DEF x
  <2> QED
    BY <1>4, <1>5, Traded
<1> HIDE DEF x, y, aw, bw
<1>8. /\ asks' \in [Symbols -> Seq(Order)] /\ asks'[ob] = aw
      /\ bids' \in [Symbols -> Seq(Order)] /\ bids'[ob] = bw
      /\ exact'[ob] = IF x = y THEN exact[ob] + 1 ELSE exact[ob]
      /\ \A t \in Symbols : t # ob =>
           asks'[t] = asks[t] /\ bids'[t] = bids[t] /\ exact'[t] = exact[t]
  BY <1>1, <1>2, <1>3, <1>6, <1>7
<1>9. HeapInv'
  <2>1. ASSUME NEW t \in Symbols PROVE Ordered("ask", asks'[t]) /\ Ordered("bid", bids'[t])
    BY <1>1, <1>6, <1>7, <1>8
  <2> QED
    BY <1>8, <2>1 DEF HeapInv, HeapsOrdered
<1>10. exact[ob] \in Nat
  BY <1>1, <1>2
<1> DEFINE a1 == Len(aw)
           b1 == Len(bw)
           e1 == exact'[ob]
           a0 == Len(asks[ob])
           b0 == Len(bids[ob])
           e0 == exact[ob]
<1>11. a1 + b1 + e1 = a0 + b0 + e0 - 1
  <2>1. a0 \in Nat /\ b0 \in Nat /\ e0 \in Nat
    BY <1>4, <1>10
  <2>2. \/ b1 = b0 - 1 /\ a1 = a0 - 1 /\ e1 = e0 + 1
        \/ b1 = b0 /\ a1 = a0 - 1 /\ e1 = e0
        \/ b1 = b0 - 1 /\ a1 = a0 /\ e1 = e0
    <3>1. CASE x = y
      BY <1>5, <1>6, <1>7, <1>8, <3>1
    <3>2. CASE x > y
      BY <1>5, <1>6, <1>7, <1>8, <3>2
    <3>3. CASE y > x
      BY <1>5, <1>6, <1>7, <1>8, <3>3
    <3> QED
      BY <1>5, <3>1, <3>2, <3>3
  <2> HIDE DEF a1, b1, e1, a0, b0, e0
  <2> QED
    BY ONLY <2>1, <2>2
<1>12. ASSUME NEW t \in Symbols, t = ob
       PROVE  Nodes(t)' + exact'[t] = Nodes(t) + exact[t] - 1
  <2>1. Nodes(t) = Len(asks[ob]) + Len(bids[ob]) /\ Nodes(t)' = Len(aw) + Len(bw)
    BY <1>8, <1>12 DEF Nodes
  <2> QED
    BY <1>11, <1>12, <2>1
<1>13. \A t \in Symbols : t # ob => Nodes(t)' = Nodes(t)
  BY <1>8 DEF Nodes
<1> QED
  BY <1>8, <1>9, <1>12, <1>13

\* The invariant holds at the start.
LEMMA InitInv == Init => SimInv
<1> SUFFICES ASSUME Init PROVE SimInv
  OBVIOUS
<1> USE SimAssumption DEF Init
<1>1. InputInv /\ StatInv /\ FilesInv
  BY DEF InputInv, StatInv, FilesInv, ExitsLate
<1>2. HeapInv
  <2>1. ASSUME NEW type PROVE Ordered(type, <<>>)
    BY OrderedMeans
  <2> QED
    BY <2>1 DEF HeapInv, HeapsOrdered
<1>3. \A s \in Symbols : virtual_pages[s] = <<>> /\ page_count(s) = 0 /\ Charged(s) = 0
  BY DEF page_count, Charged
<1>4. MemType /\ OneBook
  BY DEF MemType, OneBook
<1>5. PagesUsed /\ PagesDistinct /\ NoneLost /\ FreeBlank
  BY <1>3 DEF PagesUsed, PagesDistinct, NoneLost, FreeBlank
<1>6. PagesFilled
  BY <1>3 DEF PagesFilled
<1>7. ChargeInv
  BY <1>3 DEF ChargeInv, Nodes
<1> QED
  BY <1>1, <1>2, <1>4, <1>5, <1>6, <1>7 DEF SimInv, MemInv

\* Steps that leave books, heaps and memory alone.
LEMMA IdleKeeps ==
  ASSUME HeapInv, MemInv, UNCHANGED <<books, heapVars, memVars>>
  PROVE  HeapInv' /\ MemInv' /\ \A t \in Symbols : Charged(t)' = Charged(t) /\ Nodes(t)' = Nodes(t)
<1>1. HeapInv'
  BY DEF HeapInv, HeapsOrdered, heapVars
<1>2. \A t \in Symbols : Nodes(t)' = Nodes(t)
  BY DEF Nodes, heapVars
<1>3. MemInv' /\ \A t \in Symbols : Charged(t)' = Charged(t)
  <2>1. UNCHANGED <<virtual_pages, nodes_in_curr_page, free_bitmap, owner_symbol, node_count>>
        /\ overflow' \in 0 .. OVERFLOW_PAGE_SIZE
    BY DEF memVars, MemInv, MemType
  <2> QED
    BY <2>1, OverflowKeeps
<1> QED
  BY <1>1, <1>2, <1>3

\* Orders, files and statistics.
LEMMA CountersStep ==
  ASSUME InputInv, StatInv, FilesInv, [Next]_vars
  PROVE  InputInv' /\ StatInv' /\ FilesInv'
<1> USE SimAssumption
<1>1. CASE main
  BY <1>1 DEF main, InputInv, StatInv, FilesInv, ExitsLate, inputVars, statVars
<1>2. CASE csv_header
  BY <1>2 DEF csv_header, InputInv, StatInv, FilesInv, ExitsLate, inputVars, statVars
<1>3. CASE FileError
  BY <1>3 DEF FileError, InputInv, StatInv, FilesInv, ExitsLate, inputVars, statVars
<1>4. CASE NoTrade
  BY <1>4 DEF NoTrade, fclose, InputInv, StatInv, FilesInv, ExitsLate, inputVars, statVars
<1>5. CASE Trade
  <2>1. InputInv' /\ FilesInv'
    BY <1>5 DEF Trade, fclose, InputInv, FilesInv, ExitsLate, inputVars
  <2>2. UNCHANGED <<trades, overflow_accesses, hard_rejects>>
    BY <1>5 DEF Trade
  <2>3. \E e \in {exact[ob], exact[ob] + 1} : exact' = [exact EXCEPT ![ob] = e]
    BY <1>5 DEF Trade
  <2>4. exact[ob] \in Nat
    BY <1>5 DEF Trade, InputInv, StatInv
  <2>5. exact' \in [Symbols -> Nat]
    <3>1. PICK e \in Nat : exact' = [exact EXCEPT ![ob] = e]
      <4>1. PICK e \in {exact[ob], exact[ob] + 1} : exact' = [exact EXCEPT ![ob] = e]
        BY <2>3
      <4>2. e \in Nat
        BY <2>4
      <4> QED
        BY ONLY <4>1, <4>2
    <3>2. exact \in [Symbols -> Nat]
      BY DEF StatInv
    <3> QED
      BY ONLY <3>1, <3>2
  <2> QED
    BY <2>1, <2>2, <2>5 DEF StatInv
<1>6. CASE post_trade_cleanup
  <2>1. InputInv' /\ FilesInv'
    BY <1>6 DEF post_trade_cleanup, InputInv, FilesInv, ExitsLate, inputVars
  <2>2. trades' = [trades EXCEPT ![ob] = @ + 1] /\ UNCHANGED <<overflow_accesses, hard_rejects, exact>>
    BY <1>6 DEF post_trade_cleanup
  <2>3. trades' \in [Symbols -> Nat]
    <3>1. ob \in Symbols /\ trades \in [Symbols -> Nat]
      BY <1>6 DEF post_trade_cleanup, InputInv, StatInv
    <3>2. trades[ob] + 1 \in Nat /\ trades' = [trades EXCEPT ![ob] = trades[ob] + 1]
      BY <2>2, <3>1
    <3> QED
      BY ONLY <3>1, <3>2
  <2> QED
    BY <2>1, <2>2, <2>3 DEF StatInv
<1>7. CASE UNCHANGED vars
  BY <1>7 DEF InputInv, StatInv, FilesInv, ExitsLate, vars, inputVars, statVars
<1>8. ASSUME NEW s \in Symbols, NEW type \in {"ask", "bid"}, NEW p \in Prices, NEW a \in Amounts,
             Submit(s, type, p, a)
      PROVE  InputInv' /\ StatInv' /\ FilesInv'
  <2>1. /\ pc = "next" /\ orders < MAX_ORDERS /\ ob' = s /\ orders' = orders + 1
        /\ UNCHANGED <<trades, exact, files, max_files>>
    BY <1>8 DEF Submit
  <2>6. now' \in Nat
    BY <1>8, ClockMoves DEF Submit, InputInv
  <2>2. pc' \in {"check", "next"} /\ hard_rejects' \in {hard_rejects, hard_rejects + 1}
        /\ overflow_accesses' \in {overflow_accesses, overflow_accesses + 1}
    BY <1>8 DEF Submit, Insert, HardReject, CurrPage, NewPage, OverflowPage
  <2>3. StatInv'
    BY <2>1, <2>2 DEF StatInv
  <2>4. InputInv'
    BY <2>1, <2>2, <2>6 DEF InputInv
  <2>5. FilesInv'
    BY <2>1, <2>2 DEF FilesInv, InputInv, ExitsLate
  <2> QED
    BY <2>3, <2>4, <2>5
<1> QED
  BY <1>1, <1>2, <1>3, <1>4, <1>5, <1>6, <1>7, <1>8 DEF Next, SkipLine, Stop

\* Heaps and pages when an order is submitted,
LEMMA SubmitStep ==
  ASSUME SimInv, NEW s \in Symbols, NEW type \in {"ask", "bid"}, NEW p \in Prices, NEW a \in Amounts,
         Submit(s, type, p, a)
  PROVE  HeapInv' /\ MemInv' /\ ChargeInv'
<1> DEFINE o == create_order(now, p, a)
<1>1. InputInv /\ HeapInv /\ StatInv /\ MemInv /\ ChargeInv
  BY DEF SimInv
<1>2. o \in Order
  BY <1>1, SimAssumption, OrderMade DEF InputInv
<1> HIDE DEF o
<1>3. /\ pc = "next" /\ pc' \in {"next", "check"} /\ find_or_create_book(s)
      /\ Insert(s, type, o) \/ HardReject(s)
      /\ exact' = exact
  BY DEF Submit, Insert, HardReject, o
<1>4. \A t \in Symbols : exact[t] \in Nat /\ Nodes(t) \in Nat
  BY <1>1 DEF StatInv, HeapInv, Nodes
<1>5. overflow_accesses \in Nat
  BY <1>1 DEF StatInv
<1>6. CASE Insert(s, type, o)
  <2>1. /\ HeapInv' /\ Nodes(s)' = Nodes(s) + 1
        /\ \A t \in Symbols : t # s => Nodes(t)' = Nodes(t)
    BY <1>1, <1>2, <1>6, InsertHeaps
  <2>2. CASE CurrPage(s) \/ NewPage(s)
    <3>1. MemInv' /\ Charges(s, 1)
      BY <1>1, <1>3, <2>2, CurrPageKeeps, NewPageKeeps
    <3>2. overflow_accesses' = overflow_accesses
      BY <2>2 DEF CurrPage, NewPage
    <3>3. ASSUME overflow_accesses = 0, NEW t \in Symbols PROVE Charged(t)' = Nodes(t)' + exact[t]
      <4>1. Charged(t) = Nodes(t) + exact[t]
        BY <1>1, <1>3, <1>4, <3>3 DEF ChargeInv
      <4>2. CASE t = s
        BY <1>4, <2>1, <3>1, <4>1, <4>2 DEF Charges
      <4>3. CASE t # s
        BY <2>1, <3>1, <4>1, <4>3 DEF Charges
      <4> QED
        BY <4>2, <4>3
    <3>4. \A t \in Symbols : Nodes(t)' \in Nat
      BY <1>4, <2>1
    <3> QED
      BY <1>3, <1>4, <2>1, <3>1, <3>2, <3>3, <3>4 DEF ChargeInv
  <2>3. CASE OverflowPage(s)
    <3>1. overflow' \in 0 .. OVERFLOW_PAGE_SIZE
      BY <1>1, <2>3, SimAssumption DEF OverflowPage, MemInv, MemType
    <3>2. MemInv'
      BY <1>1, <1>3, <2>3, <3>1, OverflowKeeps DEF OverflowPage
    <3>3. ChargeInv'
      BY <1>5, <2>3 DEF OverflowPage, ChargeInv
    <3> QED
      BY <2>1, <3>2, <3>3
  <2> QED
    BY <1>6, <2>2, <2>3 DEF Insert
<1>7. CASE HardReject(s)
  <2>1. UNCHANGED <<heapVars, memVars, overflow_accesses>>
    BY <1>7 DEF HardReject
  <2>2. UNCHANGED <<virtual_pages, nodes_in_curr_page, free_bitmap, owner_symbol, node_count>>
        /\ overflow' \in 0 .. OVERFLOW_PAGE_SIZE
    BY <1>1, <2>1 DEF memVars, MemInv, MemType
  <2>3. MemInv' /\ \A t \in Symbols : Charged(t)' = Charged(t)
    BY <1>1, <1>3, <2>2, OverflowKeeps
  <2>4. HeapInv' /\ \A t \in Symbols : Nodes(t)' = Nodes(t)
    BY <1>1, <2>1 DEF HeapInv, HeapsOrdered, Nodes, heapVars
  <2>5. ChargeInv'
    BY <1>1, <1>3, <2>1, <2>3, <2>4 DEF ChargeInv
  <2> QED
    BY <2>3, <2>4, <2>5
<1> QED
  BY <1>3, <1>6, <1>7

\* when two orders trade,
LEMMA TradeStep ==
  ASSUME SimInv, Trade
  PROVE  HeapInv' /\ MemInv' /\ ChargeInv'
<1>1. InputInv /\ HeapInv /\ StatInv /\ MemInv /\ ChargeInv
  BY DEF SimInv
<1>2. /\ pc = "check" /\ pc' = "cleanup" /\ ob' = ob
      /\ UNCHANGED <<books, virtual_pages, nodes_in_curr_page, free_bitmap, owner_symbol, node_count,
                     overflow, overflow_accesses>>
  BY DEF Trade, inputVars, memVars
<1>3. ob \in Symbols
  BY <1>1, <1>2 DEF InputInv
<1>4. /\ HeapInv' /\ \A t \in Symbols : t = ob => Nodes(t)' + exact'[t] = Nodes(t) + exact[t] - 1
      /\ \A t \in Symbols : t # ob => Nodes(t)' = Nodes(t) /\ exact'[t] = exact[t]
  BY <1>1, TradeHeaps
<1>5. MemInv' /\ \A t \in Symbols : Charged(t)' = Charged(t)
  <2>1. overflow' \in 0 .. OVERFLOW_PAGE_SIZE
    BY <1>1, <1>2 DEF MemInv, MemType
  <2> QED
    BY <1>1, <1>2, <1>3, <2>1, OverflowKeeps
<1>6. ChargeInv'
  <2>1. SUFFICES ASSUME overflow_accesses = 0, NEW t \in Symbols
                 PROVE  Charged(t)' = Nodes(t)' + exact'[t] + IF ob = t THEN 1 ELSE 0
    BY <1>2 DEF ChargeInv
  <2>2. exact'[t] \in Nat /\ exact[t] \in Nat /\ Nodes(t) \in Nat /\ Nodes(t)' \in Nat
    <3>1. StatInv'
      BY <1>1, CountersStep DEF SimInv, Next
    <3> QED
      BY <1>1, <1>4, <3>1 DEF StatInv, HeapInv, Nodes
  <2>3. Charged(t)' = Nodes(t) + exact[t]
    BY <1>1, <1>2, <1>5, <2>1, <2>2 DEF ChargeInv
  <2>4. CASE t = ob
    BY <1>4, <2>2, <2>3, <2>4
  <2>5. CASE t # ob
    BY <1>4, <2>2, <2>3, <2>5
  <2> QED
    BY <2>4, <2>5
<1> QED
  BY <1>4, <1>5, <1>6

\* and when a node is given back.
LEMMA CleanupStep ==
  ASSUME SimInv, post_trade_cleanup
  PROVE  HeapInv' /\ MemInv' /\ ChargeInv'
<1>1. InputInv /\ HeapInv /\ StatInv /\ MemInv /\ ChargeInv
  BY DEF SimInv
<1>2. /\ pc = "cleanup" /\ pc' = "check" /\ ob' = ob
      /\ UNCHANGED <<books, heapVars, overflow_accesses, exact>>
      /\ overflow' = IF overflow > 0 THEN overflow - 1 ELSE 0
  BY DEF post_trade_cleanup, inputVars
<1>3. ob \in Symbols
  BY <1>1, <1>2 DEF InputInv
<1>4. HeapInv' /\ \A t \in Symbols : Nodes(t)' = Nodes(t)
  BY <1>1, <1>2 DEF HeapInv, HeapsOrdered, Nodes, heapVars
<1>5. overflow' \in 0 .. OVERFLOW_PAGE_SIZE
  BY <1>1, <1>2, SimAssumption DEF MemInv, MemType
<1>6. \A t \in Symbols : exact[t] \in Nat /\ Nodes(t) \in Nat
  BY <1>1 DEF StatInv, HeapInv, Nodes
<1>7. CASE nodes_in_curr_page[ob] > 0
  <2>1. FreeNode(ob)
    BY <1>7 DEF post_trade_cleanup
  <2>2. MemInv' /\ \A t \in Symbols : Charged(t)' = Charged(t) + IF t = ob THEN -1 ELSE 0
    <3>1. ASSUME NEW s \in Symbols, s = ob
          PROVE  MemInv' /\ Charges(s, -1)
      <4>1. nodes_in_curr_page[s] > 0 /\ FreeNode(s) /\ books' = books
        BY <1>2, <1>7, <2>1, <3>1
      <4> QED
        BY <1>1, <1>5, <4>1, FreeOneKeeps, FreePageKeeps
    <3>2. \A t \in Symbols : Charged(t) \in Int
      <4>1. TAKE t \in Symbols
      <4>2. page_count(t) \in Nat /\ nodes_in_curr_page[t] \in Int
        BY <1>1, PagesAre, SimAssumption DEF MemInv, MemType
      <4>3. PAGE_SIZE * (page_count(t) - 1) \in Int
        BY <4>2, SimAssumption
      <4> DEFINE q == PAGE_SIZE * (page_count(t) - 1)
      <4>4. Charged(t) = IF page_count(t) = 0 THEN 0 ELSE q + nodes_in_curr_page[t]
        BY DEF Charged
      <4> HIDE DEF q
      <4> QED
        BY <4>2, <4>3, <4>4 DEF q
    <3> QED
      BY <1>3, <3>1, <3>2 DEF Charges
  <2>3. ChargeInv'
    <3>1. SUFFICES ASSUME overflow_accesses = 0, NEW t \in Symbols
                   PROVE  Charged(t)' = Nodes(t)' + exact'[t]
      BY <1>2, <1>4, <1>6 DEF ChargeInv
    <3>2. Charged(t) = Nodes(t) + exact[t] + IF ob = t THEN 1 ELSE 0
      BY <1>1, <1>2, <3>1 DEF ChargeInv
    <3> QED
      BY <1>2, <1>4, <1>6, <2>2, <3>1, <3>2
  <2> QED
    BY <1>4, <2>2, <2>3
<1>8. CASE ~ (nodes_in_curr_page[ob] > 0)
  <2>1. UNCHANGED <<virtual_pages, nodes_in_curr_page, free_bitmap, owner_symbol, node_count>>
    BY <1>8 DEF post_trade_cleanup
  <2>2. MemInv' /\ \A t \in Symbols : Charged(t)' = Charged(t)
    BY <1>1, <1>2, <1>3, <1>5, <2>1, OverflowKeeps
  \* A book that has a trade to clean up after has been charged for a node.
  <2>3. overflow_accesses # 0
    <3>1. SUFFICES ASSUME overflow_accesses = 0 PROVE FALSE
      OBVIOUS
    <3>2. Charged(ob) = Nodes(ob) + exact[ob] + 1
      BY <1>1, <1>2, <1>3, <3>1 DEF ChargeInv
    <3>3. page_count(ob) = 0
      BY <1>1, <1>3, <1>8, PagesAre, SimAssumption DEF MemInv, PagesFilled
    <3>4. Charged(ob) = 0
      BY <3>3 DEF Charged
    <3> QED
      BY <1>3, <1>6, <3>2, <3>4
  <2>4. ChargeInv'
    BY <1>2, <2>3 DEF ChargeInv
  <2> QED
    BY <1>4, <2>2, <2>4
<1> QED
  BY <1>7, <1>8

\* Every step of the simulator keeps the invariant.
LEMMA SimStep == SimInv /\ [Next]_vars => SimInv'
<1> SUFFICES ASSUME SimInv, [Next]_vars PROVE SimInv'
  OBVIOUS
<1>1. InputInv' /\ StatInv' /\ FilesInv'
  BY CountersStep DEF SimInv
<1>2. CASE main \/ csv_header \/ FileError \/ NoTrade \/ UNCHANGED vars
  <2>1. UNCHANGED <<books, heapVars, memVars, overflow_accesses, exact, ob>>
    BY <1>2 DEF main, csv_header, FileError, NoTrade, vars, inputVars, statVars
  <2>2. pc = pc' \/ (pc # "cleanup" /\ pc' # "cleanup")
    BY <1>2 DEF main, csv_header, FileError, NoTrade, vars
  <2>3. HeapInv' /\ MemInv' /\ \A t \in Symbols : Charged(t)' = Charged(t) /\ Nodes(t)' = Nodes(t)
    BY <2>1, IdleKeeps DEF SimInv
  <2>4. ChargeInv'
    BY <2>1, <2>2, <2>3 DEF SimInv, ChargeInv
  <2> QED
    BY <1>1, <2>3, <2>4 DEF SimInv
<1>3. CASE Trade
  BY <1>1, <1>3, TradeStep DEF SimInv
<1>4. CASE post_trade_cleanup
  BY <1>1, <1>4, CleanupStep DEF SimInv
<1>5. CASE \E s \in Symbols, type \in {"ask", "bid"}, p \in Prices, a \in Amounts :
             Submit(s, type, p, a)
  BY <1>1, <1>5, SubmitStep DEF SimInv
<1> QED
  BY <1>2, <1>3, <1>4, <1>5 DEF Next, SkipLine, Stop

\* The invariant implies the properties.
LEMMA SimInvMeans == SimInv => BooksInv /\ OrdersHavePlaces /\ ExitsLate
<1> SUFFICES ASSUME SimInv PROVE BooksInv /\ OrdersHavePlaces /\ ExitsLate
  OBVIOUS
<1>1. TypeOK
  BY DEF SimInv, InputInv, HeapInv, FilesInv, MemInv, MemType, OneBook, TypeOK
<1>2. FramesOwned
  BY MemIsOwned DEF SimInv
<1>3. BooksInv
  BY <1>1, <1>2 DEF SimInv, HeapInv, MemInv, BooksInv
<1>4. OrdersHavePlaces
  <2>1. \A s \in Symbols : exact[s] \in Nat /\ Nodes(s) \in Nat
    BY DEF SimInv, StatInv, HeapInv, Nodes
  <2> QED
    BY <2>1 DEF SimInv, ChargeInv, OrdersHavePlaces
<1> QED
  BY <1>3, <1>4 DEF SimInv, FilesInv

\* The invariant holds always.
LEMMA SimSafe == Spec => []SimInv
BY InitInv, SimStep, PTL DEF Spec

\* After every step of every order the heaps are ordered and page lists, owners,
\* free bitmap and counts agree (memory_sim.c, mmu.h), whatever the page size,
\* the number of pages and the symbols: a frame is free or a page of one book.
THEOREM BooksConsistent == Spec => []BooksInv
BY SimSafe, SimInvMeans, PTL

\* While the overflow page was not needed, every order has a place in the pages of
\* its book, whatever was freed by trades (post_trade_cleanup, mmu_free_node).
THEOREM EveryOrderHasAPlace == Spec => []OrdersHavePlaces
BY SimSafe, SimInvMeans, PTL

\* The simulator exits for want of file descriptors only after more orders than it
\* may have files open (check_for_trade_multi returns with results.txt open).
THEOREM NoEarlyExit == Spec => []ExitsLate
BY SimSafe, SimInvMeans, PTL

-----------------------------------------------------------------------------
(* Price-time priority.  Orders come at different times of the clock, of    *)
(* which they keep the nanosecond within the second.  Quantities are those  *)
(* that 16 bits hold: the difference of two is then a quantity too.         *)

AmountsFit == \A a \in Amounts : Short(a) >= 0

\* The order came before now, and its timestamp and its amount are right.
Timely(o) == o.ts < now /\ o.timestamp = o.ts % Second /\ Small(o.amount)

TimeInv ==
  \A s \in Symbols :
    /\ Distinct(asks[s]) /\ Distinct(bids[s])
    /\ \A o \in Contents(asks[s]) \cup Contents(bids[s]) : Timely(o)

CrossedBook(s) ==
  asks[s] # <<>> /\ bids[s] # <<>> /\ peek(bids[s]).price >= peek(asks[s]).price

\* Only the book of the order that is being matched may be crossed, and only a
\* trade that waits for its cleanup is not yet reported.
QuietInv ==
  /\ \A s \in Symbols : CrossedBook(s) => pc \in {"check", "cleanup", "exited"} /\ ob = s
  /\ IF pc = "cleanup" THEN trade \in Order ELSE trade = NoNode

\* Order o came when x did, and is no larger than 16 bits if x is not.
SameTime(x, o) == o.ts = x.ts /\ o.timestamp = x.timestamp /\ (Small(x.amount) => Small(o.amount))

\* A side after a trade holds what it held, with what is left of its root, if
\* anything is, in place of its root.
LEMMA TradedContents ==
  ASSUME NEW type, NEW h \in Seq(Order), Len(h) > 0, Ordered(type, h), Distinct(h), NEW other \in Int,
         Small(peek(h).amount), Small(other)
  PROVE  /\ Distinct(AfterTrade(type, h, other))
         /\ Contents(AfterTrade(type, h, other))
              = (Contents(h) \ {peek(h)})
                  \cup (IF peek(h).amount > other
                        THEN {[peek(h) EXCEPT !.amount = peek(h).amount - other]} ELSE {})
         /\ \A o \in Contents(AfterTrade(type, h, other)) : \E x \in Contents(h) : SameTime(x, o)
<1>1. h[1] \in Order
  OBVIOUS
<1>2. peek(h) \in Order /\ peek(h).amount \in Int /\ peek(h) \in Contents(h)
  BY <1>1 DEF peek, Order, Contents
<1>3. CASE peek(h).amount > other
  <2> DEFINE a == peek(h).amount - other
             r == [peek(h) EXCEPT !.amount = a]
  <2>1. a \in Int /\ Small(a)
    BY <1>2, <1>3 DEF Small
  <2>6. Short(a) = a
    <3> HIDE DEF a
    <3> QED
      BY <2>1, ShortIsInt
  <2>2. SameTime(peek(h), r)
    <3> HIDE DEF a
    <3> QED
      BY <1>2, <2>1 DEF Order, SameTime
  <2>3. AfterTrade(type, h, other) = update(h, a)
    BY <1>3 DEF AfterTrade
  <2>4. Distinct(update(h, a)) /\ Contents(update(h, a)) = (Contents(h) \ {peek(h)}) \cup {r}
    <3> HIDE DEF a
    <3> QED
      BY <2>1, <2>6, Updated
  <2> HIDE DEF r
  <2>5. \A o \in Contents(update(h, a)) : \E x \in Contents(h) : SameTime(x, o)
    BY <1>2, <2>2, <2>4 DEF SameTime
  <2> QED
    BY <1>3, <2>3, <2>4, <2>5 DEF r
<1>4. CASE ~ (peek(h).amount > other)
  <2>1. AfterTrade(type, h, other) = pop(type, h)
    BY <1>4 DEF AfterTrade
  <2>2. Distinct(pop(type, h)) /\ Contents(pop(type, h)) = Contents(h) \ {peek(h)}
    BY Popped
  <2> QED
    BY <1>4, <2>1, <2>2 DEF SameTime
<1> QED
  BY <1>3, <1>4

\* Books that a step leaves alone keep what is said of them.
LEMMA TimeKept ==
  ASSUME TimeInv, SimInv, now \in Nat, now' \in Nat, now' >= now, NEW s \in Symbols,
         asks'[s] = asks[s], bids'[s] = bids[s]
  PROVE  /\ Distinct(asks'[s]) /\ Distinct(bids'[s])
         /\ \A o \in Contents(asks'[s]) \cup Contents(bids'[s]) : Timely(o)'
<1>1. \A o \in Order : Timely(o) => Timely(o)'
  BY DEF Timely, Order
<1>2. \A o \in Contents(asks[s]) \cup Contents(bids[s]) : o \in Order
  BY DEF SimInv, HeapInv, Contents
<1> QED
  BY <1>1, <1>2 DEF TimeInv

\* An order made now.
Fresh(o) == o.ts = now /\ o.timestamp = now % Second /\ Small(o.amount)

LEMMA OrderFresh ==
  ASSUME AmountsFit, SimInv, NEW p \in Prices, NEW a \in Amounts
  PROVE  create_order(now, p, a) \in Order /\ Fresh(create_order(now, p, a))
<1>1. p \in Int /\ a \in Int /\ now \in Nat
  BY SimAssumption DEF SimInv, InputInv
<1> DEFINE o == create_order(now, p, a)
<1>2. o \in Order /\ o.ts = now /\ o.timestamp = now % Second /\ o.amount = Short(a)
  BY <1>1, OrderMade
<1>3. Small(Short(a))
  BY <1>1, ShortIsInt DEF AmountsFit
<1> HIDE DEF o
<1> QED
  BY <1>2, <1>3 DEF Fresh, o

\* The order inserted came at a time at which no other did.
LEMMA InsertTime ==
  ASSUME SimInv, TimeInv, NEW s \in Symbols, NEW type \in {"ask", "bid"},
         NEW o \in Order, Fresh(o), Insert(s, type, o), now' \in Nat, now' > now
  PROVE  /\ TimeInv'
         /\ \A t \in Symbols : t # s => asks'[t] = asks[t] /\ bids'[t] = bids[t]
         /\ \/ /\ asks'[s] = asks[s] /\ Contents(bids'[s]) = Contents(bids[s]) \cup {o}
               /\ o \notin Contents(bids[s])
            \/ /\ bids'[s] = bids[s] /\ Contents(asks'[s]) = Contents(asks[s]) \cup {o}
               /\ o \notin Contents(asks[s])
<1>1. /\ asks \in [Symbols -> Seq(Order)] /\ bids \in [Symbols -> Seq(Order)]
      /\ \A t \in Symbols : Ordered("ask", asks[t]) /\ Ordered("bid", bids[t])
  BY DEF SimInv, HeapInv, HeapsOrdered
<1>2. now \in Nat
  BY DEF SimInv, InputInv
<1>3. \A t \in Symbols : \A x \in Contents(asks[t]) \cup Contents(bids[t]) : x \in Order
  BY <1>1 DEF Contents
<1>4. \A x \in Order : Timely(x) => x.ts # o.ts
  BY <1>2 DEF Timely, Fresh, Order
<1>5. Timely(o)' /\ \A x \in Order : Timely(x) => Timely(x)'
  BY <1>2 DEF Timely, Fresh, Order
<1>6. \A t \in Symbols : /\ Distinct(asks[t]) /\ Distinct(bids[t])
                         /\ \A x \in Contents(asks[t]) : Timely(x)
                         /\ \A x \in Contents(bids[t]) : Timely(x)
  BY DEF TimeInv
<1>7. CASE type = "ask"
  <2> DEFINE w == push("ask", asks[s], o)
  <2>1. asks' = [asks EXCEPT ![s] = w] /\ bids' = bids
    BY <1>7 DEF Insert
  <2>2. asks'[s] = w /\ \A t \in Symbols : t # s => asks'[t] = asks[t]
    BY <1>1, <2>1
  <2>3. asks[s] \in Seq(Order) /\ Ordered("ask", asks[s]) /\ \A x \in Contents(asks[s]) : x.ts # o.ts
    BY <1>1, <1>3, <1>4, <1>6
  <2>4. Distinct(w) /\ Contents(w) = Contents(asks[s]) \cup {o}
    <3>1. Distinct(asks[s])
      BY <1>6
    <3>2. Contents(w) = Contents(asks[s]) \cup {o}
      BY <2>3, Pushed
    <3>3. Distinct(w)
      BY <2>3, <3>1, Pushed
    <3> QED
      BY <3>2, <3>3
  <2> HIDE DEF w
  <2>5. o \notin Contents(asks[s])
    BY <2>3
  <2>6. ASSUME NEW t \in Symbols
        PROVE  /\ Distinct(asks'[t]) /\ Distinct(bids'[t])
               /\ \A x \in Contents(asks'[t]) \cup Contents(bids'[t]) : Timely(x)'
    <3>1. CASE t = s
      BY <1>3, <1>5, <1>6, <2>1, <2>2, <2>4, <3>1
    <3>2. CASE t # s
      BY <1>3, <1>5, <1>6, <2>1, <2>2, <3>2
    <3> QED
      BY <3>1, <3>2
  <2>7. TimeInv'
    BY <2>6 DEF TimeInv
  <2> QED
    BY <2>1, <2>2, <2>4, <2>5, <2>7
<1>8. CASE type = "bid"
  <2> DEFINE w == push("bid", bids[s], o)
  <2>1. bids' = [bids EXCEPT ![s] = w] /\ asks' = asks
    BY <1>8 DEF Insert
  <2>2. bids'[s] = w /\ \A t \in Symbols : t # s => bids'[t] = bids[t]
    BY <1>1, <2>1
  <2>3. bids[s] \in Seq(Order) /\ Ordered("bid", bids[s]) /\ \A x \in Contents(bids[s]) : x.ts # o.ts
    BY <1>1, <1>3, <1>4, <1>6
  <2>4. Distinct(w) /\ Contents(w) = Contents(bids[s]) \cup {o}
    <3>1. Distinct(bids[s])
      BY <1>6
    <3>2. Contents(w) = Contents(bids[s]) \cup {o}
      BY <2>3, Pushed
    <3>3. Distinct(w)
      BY <2>3, <3>1, Pushed
    <3> QED
      BY <3>2, <3>3
  <2> HIDE DEF w
  <2>5. o \notin Contents(bids[s])
    BY <2>3
  <2>6. ASSUME NEW t \in Symbols
        PROVE  /\ Distinct(asks'[t]) /\ Distinct(bids'[t])
               /\ \A x \in Contents(asks'[t]) \cup Contents(bids'[t]) : Timely(x)'
    <3>1. CASE t = s
      BY <1>3, <1>5, <1>6, <2>1, <2>2, <2>4, <3>1
    <3>2. CASE t # s
      BY <1>3, <1>5, <1>6, <2>1, <2>2, <3>2
    <3> QED
      BY <3>1, <3>2
  <2>7. TimeInv'
    BY <2>6 DEF TimeInv
  <2> QED
    BY <2>1, <2>2, <2>4, <2>5, <2>7
<1> QED
  BY <1>7, <1>8

\* A trade leaves the times of the orders.
LEMMA TradeTime ==
  ASSUME SimInv, TimeInv, Trade
  PROVE  /\ TimeInv'
         /\ \A t \in Symbols : t # ob => asks'[t] = asks[t] /\ bids'[t] = bids[t]
         /\ LET x == peek(bids[ob])
                y == peek(asks[ob])
            IN  /\ x \in Order /\ y \in Order
                /\ Contents(bids'[ob]) = (Contents(bids[ob]) \ {x})
                     \cup (IF x.amount > y.amount THEN {[x EXCEPT !.amount = x.amount - y.amount]} ELSE {})
                /\ Contents(asks'[ob]) = (Contents(asks[ob]) \ {y})
                     \cup (IF y.amount > x.amount THEN {[y EXCEPT !.amount = y.amount - x.amount]} ELSE {})
<1> DEFINE x == peek(bids[ob])
           y == peek(asks[ob])
           b == AfterTrade("bid", bids[ob], y.amount)
           a == AfterTrade("ask", asks[ob], x.amount)
<1>1. /\ asks \in [Symbols -> Seq(Order)] /\ bids \in [Symbols -> Seq(Order)]
      /\ \A t \in Symbols : Ordered("ask", asks[t]) /\ Ordered("bid", bids[t])
  BY DEF SimInv, HeapInv, HeapsOrdered
<1>2. ob \in Symbols /\ asks[ob] # <<>> /\ bids[ob] # <<>> /\ now' = now
  BY DEF Trade, OneSided, SimInv, InputInv, inputVars
<1>3. bids' = [bids EXCEPT ![ob] = b] /\ asks' = [asks EXCEPT ![ob] = a]
  BY DEF Trade
<1>4. /\ bids'[ob] = b /\ asks'[ob] = a
      /\ \A t \in Symbols : t # ob => asks'[t] = asks[t] /\ bids'[t] = bids[t]
  BY <1>1, <1>2, <1>3
<1>5. /\ asks[ob] \in Seq(Order) /\ Len(asks[ob]) > 0 /\ Ordered("ask", asks[ob])
      /\ bids[ob] \in Seq(Order) /\ Len(bids[ob]) > 0 /\ Ordered("bid", bids[ob])
  BY <1>1, <1>2
<1>6. bids[ob][1] \in Order /\ asks[ob][1] \in Order
  BY <1>5
<1>7. x \in Order /\ y \in Order /\ x.amount \in Int /\ y.amount \in Int
  BY <1>6 DEF peek, Order
<1>8. Distinct(asks[ob]) /\ Distinct(bids[ob]) /\ Small(x.amount) /\ Small(y.amount)
  <2>1. x \in Contents(bids[ob]) /\ y \in Contents(asks[ob])
    BY <1>5 DEF peek, Contents
  <2> QED
    BY <1>2, <2>1 DEF TimeInv, Timely
<1>9. /\ Distinct(b)
      /\ Contents(b) = (Contents(bids[ob]) \ {x})
           \cup (IF x.amount > y.amount THEN {[x EXCEPT !.amount = x.amount - y.amount]} ELSE {})
      /\ \A o \in Contents(b) : \E z \in Contents(bids[ob]) : SameTime(z, o)
  <2> DEFINE q == y.amount
  <2>1. q \in Int /\ Small(q)
    BY <1>7, <1>8
  <2> HIDE DEF q
  <2>2. /\ Distinct(AfterTrade("bid", bids[ob], q))
        /\ Contents(AfterTrade("bid", bids[ob], q)) = (Contents(bids[ob]) \ {x})
             \cup (IF x.amount > q THEN {[x EXCEPT !.amount = x.amount - q]} ELSE {})
        /\ \A o \in Contents(AfterTrade("bid", bids[ob], q)) : \E z \in Contents(bids[ob]) : SameTime(z, o)
    BY <1>5, <1>8, <2>1, TradedContents
  <2> QED
    BY <2>2 DEF q
<1>10. /\ Distinct(a)
       /\ Contents(a) = (Contents(asks[ob]) \ {y})
            \cup (IF y.amount > x.amount THEN {[y EXCEPT !.amount = y.amount - x.amount]} ELSE {})
       /\ \A o \in Contents(a) : \E z \in Contents(asks[ob]) : SameTime(z, o)
  <2> DEFINE q == x.amount
  <2>1. q \in Int /\ Small(q)
    BY <1>7, <1>8
  <2> HIDE DEF q
  <2>2. /\ Distinct(AfterTrade("ask", asks[ob], q))
        /\ Contents(AfterTrade("ask", asks[ob], q)) = (Contents(asks[ob]) \ {y})
             \cup (IF y.amount > q THEN {[y EXCEPT !.amount = y.amount - q]} ELSE {})
        /\ \A o \in Contents(AfterTrade("ask", asks[ob], q)) : \E z \in Contents(asks[ob]) : SameTime(z, o)
    BY <1>5, <1>8, <2>1, TradedContents
  <2> QED
    BY <2>2 DEF q
<1> HIDE DEF a, b, x, y
<1>11. TimeInv'
  <2>1. \A o : Timely(o)' = Timely(o)
    BY <1>2 DEF Timely
  <2>2. \A o, z : Timely(z) /\ SameTime(z, o) => Timely(o)
    BY DEF Timely, SameTime
  <2>3. ASSUME NEW t \in Symbols
        PROVE  /\ Distinct(asks'[t]) /\ Distinct(bids'[t])
               /\ \A o \in Contents(asks'[t]) \cup Contents(bids'[t]) : Timely(o)'
    <3>1. /\ \A o \in Contents(asks[t]) : Timely(o)
          /\ \A o \in Contents(bids[t]) : Timely(o)
      BY DEF TimeInv
    <3>2. CASE t = ob
      <4>1. \A o \in Contents(asks'[t]) : Timely(o)'
        BY <1>4, <1>10, <2>1, <2>2, <3>1, <3>2
      <4>2. \A o \in Contents(bids'[t]) : Timely(o)'
        BY <1>4, <1>9, <2>1, <2>2, <3>1, <3>2
      <4> QED
        BY <1>4, <1>9, <1>10, <3>2, <4>1, <4>2
    <3>3. CASE t # ob
      BY <1>4, <2>1, <3>1, <3>3 DEF TimeInv
    <3> QED
      BY <3>2, <3>3
  <2> QED
    BY <1>2, <2>3 DEF TimeInv
<1> QED
  BY <1>4, <1>7, <1>9, <1>10, <1>11 DEF x, y

\* Timestamps and books at the start.
LEMMA InitTime == Init => TimeInv /\ QuietInv
<1> SUFFICES ASSUME Init PROVE TimeInv /\ QuietInv
  OBVIOUS
<1>1. Distinct(<<>>) /\ Contents(<<>>) = {}
  BY DEF Distinct, Contents
<1>2. \A s \in Symbols : asks[s] = <<>> /\ bids[s] = <<>>
  BY DEF Init
<1> QED
  BY <1>1, <1>2 DEF Init, TimeInv, QuietInv, CrossedBook

\* No two orders of a heap get the same time.
LEMMA TimeStep ==
  ASSUME AmountsFit, SimInv, TimeInv, [Next]_vars PROVE TimeInv'
<1>1. CASE UNCHANGED <<now, asks, bids>>
  <2>1. \A o : Timely(o)' = Timely(o)
    BY <1>1 DEF Timely
  <2> QED
    BY <1>1, <2>1 DEF TimeInv
<1>2. CASE Trade
  BY <1>2, TradeTime
<1>3. ASSUME NEW s \in Symbols, NEW type \in {"ask", "bid"}, NEW p \in Prices, NEW a \in Amounts,
             Submit(s, type, p, a)
      PROVE  TimeInv'
  <2> DEFINE o == create_order(now, p, a)
  <2>1. o \in Order /\ Fresh(o)
    BY OrderFresh DEF o
  <2> HIDE DEF o
  <2>2. /\ Insert(s, type, o) \/ HardReject(s)
        /\ now \in Nat /\ now' \in Nat /\ now' > now
    BY <1>3, ClockMoves DEF Submit, o, SimInv, InputInv
  <2>3. CASE Insert(s, type, o)
    BY <2>1, <2>2, <2>3, InsertTime
  <2>4. CASE HardReject(s)
    <3>1. asks' = asks /\ bids' = bids
      BY <2>4 DEF HardReject, heapVars
    <3> QED
      BY <2>2, <3>1, TimeKept DEF TimeInv
  <2> QED
    BY <2>2, <2>3, <2>4
<1>4. CASE main \/ csv_header \/ FileError \/ NoTrade \/ post_trade_cleanup \/ UNCHANGED vars
  <2>1. UNCHANGED <<now, asks, bids>>
    BY <1>4 DEF main, csv_header, FileError, NoTrade, post_trade_cleanup, vars, inputVars, heapVars
  <2> QED
    BY <1>1, <2>1
<1> QED
  BY <1>2, <1>3, <1>4 DEF Next, SkipLine, Stop

\* A book that is crossed when an order leaves the loop would stay crossed:
\* check_for_trade_multi goes on until it is not.
LEMMA QuietStep ==
  ASSUME AmountsFit, SimInv, TimeInv, QuietInv, [Next]_vars PROVE QuietInv'
<1>1. pc \in {"check", "cleanup"} => ob \in Symbols
  BY DEF SimInv, InputInv
<1>2. ASSUME NEW s \in Symbols, asks'[s] = asks[s], bids'[s] = bids[s]
      PROVE  CrossedBook(s)' = CrossedBook(s)
  BY <1>2 DEF CrossedBook
<1>3. CASE NoTrade
  <2>1. /\ pc = "check" /\ pc' = "next" /\ UNCHANGED <<ob, asks, bids, trade>>
    BY <1>3 DEF NoTrade, inputVars, heapVars
  <2>2. ~ CrossedBook(ob)
    BY <1>3 DEF NoTrade, OneSided, Crosses, CrossedBook
  <2>3. ASSUME NEW s \in Symbols PROVE ~ CrossedBook(s)'
    BY <1>2, <2>1, <2>2 DEF QuietInv
  <2> QED
    BY <2>1, <2>3 DEF QuietInv
<1>4. CASE main \/ csv_header \/ FileError \/ post_trade_cleanup \/ UNCHANGED vars
  <2>1. UNCHANGED <<ob, asks, bids>>
    BY <1>4 DEF main, csv_header, FileError, post_trade_cleanup, vars, inputVars, heapVars
  <2>2. \A s \in Symbols : CrossedBook(s)' = CrossedBook(s)
    BY <1>2, <2>1
  <2>3. pc \in {"check", "cleanup", "exited"} => pc' \in {"check", "cleanup", "exited"}
    BY <1>4 DEF main, csv_header, FileError, post_trade_cleanup, vars
  <2>4. IF pc' = "cleanup" THEN trade' \in Order ELSE trade' = NoNode
    BY <1>4 DEF main, csv_header, FileError, post_trade_cleanup, vars, QuietInv
  <2> QED
    BY <2>1, <2>2, <2>3, <2>4 DEF QuietInv
<1>5. CASE Trade
  <2>1. pc = "check" /\ pc' = "cleanup" /\ ob' = ob
    BY <1>5 DEF Trade, inputVars
  <2>2. \A t \in Symbols : t # ob => asks'[t] = asks[t] /\ bids'[t] = bids[t]
    BY <1>5, TradeTime
  <2>3. \A t \in Symbols : CrossedBook(t)' => t = ob
    BY <1>2, <2>1, <2>2 DEF QuietInv
  <2>4. trade' \in Order
    <3> DEFINE x == peek(bids[ob])
               y == peek(asks[ob])
               q == IF x.amount > y.amount THEN y.amount ELSE x.amount
    <3>1. x \in Order /\ y \in Order
      BY <1>5, TradeTime
    <3>2. trade' = [x EXCEPT !.amount = q]
      BY <1>5 DEF Trade
    <3> HIDE DEF x, y
    <3>3. q \in Int
      BY <3>1 DEF Order
    <3> HIDE DEF q
    <3> QED
      BY <3>1, <3>2, <3>3 DEF Order
  <2> QED
    BY <2>1, <2>3, <2>4 DEF QuietInv
<1>6. ASSUME NEW s \in Symbols, NEW type \in {"ask", "bid"}, NEW p \in Prices, NEW a \in Amounts,
             Submit(s, type, p, a)
      PROVE  QuietInv'
  <2> DEFINE o == create_order(now, p, a)
  <2>1. o \in Order /\ Fresh(o)
    BY OrderFresh DEF o
  <2> HIDE DEF o
  <2>2. /\ Insert(s, type, o) \/ HardReject(s)
        /\ pc = "next" /\ ob' = s /\ trade' = trade
        /\ now \in Nat /\ now' \in Nat /\ now' > now
    BY <1>6, ClockMoves DEF Submit, o, SimInv, InputInv
  <2>3. trade' = NoNode /\ \A t \in Symbols : ~ CrossedBook(t)
    BY <2>2 DEF QuietInv
  <2>4. CASE Insert(s, type, o)
    <3>1. pc' = "check"
      BY <2>4 DEF Insert
    <3>2. \A t \in Symbols : t # s => asks'[t] = asks[t] /\ bids'[t] = bids[t]
      BY <2>1, <2>2, <2>4, InsertTime
    <3>3. \A t \in Symbols : CrossedBook(t)' => t = s
      BY <1>2, <2>3, <3>2
    <3> QED
      BY <2>2, <2>3, <3>1, <3>3 DEF QuietInv
  <2>5. CASE HardReject(s)
    <3>1. asks' = asks /\ bids' = bids /\ pc' = "next"
      BY <2>5 DEF HardReject, heapVars
    <3>2. \A t \in Symbols : ~ CrossedBook(t)'
      BY <1>2, <2>3, <3>1
    <3> QED
      BY <2>3, <3>1, <3>2 DEF QuietInv
  <2> QED
    BY <2>2, <2>4, <2>5
<1> QED
  BY <1>3, <1>4, <1>5, <1>6 DEF Next, SkipLine, Stop

\* The invariants hold always.
LEMMA TimeSafe == AmountsFit => (Spec => [](SimInv /\ TimeInv /\ QuietInv))
<1> SUFFICES ASSUME AmountsFit PROVE Spec => [](SimInv /\ TimeInv /\ QuietInv)
  OBVIOUS
<1>1. Init => SimInv /\ TimeInv /\ QuietInv
  BY InitInv, InitTime
<1>2. SimInv /\ TimeInv /\ QuietInv /\ [Next]_vars => (SimInv /\ TimeInv /\ QuietInv)'
  BY SimStep, TimeStep, QuietStep
<1> QED
  BY <1>1, <1>2, PTL DEF Spec

-----------------------------------------------------------------------------
(* Each book is an order book in price-time priority.                       *)

\* What the order book of symbol s sees of the simulator.
LEMMA BookSees ==
  ASSUME HeapInv, NEW s \in Symbols
  PROVE  /\ {bids[s][i] : i \in DOMAIN bids[s]} = Contents(bids[s])
         /\ {asks[s][i] : i \in DOMAIN asks[s]} = Contents(asks[s])
BY DEF HeapInv, Contents

\* Of two orders of one second the older has the smaller timestamp.
LEMMA OlderStamp ==
  ASSUME NEW x \in Nat, NEW y \in Nat, x < y, x \div Second = y \div Second
  PROVE  x % Second < y % Second
BY SimAssumption

\* What is below the root of a heap is not before it in price-time priority.
LEMMA RootIsBest ==
  ASSUME SimInv, TimeInv, NEW s \in Symbols
  PROVE  /\ \A o \in Contents(bids[s]) : ~ Book(s)!BidFirst(o, peek(bids[s]))
         /\ \A o \in Contents(asks[s]) : ~ Book(s)!AskFirst(o, peek(asks[s]))
<1> DEFINE Heap(h) == \A o \in Contents(h) : o \in Order /\ Timely(o)
<1>1. /\ bids[s] \in Seq(Order) /\ Ordered("bid", bids[s]) /\ Heap(bids[s])
      /\ asks[s] \in Seq(Order) /\ Ordered("ask", asks[s]) /\ Heap(asks[s])
  BY DEF SimInv, HeapInv, HeapsOrdered, TimeInv, Contents
<1>2. ASSUME NEW x \in Order, NEW y \in Order, Timely(x), Timely(y), Book(s)!Older(x, y)
      PROVE  x.timestamp < y.timestamp
  <2>1. x.ts \in Nat /\ y.ts \in Nat /\ x.ts < y.ts /\ x.ts \div Second = y.ts \div Second
    BY <1>2 DEF Book!Older, Order
  <2> QED
    BY <1>2, <2>1, OlderStamp DEF Timely
<1>3. ASSUME NEW o \in Contents(bids[s]), Book(s)!BidFirst(o, peek(bids[s])) PROVE FALSE
  <2> DEFINE r == peek(bids[s])
  <2>1. Len(bids[s]) > 0
    BY <1>1, <1>3 DEF Contents
  <2>2. r \in Contents(bids[s]) /\ NoWorse("bid", r, o)
    BY <1>1, <2>1, RootFirst
  <2>3. o \in Order /\ Timely(o) /\ r \in Order /\ Timely(r)
    BY <1>1, <2>2
  <2> HIDE DEF r
  <2>4. o.price > r.price \/ (o.price = r.price /\ o.timestamp < r.timestamp)
    BY <1>2, <1>3, <2>3 DEF Book!BidFirst, r
  <2> QED
    BY <2>2, <2>3, <2>4 DEF NoWorse, Order
<1>4. ASSUME NEW o \in Contents(asks[s]), Book(s)!AskFirst(o, peek(asks[s])) PROVE FALSE
  <2> DEFINE r == peek(asks[s])
  <2>1. Len(asks[s]) > 0
    BY <1>1, <1>4 DEF Contents
  <2>2. r \in Contents(asks[s]) /\ NoWorse("ask", r, o)
    BY <1>1, <2>1, RootFirst
  <2>3. o \in Order /\ Timely(o) /\ r \in Order /\ Timely(r)
    BY <1>1, <2>2
  <2> HIDE DEF r
  <2>4. o.price < r.price \/ (o.price = r.price /\ o.timestamp < r.timestamp)
    BY <1>2, <1>4, <2>3 DEF Book!AskFirst, r
  <2> QED
    BY <2>2, <2>3, <2>4 DEF NoWorse, Order
<1> QED
  BY <1>3, <1>4

\* The roots of the heaps are best orders of the book.
LEMMA BestIsRoot ==
  ASSUME SimInv, TimeInv, NEW s \in Symbols
  PROVE  /\ bids[s] # <<>> => peek(bids[s]) \in Book(s)!BestBids
         /\ asks[s] # <<>> => peek(asks[s]) \in Book(s)!BestAsks
<1>1. /\ bids[s] # <<>> => peek(bids[s]) \in Contents(bids[s])
      /\ asks[s] # <<>> => peek(asks[s]) \in Contents(asks[s])
  BY DEF SimInv, HeapInv, peek, Contents
<1>2. /\ {bids[s][i] : i \in DOMAIN bids[s]} = Contents(bids[s])
      /\ {asks[s][i] : i \in DOMAIN asks[s]} = Contents(asks[s])
  BY BookSees DEF SimInv
<1> QED
  BY <1>1, <1>2, RootIsBest DEF Book!BestBids, Book!BestAsks

\* The order book is crossed when the roots of the heaps are.
LEMMA CrossedIs ==
  ASSUME SimInv, NEW s \in Symbols
  PROVE  Book(s)!Crossed <=> CrossedBook(s)
<1>1. /\ bids[s] \in Seq(Order) /\ Ordered("bid", bids[s])
      /\ asks[s] \in Seq(Order) /\ Ordered("ask", asks[s])
  BY DEF SimInv, HeapInv, HeapsOrdered
<1>2. /\ {bids[s][i] : i \in DOMAIN bids[s]} = Contents(bids[s])
      /\ {asks[s][i] : i \in DOMAIN asks[s]} = Contents(asks[s])
  BY BookSees DEF SimInv
<1>3. ASSUME NEW b \in Contents(bids[s])
      PROVE  bids[s] # <<>> /\ peek(bids[s]).price >= b.price /\ peek(bids[s]).price \in Int /\ b.price \in Int
  <2>1. Len(bids[s]) > 0 /\ \A i \in 1 .. Len(bids[s]) : bids[s][i] \in Order
    BY <1>1, <1>3 DEF Contents
  <2>2. b \in Order /\ peek(bids[s]) \in Order /\ NoWorse("bid", peek(bids[s]), b)
    BY <1>1, <2>1, RootFirst DEF Contents, peek
  <2>3. bids[s] # <<>>
    BY <2>1
  <2> DEFINE r == peek(bids[s])
  <2>4. r \in Order /\ NoWorse("bid", r, b)
    BY <2>2
  <2> HIDE DEF r
  <2>5. r.price >= b.price /\ r.price \in Int /\ b.price \in Int
    BY <2>2, <2>4 DEF NoWorse, Order
  <2> QED
    BY <2>3, <2>5 DEF r
<1>4. ASSUME NEW a \in Contents(asks[s])
      PROVE  asks[s] # <<>> /\ peek(asks[s]).price <= a.price /\ peek(asks[s]).price \in Int /\ a.price \in Int
  <2>1. Len(asks[s]) > 0 /\ \A i \in 1 .. Len(asks[s]) : asks[s][i] \in Order
    BY <1>1, <1>4 DEF Contents
  <2>2. a \in Order /\ peek(asks[s]) \in Order /\ NoWorse("ask", peek(asks[s]), a)
    BY <1>1, <2>1, RootFirst DEF Contents, peek
  <2>3. asks[s] # <<>>
    BY <2>1
  <2> DEFINE r == peek(asks[s])
  <2>4. r \in Order /\ NoWorse("ask", r, a)
    BY <2>2
  <2> HIDE DEF r
  <2>5. r.price <= a.price /\ r.price \in Int /\ a.price \in Int
    BY <2>2, <2>4 DEF NoWorse, Order
  <2> QED
    BY <2>3, <2>5 DEF r
<1>5. /\ bids[s] # <<>> => peek(bids[s]) \in Contents(bids[s])
      /\ asks[s] # <<>> => peek(asks[s]) \in Contents(asks[s])
  BY <1>1 DEF peek, Contents
<1>6. ASSUME NEW b \in Contents(bids[s]), NEW a \in Contents(asks[s]), b.price >= a.price
      PROVE  CrossedBook(s)
  BY <1>3, <1>4, <1>6 DEF CrossedBook
<1>7. CrossedBook(s) => \E b \in Contents(bids[s]), a \in Contents(asks[s]) : b.price >= a.price
  BY <1>5 DEF CrossedBook
<1> QED
  BY <1>2, <1>6, <1>7 DEF Book!Crossed

\* A book that a step leaves alone, with no trade to report before and after.
LEMMA BookAlone ==
  ASSUME NEW s \in Symbols, asks'[s] = asks[s], bids'[s] = bids[s],
         (IF ob' = s THEN trade' ELSE NoNode) = (IF ob = s THEN trade ELSE NoNode)
  PROVE  UNCHANGED Book(s)!bookVars
BY DEF Book!bookVars

\* The book that an order is entered in.
LEMMA BookSubmit ==
  ASSUME AmountsFit, SimInv, TimeInv, QuietInv, NEW s \in Symbols, NEW type \in {"ask", "bid"},
         NEW p \in Prices, NEW a \in Amounts, Submit(s, type, p, a)
  PROVE  Book(s)!Next \/ UNCHANGED Book(s)!bookVars
<1> DEFINE o == create_order(now, p, a)
<1>1. o \in Order /\ Fresh(o)
  BY OrderFresh DEF o
<1> HIDE DEF o
<1>2. /\ Insert(s, type, o) \/ HardReject(s)
      /\ pc = "next" /\ ob' = s /\ trade' = trade
      /\ now \in Nat /\ now' \in Nat /\ now' > now
  BY ClockMoves DEF Submit, o, SimInv, InputInv
<1>3. trade = NoNode /\ ~ CrossedBook(s)
  BY <1>2 DEF QuietInv
<1>4. CASE HardReject(s)
  <2>1. asks' = asks /\ bids' = bids
    BY <1>4 DEF HardReject, heapVars
  <2> QED
    BY <1>2, <1>3, <2>1, BookAlone
<1>5. CASE Insert(s, type, o)
  <2>1. \/ /\ asks'[s] = asks[s] /\ Contents(bids'[s]) = Contents(bids[s]) \cup {o}
           /\ o \notin Contents(bids[s])
        \/ /\ bids'[s] = bids[s] /\ Contents(asks'[s]) = Contents(asks[s]) \cup {o}
           /\ o \notin Contents(asks[s])
    BY <1>1, <1>2, <1>5, InsertTime
  <2>2. HeapInv /\ HeapInv'
    BY <1>1, <1>5, InsertHeaps DEF SimInv
  <2> DEFINE B0 == {bids[s][i] : i \in DOMAIN bids[s]}
             A0 == {asks[s][i] : i \in DOMAIN asks[s]}
             B1 == {bids'[s][i] : i \in DOMAIN bids'[s]}
             A1 == {asks'[s][i] : i \in DOMAIN asks'[s]}
  <2>3. B0 = Contents(bids[s]) /\ A0 = Contents(asks[s])
    BY <2>2, BookSees
  <2>4. B1 = Contents(bids'[s]) /\ A1 = Contents(asks'[s])
    <3>1. bids'[s] \in Seq(Order) /\ asks'[s] \in Seq(Order)
      BY <2>2 DEF HeapInv
    <3>2. DOMAIN bids'[s] = 1 .. Len(bids'[s]) /\ DOMAIN asks'[s] = 1 .. Len(asks'[s])
      BY <3>1
    <3> QED BY <3>2 DEF Contents
  <2>5. \/ A1 = A0 /\ B1 = B0 \cup {o} /\ o \notin B0
        \/ B1 = B0 /\ A1 = A0 \cup {o} /\ o \notin A0
    BY <2>1, <2>3, <2>4
  <2>6. ~ Book(s)!Crossed
    BY <1>3, CrossedIs
  <2>7. Book(s)!Submit
    <3> HIDE DEF A0, A1, B0, B1
    <3>1. \/ \E x \in B1 : B1 = B0 \cup {x} /\ x \notin B0 /\ A1 = A0
          \/ \E x \in A1 : A1 = A0 \cup {x} /\ x \notin A0 /\ B1 = B0
      BY <2>5
    <3> QED
      BY <1>2, <1>3, <2>6, <3>1 DEF Book!Submit, A0, A1, B0, B1
  <2> QED
    BY <2>7 DEF Book!Next
<1> QED
  BY <1>2, <1>4, <1>5

\* The book whose best orders trade.
LEMMA BookMatch ==
  ASSUME SimInv, TimeInv, QuietInv, Trade, NEW s \in Symbols, s = ob
  PROVE  Book(s)!Next
<1> DEFINE x == peek(bids[s])
           y == peek(asks[s])
           q == IF x.amount < y.amount THEN x.amount ELSE y.amount
           B0 == {bids[s][i] : i \in DOMAIN bids[s]}
           A0 == {asks[s][i] : i \in DOMAIN asks[s]}
           B1 == {bids'[s][i] : i \in DOMAIN bids'[s]}
           A1 == {asks'[s][i] : i \in DOMAIN asks'[s]}
<1>1. /\ pc = "check" /\ ob' = ob /\ CrossedBook(s) /\ asks[s] # <<>> /\ bids[s] # <<>>
      /\ trade' = [x EXCEPT !.amount = IF x.amount > y.amount THEN y.amount ELSE x.amount]
  BY DEF Trade, OneSided, Crosses, CrossedBook, inputVars
<1>2. trade = NoNode
  BY <1>1 DEF QuietInv
<1>3. /\ x \in Order /\ y \in Order
      /\ Contents(bids'[s]) = (Contents(bids[s]) \ {x})
           \cup (IF x.amount > y.amount THEN {[x EXCEPT !.amount = x.amount - y.amount]} ELSE {})
      /\ Contents(asks'[s]) = (Contents(asks[s]) \ {y})
           \cup (IF y.amount > x.amount THEN {[y EXCEPT !.amount = y.amount - x.amount]} ELSE {})
  BY TradeTime
<1>4. HeapInv /\ HeapInv'
  BY TradeHeaps DEF SimInv
<1>5. B0 = Contents(bids[s]) /\ A0 = Contents(asks[s])
  BY <1>4, BookSees
<1>6. B1 = Contents(bids'[s]) /\ A1 = Contents(asks'[s])
  BY <1>4 DEF HeapInv, Contents
<1>7. x \in Book(s)!BestBids /\ y \in Book(s)!BestAsks /\ x.price >= y.price
  BY <1>1, BestIsRoot DEF CrossedBook
<1>8. x.amount \in Int /\ y.amount \in Int
  BY <1>3 DEF Order
<1> HIDE DEF x, y, A0, A1, B0, B1
<1>9. trade' = [x EXCEPT !.amount = q]
  <2>1. q = IF x.amount > y.amount THEN y.amount ELSE x.amount
    BY <1>8
  <2> QED
    BY <1>1, <2>1
<1>10. B1 = (B0 \ {x}) \cup (IF x.amount > q THEN {[x EXCEPT !.amount = x.amount - q]} ELSE {})
  <2>1. CASE x.amount > y.amount
    <3>1. q = y.amount
      BY <1>8, <2>1
    <3> QED
      BY <1>3, <1>5, <1>6, <2>1, <3>1
  <2>2. CASE ~ (x.amount > y.amount)
    <3>1. q = x.amount /\ ~ (x.amount > q)
      BY <1>8, <2>2
    <3> QED
      BY <1>3, <1>5, <1>6, <2>2, <3>1
  <2> QED
    BY <2>1, <2>2
<1>11. A1 = (A0 \ {y}) \cup (IF y.amount > q THEN {[y EXCEPT !.amount = y.amount - q]} ELSE {})
  <2>1. CASE y.amount > x.amount
    <3>1. q = x.amount
      BY <1>8, <2>1
    <3> QED
      BY <1>3, <1>5, <1>6, <2>1, <3>1
  <2>2. CASE ~ (y.amount > x.amount)
    <3>1. q = y.amount /\ ~ (y.amount > q)
      BY <1>8, <2>2
    <3> QED
      BY <1>3, <1>5, <1>6, <2>2, <3>1
  <2> QED
    BY <2>1, <2>2
<1>12. Book(s)!Match
  <2> HIDE DEF q
  <2>1. /\ (IF ob = s THEN trade ELSE NoNode) = NoNode
        /\ (IF ob' = s THEN trade' ELSE NoNode) = [x EXCEPT !.amount = q]
    BY <1>1, <1>2, <1>9
  <2>2. B1 = (B0 \ {x}) \cup Book(s)!Rest(x, q) /\ A1 = (A0 \ {y}) \cup Book(s)!Rest(y, q)
    BY <1>10, <1>11 DEF Book!Rest
  <2> QED
    BY <1>7, <2>1, <2>2 DEF Book!Match, q, A0, A1, B0, B1
<1> QED
  BY <1>12 DEF Book!Next

\* The book whose trade is reported.
LEMMA BookReport ==
  ASSUME QuietInv, post_trade_cleanup, NEW s \in Symbols, s = ob
  PROVE  Book(s)!Next
<1>1. pc = "cleanup" /\ ob' = ob /\ trade' = NoNode /\ asks' = asks /\ bids' = bids
  BY DEF post_trade_cleanup, inputVars, heapVars
<1>2. trade # NoNode
  BY <1>1, SimAssumption DEF QuietInv
<1>3. Book(s)!Report
  BY <1>1, <1>2 DEF Book!Report
<1> QED
  BY <1>3 DEF Book!Next

\* Every step is a step of each order book, or leaves it alone.
LEMMA BookStep ==
  ASSUME AmountsFit, SimInv, TimeInv, QuietInv, [Next]_vars, NEW s \in Symbols
  PROVE  Book(s)!Next \/ UNCHANGED Book(s)!bookVars
<1>1. CASE main \/ csv_header \/ FileError \/ NoTrade \/ UNCHANGED vars
  <2>1. UNCHANGED <<ob, asks, bids, trade>>
    BY <1>1 DEF main, csv_header, FileError, NoTrade, vars, inputVars, heapVars
  <2> QED
    BY <2>1, BookAlone
<1>2. CASE Trade
  <2>1. CASE s = ob
    BY <1>2, <2>1, BookMatch
  <2>2. CASE s # ob
    <3>1. asks'[s] = asks[s] /\ bids'[s] = bids[s] /\ ob' = ob
      BY <1>2, <2>2, TradeTime DEF Trade, inputVars
    <3> QED
      BY <2>2, <3>1, BookAlone
  <2> QED
    BY <2>1, <2>2
<1>3. CASE post_trade_cleanup
  <2>1. CASE s = ob
    BY <1>3, <2>1, BookReport
  <2>2. CASE s # ob
    <3>1. asks' = asks /\ bids' = bids /\ ob' = ob
      BY <1>3 DEF post_trade_cleanup, inputVars, heapVars
    <3> QED
      BY <2>2, <3>1, BookAlone
  <2> QED
    BY <2>1, <2>2
<1>4. ASSUME NEW t \in Symbols, NEW type \in {"ask", "bid"}, NEW p \in Prices, NEW a \in Amounts,
             Submit(t, type, p, a)
      PROVE  Book(s)!Next \/ UNCHANGED Book(s)!bookVars
  <2>1. CASE s = t
    BY <1>4, <2>1, BookSubmit
  <2>2. CASE s # t
    <3>1. pc = "next" /\ ob' = t /\ trade = NoNode
      BY <1>4 DEF Submit, QuietInv
    <3>2. asks'[s] = asks[s] /\ bids'[s] = bids[s]
      <4>1. asks \in [Symbols -> Seq(Order)] /\ bids \in [Symbols -> Seq(Order)]
        BY DEF SimInv, HeapInv
      <4> QED
        BY <1>4, <2>2, <4>1 DEF Submit, Insert, HardReject, heapVars
    <3> QED
      BY <2>2, <3>1, <3>2, BookAlone
  <2> QED
    BY <2>1, <2>2
<1> QED
  BY <1>1, <1>2, <1>3, <1>4 DEF Next, SkipLine, Stop

\* Each book of the simulator is an order book in price-time priority, matched until
\* it is no longer crossed (check_for_trade_multi, heap.h), whenever the orders come:
\* of the orders of one price and one second the oldest is first, and no amount is
\* lost, if quantities are none that 16 bits turn negative.
THEOREM SimImplementsBook == AmountsFit => (Spec => ImplementsOrderBook)
<1> SUFFICES ASSUME AmountsFit PROVE Spec => ImplementsOrderBook
  OBVIOUS
<1>1. Init => \A s \in Symbols : Book(s)!Init
  BY DEF Init, Book!Init
<1>2. SimInv /\ TimeInv /\ QuietInv /\ [Next]_vars
        => \A s \in Symbols : Book(s)!Next \/ UNCHANGED Book(s)!bookVars
  BY BookStep
<1>3. Spec => [](SimInv /\ TimeInv /\ QuietInv)
  BY TimeSafe
<1> QED
  BY <1>1, <1>2, <1>3, PTL DEF Spec, ImplementsOrderBook

-----------------------------------------------------------------------------
(* Every order is accounted for.  The sum over the books is a recursion on  *)
(* sets; a loop with an accumulator shows that the function exists.         *)

Pick(S) == CHOOSE s \in S : TRUE

\* f is the sum of v over each set of symbols.
Sums(f, v) ==
  f = [S \in SUBSET Symbols |-> IF S = {} THEN 0 ELSE v[Pick(S)] + f[S \ {Pick(S)}]]

SumStates == (SUBSET Symbols) \X Int
SumGo == {x \in SumStates : x[1] # {}}
SumStep(v) ==
  [x \in SumStates |-> IF x[1] # {} THEN <<x[1] \ {Pick(x[1])}, x[2] + v[Pick(x[1])]>> ELSE x]
SumMeasure == [x \in SumStates |-> Cardinality(x[1])]

\* A set without one of its members is smaller.
LEMMA Smaller ==
  \A S \in SUBSET Symbols :
    /\ Cardinality(S) \in Nat
    /\ S # {} => /\ Pick(S) \in S /\ Pick(S) \in Symbols /\ S \ {Pick(S)} \in SUBSET Symbols
                 /\ Cardinality(S \ {Pick(S)}) \in Nat
                 /\ Cardinality(S \ {Pick(S)}) < Cardinality(S)
<1> TAKE S \in SUBSET Symbols
<1>1. IsFiniteSet(S)
  BY SimAssumption, FS_Subset
<1>2. Cardinality(S) \in Nat
  BY <1>1, FS_CardinalityType
<1>3. ASSUME S # {}
      PROVE  /\ Pick(S) \in S /\ Pick(S) \in Symbols /\ S \ {Pick(S)} \in SUBSET Symbols
             /\ Cardinality(S \ {Pick(S)}) \in Nat
             /\ Cardinality(S \ {Pick(S)}) < Cardinality(S)
  <2>1. Pick(S) \in S
    BY <1>3 DEF Pick
  <2>2. IsFiniteSet(S \ {Pick(S)}) /\ Cardinality(S \ {Pick(S)}) = Cardinality(S) - 1
    BY <1>1, <2>1, FS_RemoveElement
  <2>3. Cardinality(S \ {Pick(S)}) \in Nat
    BY <2>2, FS_CardinalityType
  <2> QED
    BY <1>2, <2>1, <2>2, <2>3
<1> QED
  BY <1>2, <1>3

\* The loop that sums takes a symbol from the set in each round.
LEMMA SumBounded ==
  ASSUME NEW v \in [Symbols -> Int]
  PROVE  Bounded(SumStates, SumGo, SumStep(v), SumMeasure)
<1>1. ASSUME NEW x \in SumStates
      PROVE  /\ SumStep(v)[x] \in SumStates /\ Cardinality(x[1]) \in Nat
             /\ x[1] # {} => Cardinality(SumStep(v)[x][1]) < Cardinality(x[1])
  <2>1. x[1] \in SUBSET Symbols /\ x[2] \in Int
    BY DEF SumStates
  <2>2. Cardinality(x[1]) \in Nat
    BY <2>1, Smaller
  <2>3. CASE x[1] = {}
    BY <2>2, <2>3 DEF SumStep
  <2>4. CASE x[1] # {}
    <3> DEFINE R == x[1] \ {Pick(x[1])}
               n == x[2] + v[Pick(x[1])]
    <3>1. R \in SUBSET Symbols /\ Pick(x[1]) \in Symbols /\ Cardinality(R) < Cardinality(x[1])
      BY <2>1, <2>4, Smaller
    <3>2. n \in Int
      BY <2>1, <3>1
    <3>3. SumStep(v)[x] = <<R, n>>
      BY <2>4 DEF SumStep
    <3> HIDE DEF R, n
    <3> QED
      BY <2>2, <3>1, <3>2, <3>3 DEF SumStates
  <2> QED
    BY <2>3, <2>4
<1>2. SumStep(v) \in [SumStates -> SumStates]
  <2>1. SumStep(v) = [x \in SumStates |-> SumStep(v)[x]]
    BY DEF SumStep
  <2> QED
    BY <1>1, <2>1
<1>3. SumMeasure \in [SumStates -> Nat] /\ \A x \in SumStates : SumMeasure[x] = Cardinality(x[1])
  BY <1>1 DEF SumMeasure
<1>4. \A x \in SumStates : x \in SumGo => SumMeasure[SumStep(v)[x]] < SumMeasure[x]
  BY <1>1, <1>3 DEF SumGo
<1> QED
  BY <1>2, <1>3, <1>4 DEF Bounded

\* There is a function that sums.
LEMMA SumExists ==
  ASSUME NEW v \in [Symbols -> Int]
  PROVE  \E f : Sums(f, v)
<1> DEFINE out == [x \in SumStates |-> x[2]]
           step == SumStep(v)
<1>1. Bounded(SumStates, SumGo, step, SumMeasure)
  BY SumBounded
<1>2. PICK W : W = [x \in SumStates |-> IF x \in SumGo THEN W[step[x]] ELSE out[x]]
  <2> HIDE DEF out, step
  <2> QED
    BY <1>1, LoopExists
<1>3. \A S \in SUBSET Symbols : \A a \in Int :
        W[<<S, a>>] = IF S = {} THEN a
                      ELSE W[<<S \ {Pick(S)}, a + v[Pick(S)]>>]
  <2> TAKE S \in SUBSET Symbols
  <2> TAKE a \in Int
  <2>1. <<S, a>> \in SumStates
    BY DEF SumStates
  <2>2. out[<<S, a>>] = a
    BY <2>1
  <2>3. step[<<S, a>>] = IF S # {} THEN <<S \ {Pick(S)}, a + v[Pick(S)]>> ELSE <<S, a>>
    BY <2>1 DEF SumStep
  <2>4. <<S, a>> \in SumGo <=> S # {}
    BY <2>1 DEF SumGo
  <2>5. W[<<S, a>>] = IF <<S, a>> \in SumGo THEN W[step[<<S, a>>]] ELSE out[<<S, a>>]
    <3> HIDE DEF step, out
    <3> QED
      BY <1>2, <2>1
  <2> HIDE DEF step, out
  <2> QED
    BY <2>2, <2>3, <2>4, <2>5
\* What the loop adds does not depend on where it starts.
<1> DEFINE T == {S \in SUBSET Symbols :
                   ~ \A a \in Int : W[<<S, a>>] \in Int /\ W[<<S, a>>] = a + W[<<S, 0>>]}
           m == [S \in SUBSET Symbols |-> Cardinality(S)]
<1>4. T = {}
  <2> SUFFICES ASSUME T # {} PROVE FALSE
    OBVIOUS
  <2>1. m \in [SUBSET Symbols -> Nat]
    BY Smaller
  <2>2. T \subseteq SUBSET Symbols
    OBVIOUS
  <2>3. PICK S \in T : \A U \in T : m[S] <= m[U]
    <3> HIDE DEF T, m
    <3> QED
      BY ONLY <2>1, <2>2, T # {}, LeastMeasure
  <2>4. S \in SUBSET Symbols
    BY <2>3
  <2>5. CASE S = {}
    <3>1. \A a \in Int : W[<<S, a>>] = a
      BY <1>3, <2>4, <2>5
    <3>2. \A a \in Int : W[<<S, a>>] \in Int /\ W[<<S, a>>] = a + W[<<S, 0>>]
      BY <3>1
    <3> QED
      BY <2>3, <3>2
  <2>6. CASE S # {}
    <3> DEFINE R == S \ {Pick(S)}
               e == v[Pick(S)]
    <3>1. R \in SUBSET Symbols /\ Cardinality(R) < Cardinality(S) /\ Pick(S) \in Symbols
      BY <2>4, <2>6, Smaller
    <3>2. e \in Int
      BY <3>1
    <3>3. R \notin T
      <4>1. m[R] < m[S] /\ m[R] \in Nat /\ m[S] \in Nat
        BY <2>1, <2>4, <3>1
      <4> HIDE DEF m, T, R
      <4> QED
        BY <2>3, <4>1
    <3>4. \A a \in Int : W[<<R, a>>] \in Int /\ W[<<R, a>>] = a + W[<<R, 0>>]
      BY <3>1, <3>3
    <3>5. \A a \in Int : W[<<S, a>>] = W[<<R, a + e>>]
      BY <1>3, <2>4, <2>6
    <3> HIDE DEF R, e
    <3>6. \A a \in Int : W[<<S, a>>] \in Int /\ W[<<S, a>>] = a + W[<<S, 0>>]
      <4> TAKE a \in Int
      <4>1. W[<<R, 0>>] \in Int /\ a + e \in Int /\ 0 + e \in Int
        BY <3>2, <3>4
      <4>2. W[<<S, a>>] = (a + e) + W[<<R, 0>>] /\ W[<<S, 0>>] = (0 + e) + W[<<R, 0>>]
        <5>1. W[<<S, a>>] = W[<<R, a + e>>] /\ W[<<S, 0>>] = W[<<R, 0 + e>>]
          BY <3>5
        <5>2. W[<<R, a + e>>] = (a + e) + W[<<R, 0>>]
          BY <3>4, <4>1
        <5>3. W[<<R, 0 + e>>] = (0 + e) + W[<<R, 0>>]
          BY <3>4, <4>1
        <5> QED
          BY ONLY <5>1, <5>2, <5>3
      <4> QED
        BY <3>2, <4>1, <4>2
    <3> QED
      BY <2>3, <3>6
  <2> QED
    BY <2>5, <2>6
<1> DEFINE f == [S \in SUBSET Symbols |-> W[<<S, 0>>]]
<1>5. \A S \in SUBSET Symbols : \A a \in Int : W[<<S, a>>] = a + W[<<S, 0>>]
  BY <1>4
<1> HIDE DEF T, m
<1>6. ASSUME NEW S \in SUBSET Symbols
      PROVE  f[S] = IF S = {} THEN 0 ELSE v[Pick(S)] + f[S \ {Pick(S)}]
  <2>1. CASE S = {}
    <3>1. W[<<S, 0>>] = 0
      <4>1. \A a \in Int : W[<<S, a>>] = a
        BY <1>3, <2>1
      <4> QED
        BY <4>1
    <3> QED
      BY <2>1, <3>1
  <2>2. CASE S # {}
    <3> DEFINE R == S \ {Pick(S)}
               e == v[Pick(S)]
    <3>1. R \in SUBSET Symbols /\ e \in Int
      BY <2>2, Smaller
    <3>2. W[<<S, 0>>] = W[<<R, 0 + e>>]
      BY <1>3, <2>2
    <3> HIDE DEF R, e
    <3>3. W[<<R, e>>] = e + W[<<R, 0>>] /\ 0 + e = e
      BY <1>5, <3>1
    <3>4. f[S] = e + f[R]
      BY <3>1, <3>2, <3>3
    <3> QED
      BY <2>2, <3>4 DEF R, e
  <2> QED
    BY <2>1, <2>2
<1>7. Sums(f, v)
  <2>1. f = [S \in SUBSET Symbols |-> f[S]]
    OBVIOUS
  <2> HIDE DEF f
  <2> QED
    BY <1>6, <2>1 DEF Sums
<1> QED
  BY <1>7

\* v2 is v1 but for the value of s, which d is added to.
Shifted(v1, v2, s, d) == \A t \in Symbols : v2[t] = v1[t] + IF t = s THEN d ELSE 0

\* Sums of values that differ in one symbol, if at all, differ as much.
LEMMA SumChanges ==
  ASSUME NEW v1 \in [Symbols -> Int], NEW v2 \in [Symbols -> Int], NEW f1, NEW f2,
         Sums(f1, v1), Sums(f2, v2), NEW s, NEW d \in Int, Shifted(v1, v2, s, d)
  PROVE  f1[Symbols] \in Int /\ f2[Symbols] = f1[Symbols] + IF s \in Symbols THEN d ELSE 0
<1> DEFINE Good(S) == f1[S] \in Int /\ f2[S] = f1[S] + IF s \in S THEN d ELSE 0
           T == {S \in SUBSET Symbols : ~ Good(S)}
           m == [S \in SUBSET Symbols |-> Cardinality(S)]
<1>1. \A S \in SUBSET Symbols :
        /\ f1[S] = IF S = {} THEN 0 ELSE v1[Pick(S)] + f1[S \ {Pick(S)}]
        /\ f2[S] = IF S = {} THEN 0 ELSE v2[Pick(S)] + f2[S \ {Pick(S)}]
  BY DEF Sums
<1>2. T = {}
  <2> SUFFICES ASSUME T # {} PROVE FALSE
    OBVIOUS
  <2>1. m \in [SUBSET Symbols -> Nat]
    BY Smaller
  <2>2. T \subseteq SUBSET Symbols
    OBVIOUS
  <2>3. PICK S \in T : \A U \in T : m[S] <= m[U]
    <3> HIDE DEF T, m
    <3> QED
      BY ONLY <2>1, <2>2, T # {}, LeastMeasure
  <2>4. S \in SUBSET Symbols /\ ~ Good(S)
    BY <2>3
  <2>5. CASE S = {}
    <3>1. f1[S] = 0 /\ f2[S] = 0 /\ s \notin S
      BY <1>1, <2>4, <2>5
    <3> QED
      BY <2>4, <3>1
  <2>6. CASE S # {}
    <3> DEFINE c == Pick(S)
               R == S \ {c}
    <3>1. R \in SUBSET Symbols /\ Cardinality(R) < Cardinality(S) /\ c \in Symbols /\ c \in S
      BY <2>4, <2>6, Smaller
    <3>2. Good(R)
      <4>1. m[R] < m[S] /\ m[R] \in Nat /\ m[S] \in Nat
        BY <2>1, <2>4, <3>1
      <4>2. R \notin T
        <5> HIDE DEF m, T, R
        <5> QED
          BY <2>3, <4>1
      <4> QED
        BY <3>1, <4>2
    <3>3. f1[S] = v1[c] + f1[R] /\ f2[S] = v2[c] + f2[R]
      BY <1>1, <2>4, <2>6
    <3>4. v1[c] \in Int /\ v2[c] = v1[c] + IF c = s THEN d ELSE 0
      BY <3>1 DEF Shifted
    <3>5. s \in S <=> (s \in R \/ s = c)
      BY <3>1
    <3>6. ~ (s \in R /\ s = c)
      OBVIOUS
    <3> HIDE DEF c, R
    <3>7. Good(S)
      <4> DEFINE x == f1[R]
                 y == v1[c]
      <4>1. x \in Int /\ y \in Int
        BY <3>2, <3>4
      <4>2. f1[S] = y + x /\ f1[S] \in Int
        BY <3>3, <4>1
      <4>3. CASE s \in R
        <5>1. f2[S] = y + (x + d) /\ s \in S
          BY <3>2, <3>3, <3>4, <3>5, <3>6, <4>1, <4>3
        <5> HIDE DEF x, y
        <5> QED
          BY <4>1, <4>2, <5>1
      <4>4. CASE s = c
        <5>1. f2[S] = (y + d) + x /\ s \in S
          BY <3>2, <3>3, <3>4, <3>5, <3>6, <4>1, <4>4
        <5> HIDE DEF x, y
        <5> QED
          BY <4>1, <4>2, <5>1
      <4>5. CASE s \notin R /\ s # c
        <5>1. f2[S] = y + x /\ s \notin S
          BY <3>2, <3>3, <3>4, <3>5, <4>1, <4>5
        <5> HIDE DEF x, y
        <5> QED
          BY <4>1, <4>2, <5>1
      <4> QED
        BY <4>3, <4>4, <4>5
    <3> QED
      BY <2>4, <3>7
  <2> QED
    BY <2>5, <2>6
<1>3. Symbols \in SUBSET Symbols
  OBVIOUS
<1> QED
  BY <1>2, <1>3

\* What becomes of the orders of a book: they rest, or were filled.
Each == [s \in Symbols |-> Nodes(s) + trades[s] + exact[s]]

Reported == IF pc = "cleanup" THEN 1 ELSE 0

\* OrdersAccounted, for any function that sums the books.
AccountInv == \E f : Sums(f, Each) /\ orders = f[Symbols] + Reported + hard_rejects

\* The orders of a book are counted in numbers.
LEMMA EachType ==
  ASSUME SimInv PROVE Each \in [Symbols -> Int]
<1>1. \A s \in Symbols : Nodes(s) \in Nat /\ trades[s] \in Nat /\ exact[s] \in Nat
  BY DEF SimInv, HeapInv, StatInv, Nodes
<1> QED
  BY <1>1 DEF Each

\* The sum of OrdersAccounted is the one of AccountInv.
LEMMA AccountMeans ==
  ASSUME SimInv, AccountInv PROVE OrdersAccounted
<1> DEFINE Eq(f) == f = [S \in SUBSET Symbols |->
                           IF S = {} THEN 0
                           ELSE Nodes(CHOOSE s \in S : TRUE) + trades[CHOOSE s \in S : TRUE]
                                  + exact[CHOOSE s \in S : TRUE] + f[S \ {CHOOSE s \in S : TRUE}]]
           W == CHOOSE f : Eq(f)
<1>1. Each \in [Symbols -> Int]
  BY EachType
<1>2. PICK f : Sums(f, Each) /\ orders = f[Symbols] + Reported + hard_rejects
  BY DEF AccountInv
<1>3. \A S \in SUBSET Symbols : S # {} =>
        Each[Pick(S)] = Nodes(Pick(S)) + trades[Pick(S)] + exact[Pick(S)]
  BY Smaller DEF Each
<1>4. ASSUME NEW g PROVE Eq(g) <=> Sums(g, Each)
  <2>1. \A S \in SUBSET Symbols :
          (IF S = {} THEN 0 ELSE Each[Pick(S)] + g[S \ {Pick(S)}])
            = IF S = {} THEN 0
              ELSE Nodes(Pick(S)) + trades[Pick(S)] + exact[Pick(S)] + g[S \ {Pick(S)}]
    BY <1>3
  <2>2. [S \in SUBSET Symbols |-> IF S = {} THEN 0 ELSE Each[Pick(S)] + g[S \ {Pick(S)}]]
          = [S \in SUBSET Symbols |->
               IF S = {} THEN 0
               ELSE Nodes(Pick(S)) + trades[Pick(S)] + exact[Pick(S)] + g[S \ {Pick(S)}]]
    BY <2>1
  <2> QED
    BY <2>2 DEF Sums, Pick
<1>5. Eq(W)
  <2>1. Eq(f)
    BY <1>2, <1>4
  <2> HIDE DEF Eq
  <2> QED
    BY <2>1
<1>6. W[Symbols] = f[Symbols]
  <2>1. Sums(W, Each)
    BY <1>4, <1>5
  <2> HIDE DEF W, Eq
  <2>2. Shifted(Each, Each, NoSymbol, 0)
    BY <1>1 DEF Shifted
  <2>3. NoSymbol \notin Symbols /\ 0 \in Int
    BY SimAssumption
  <2>4. f[Symbols] \in Int
        /\ W[Symbols] = f[Symbols] + IF NoSymbol \in Symbols THEN 0 ELSE 0
    BY ONLY <1>1, <1>2, <2>1, <2>2, <2>3, SumChanges
  <2> QED
    BY <2>4
<1>7. OrdersAccounted <=> orders = W[Symbols] + Reported + hard_rejects
  BY DEF OrdersAccounted, Reported
<1> QED
  BY <1>2, <1>6, <1>7

\* A step that changes what became of the orders of one book by d.
LEMMA AccountChanges ==
  ASSUME SimInv, SimInv', AccountInv, NEW s, NEW d \in Int,
         \A t \in Symbols : (Nodes(t) + trades[t] + exact[t])'
                              = Nodes(t) + trades[t] + exact[t] + IF t = s THEN d ELSE 0,
         s \in Symbols \/ d = 0,
         orders' - Reported' - hard_rejects' = orders - Reported - hard_rejects + d
  PROVE  AccountInv'
<1>1. Each \in [Symbols -> Int] /\ Each' \in [Symbols -> Int]
  <2>1. Each \in [Symbols -> Int]
    BY EachType
  <2>2. Each' \in [Symbols -> Int]
    <3>1. \A t \in Symbols : Nodes(t)' \in Nat /\ trades'[t] \in Nat /\ exact'[t] \in Nat
      BY DEF SimInv, HeapInv, StatInv, Nodes
    <3> QED
      BY <3>1 DEF Each
  <2> QED
    BY <2>1, <2>2
<1>2. PICK f : Sums(f, Each) /\ orders = f[Symbols] + Reported + hard_rejects
  BY DEF AccountInv
<1>3. PICK g : Sums(g, Each')
  BY <1>1, SumExists
<1>4. \A t \in Symbols : Each'[t] = Each[t] + IF t = s THEN d ELSE 0
  BY DEF Each
<1>5. f[Symbols] \in Int /\ g[Symbols] = f[Symbols] + d
  <2>1. f[Symbols] \in Int /\ g[Symbols] = f[Symbols] + IF s \in Symbols THEN d ELSE 0
    <3> DEFINE v1 == Each
               v2 == Each'
    <3>1. /\ v1 \in [Symbols -> Int] /\ v2 \in [Symbols -> Int] /\ Sums(f, v1) /\ Sums(g, v2)
          /\ Shifted(v1, v2, s, d)
      BY <1>1, <1>2, <1>3, <1>4 DEF Shifted
    <3> HIDE DEF v1, v2
    <3> QED
      BY ONLY <3>1, d \in Int, SumChanges
  <2> QED
    BY <2>1
<1>6. /\ orders \in Int /\ hard_rejects \in Int /\ Reported \in Int
      /\ orders' \in Int /\ hard_rejects' \in Int /\ Reported' \in Int
  BY SimAssumption DEF SimInv, InputInv, StatInv, Reported
<1>7. orders' = g[Symbols] + Reported' + hard_rejects'
  <2> DEFINE x == f[Symbols]
             y == g[Symbols]
  <2>1. x \in Int /\ y = x + d /\ orders = x + Reported + hard_rejects
    BY <1>2, <1>5
  <2> HIDE DEF x, y
  <2>2. orders' = y + Reported' + hard_rejects'
    <3> DEFINE n == orders
               r == Reported
               h == hard_rejects
               n1 == orders'
               r1 == Reported'
               h1 == hard_rejects'
    <3>1. /\ n \in Int /\ r \in Int /\ h \in Int /\ n1 \in Int /\ r1 \in Int /\ h1 \in Int
          /\ n1 - r1 - h1 = n - r - h + d /\ n = x + r + h
      BY <1>6, <2>1
    <3> HIDE DEF n, r, h, n1, r1, h1
    <3>2. n1 = y + r1 + h1
      BY ONLY <2>1, <3>1, d \in Int
    <3> QED
      BY <3>2 DEF n1, r1, h1
  <2> QED
    BY <2>2 DEF y
<1> QED
  BY <1>3, <1>7 DEF AccountInv

\* No orders at the start.
LEMMA AccountInit == Init => AccountInv
<1> SUFFICES ASSUME Init PROVE AccountInv
  OBVIOUS
<1> DEFINE z == [S \in SUBSET Symbols |-> 0]
<1>1. \A s \in Symbols : Each[s] = 0
  BY DEF Init, Each, Nodes
<1>2. \A S \in SUBSET Symbols : S # {} => Each[Pick(S)] = 0 /\ z[S \ {Pick(S)}] = 0
  BY <1>1, Smaller
<1>3. Sums(z, Each)
  <2>1. \A S \in SUBSET Symbols : 0 = IF S = {} THEN 0 ELSE Each[Pick(S)] + z[S \ {Pick(S)}]
    <3> TAKE S \in SUBSET Symbols
    <3> HIDE DEF z
    <3>1. S # {} => Each[Pick(S)] = 0 /\ z[S \ {Pick(S)}] = 0
      BY <1>2
    <3> DEFINE x == Each[Pick(S)]
               y == z[S \ {Pick(S)}]
    <3>2. S # {} => x = 0 /\ y = 0
      BY <3>1
    <3> HIDE DEF x, y
    <3>3. 0 = IF S = {} THEN 0 ELSE x + y
      BY <3>2
    <3> QED
      BY <3>3 DEF x, y
  <2>2. z = [S \in SUBSET Symbols |-> IF S = {} THEN 0 ELSE Each[Pick(S)] + z[S \ {Pick(S)}]]
    BY <2>1
  <2> QED
    BY <2>2 DEF Sums
<1>4. z[Symbols] = 0
  OBVIOUS
<1>5. orders = z[Symbols] + Reported + hard_rejects
  BY <1>4 DEF Init, Reported
<1> HIDE DEF z
<1> QED
  BY <1>3, <1>5 DEF AccountInv

\* Every step accounts for the orders it adds, fills or rejects.
LEMMA AccountStep ==
  ASSUME SimInv, SimInv', AccountInv, [Next]_vars PROVE AccountInv'
<1>1. \A t \in Symbols : Nodes(t) \in Nat /\ trades[t] \in Nat /\ exact[t] \in Nat
  BY DEF SimInv, HeapInv, StatInv, Nodes
<1>2. orders \in Nat /\ hard_rejects \in Nat /\ Reported \in Nat
  BY SimAssumption DEF SimInv, InputInv, StatInv, Reported
<1>3. CASE main \/ csv_header \/ FileError \/ NoTrade \/ UNCHANGED vars
  <2>1. UNCHANGED <<orders, hard_rejects, heapVars, trades, exact>>
    BY <1>3 DEF main, csv_header, FileError, NoTrade, vars, inputVars, statVars
  <2>2. Reported' = Reported
    BY <1>3 DEF main, csv_header, FileError, NoTrade, vars, Reported
  <2>3. \A t \in Symbols : (Nodes(t) + trades[t] + exact[t])'
                             = Nodes(t) + trades[t] + exact[t] + IF t = NoSymbol THEN 0 ELSE 0
    <3> TAKE t \in Symbols
    <3>1. Nodes(t)' = Nodes(t) /\ trades'[t] = trades[t] /\ exact'[t] = exact[t]
      BY <2>1 DEF Nodes, heapVars
    <3> QED
      BY <1>1, <3>1
  <2>4. orders' - Reported' - hard_rejects' = orders - Reported - hard_rejects + 0
    BY <1>2, <2>1, <2>2
  <2> QED
    <3>1. 0 \in Int /\ (NoSymbol \in Symbols \/ 0 = 0)
      OBVIOUS
    <3> QED
      BY ONLY SimInv, SimInv', AccountInv, <2>3, <2>4, <3>1, AccountChanges
<1>4. CASE Trade
  <2>1. /\ ob \in Symbols /\ UNCHANGED <<orders, hard_rejects, trades>>
        /\ Reported = 0 /\ Reported' = 1
    BY <1>4 DEF Trade, SimInv, InputInv, inputVars, Reported
  <2>2. /\ \A t \in Symbols : t = ob => Nodes(t)' + exact'[t] = Nodes(t) + exact[t] - 1
        /\ \A t \in Symbols : t # ob => Nodes(t)' = Nodes(t) /\ exact'[t] = exact[t]
    BY <1>4, TradeHeaps DEF SimInv
  <2>3. \A t \in Symbols : Nodes(t)' \in Nat /\ exact'[t] \in Nat
    BY DEF SimInv, HeapInv, StatInv, Nodes
  <2>4. \A t \in Symbols : (Nodes(t) + trades[t] + exact[t])'
                             = Nodes(t) + trades[t] + exact[t] + IF t = ob THEN -1 ELSE 0
    <3> TAKE t \in Symbols
    <3>1. trades'[t] = trades[t]
      BY <2>1
    <3>2. CASE t = ob
      BY <1>1, <2>2, <2>3, <3>1, <3>2
    <3>3. CASE t # ob
      BY <1>1, <2>2, <2>3, <3>1, <3>3
    <3> QED
      BY <3>2, <3>3
  <2>5. orders' - Reported' - hard_rejects' = orders - Reported - hard_rejects + (-1)
    BY <1>2, <2>1
  <2> QED
    BY <2>1, <2>4, <2>5, AccountChanges
<1>5. CASE post_trade_cleanup
  <2>1. /\ ob \in Symbols /\ UNCHANGED <<orders, hard_rejects, heapVars, exact>>
        /\ Reported = 1 /\ Reported' = 0
        /\ trades' = [trades EXCEPT ![ob] = @ + 1]
    BY <1>5 DEF post_trade_cleanup, SimInv, InputInv, inputVars, Reported
  <2>2. \A t \in Symbols : trades'[t] = trades[t] + IF t = ob THEN 1 ELSE 0
    BY <1>1, <2>1 DEF SimInv, StatInv
  <2>3. \A t \in Symbols : (Nodes(t) + trades[t] + exact[t])'
                             = Nodes(t) + trades[t] + exact[t] + IF t = ob THEN 1 ELSE 0
    <3> TAKE t \in Symbols
    <3>1. Nodes(t)' = Nodes(t) /\ exact'[t] = exact[t]
      BY <2>1 DEF Nodes, heapVars
    <3> QED
      BY <1>1, <2>2, <3>1
  <2>4. orders' - Reported' - hard_rejects' = orders - Reported - hard_rejects + 1
    BY <1>2, <2>1
  <2> QED
    BY <2>1, <2>3, <2>4, AccountChanges
<1>6. ASSUME NEW s \in Symbols, NEW type \in {"ask", "bid"}, NEW p \in Prices, NEW a \in Amounts,
             Submit(s, type, p, a)
      PROVE  AccountInv'
  <2> DEFINE o == create_order(now, p, a)
  <2>1. o \in Order
    BY SimAssumption, OrderMade DEF SimInv, InputInv
  <2> HIDE DEF o
  <2>2. /\ Insert(s, type, o) \/ HardReject(s)
        /\ pc = "next" /\ pc' \in {"check", "next"} /\ orders' = orders + 1
        /\ UNCHANGED <<trades, exact>>
    BY <1>6 DEF Submit, Insert, HardReject, o
  <2>3. Reported = 0 /\ Reported' = 0
    BY <2>2 DEF Reported
  <2>4. CASE Insert(s, type, o)
    <3>1. hard_rejects' = hard_rejects
      BY <2>4 DEF Insert
    <3>2. \A t \in Symbols : Nodes(t)' = Nodes(t) + IF t = s THEN 1 ELSE 0
      BY <1>1, <2>1, <2>4, InsertHeaps DEF SimInv
    <3>3. \A t \in Symbols : (Nodes(t) + trades[t] + exact[t])'
                               = Nodes(t) + trades[t] + exact[t] + IF t = s THEN 1 ELSE 0
      BY <1>1, <2>2, <3>2
    <3>4. orders' - Reported' - hard_rejects' = orders - Reported - hard_rejects + 1
      BY <1>2, <2>2, <2>3, <3>1
    <3> QED
      <4>1. 1 \in Int
        OBVIOUS
      <4> QED
        BY ONLY <3>3, <3>4, <4>1, SimInv, SimInv', AccountInv, s \in Symbols, AccountChanges
  <2>5. CASE HardReject(s)
    <3>1. hard_rejects' = hard_rejects + 1 /\ UNCHANGED heapVars
      BY <2>5 DEF HardReject
    <3>2. \A t \in Symbols : (Nodes(t) + trades[t] + exact[t])'
                               = Nodes(t) + trades[t] + exact[t] + IF t = s THEN 0 ELSE 0
      <4> TAKE t \in Symbols
      <4>1. Nodes(t)' = Nodes(t) /\ trades'[t] = trades[t] /\ exact'[t] = exact[t]
        BY <2>2, <3>1 DEF Nodes, heapVars
      <4> QED
        BY <1>1, <4>1
    <3>3. orders' - Reported' - hard_rejects' = orders - Reported - hard_rejects + 0
      BY <1>2, <2>2, <2>3, <3>1
    <3> QED
      BY <3>2, <3>3, AccountChanges
  <2> QED
    BY <2>2, <2>4, <2>5
<1> QED
  BY <1>3, <1>4, <1>5, <1>6 DEF Next, SkipLine, Stop

\* Every order that was submitted rests in a book, was filled by a trade, or was
\* rejected for want of memory (SimStats' counters), at any time.
THEOREM NoOrderLost == Spec => []OrdersAccounted
<1>1. SimInv /\ AccountInv => OrdersAccounted
  BY AccountMeans
<1>2. SimInv /\ SimInv' /\ AccountInv /\ [Next]_vars => AccountInv'
  BY AccountStep
<1> QED
  BY <1>1, <1>2, SimSafe, AccountInit, PTL DEF Spec
=============================================================================
