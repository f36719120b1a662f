----------------------------- MODULE Centering -----------------------------
(***************************************************************************)
(* The data-eye centring of the calibration firmware (sequencer.pre.c):    *)
(* rw_mgr_mem_calibrate_vfifo_center for reads and                         *)
(* rw_mgr_mem_calibrate_writes_center for writes and for the data mask.    *)
(*                                                                         *)
(* Both sweep the delay of the data pins (left) and then of the strobe     *)
(* (right), note for every bit the last setting that passed on each side,  *)
(* and move the pins to the middle.  The hardware enters as two functions  *)
(* of the sweep position: lpass[d] and rpass[d], the bits that pass with   *)
(* the data, or the strobe, delayed by d more than at the start.           *)
(***************************************************************************)
EXTENDS Integers, FiniteSets, FiniteSetsExt

\* Signed division by two in C: towards zero.
Half(n) == IF n >= 0 THEN n \div 2 ELSE - ((- n) \div 2)

Clamp(n, lo, hi) == IF n < lo THEN lo ELSE IF n > hi THEN hi ELSE n

\* An edge that was not found: IO_IO_IN_DELAY_MAX + 1, or IO_IO_OUT1_DELAY_MAX + 1,
\* both 32 on this device and out of reach of every sweep.
NoEdge == 32

\* Last position a sweep over pass looks at: it stops early once nothing passes
\* and every bit has passed before (sticky: bits that count as passed already).
LastSwept(pass, bits, sticky) ==
    LET stops == {d \in DOMAIN pass :
                    /\ pass[d] = {}
                    /\ sticky \cup UNION {pass[e] : e \in 0..d} = bits}
    IN  IF stops = {} THEN Max(DOMAIN pass) ELSE Min(stops) - 1

PassesOf(b, pass, last) == {d \in 0..last : b \in pass[d]}

\* The left sweep: the largest data delay that passes and, for a bit that fails
\* at zero, minus the smallest one.  A bit that never passes has neither edge.
LeftSweep(lpass, bits) ==
    LET last == LastSwept(lpass, bits, {})
    IN  [b \in bits |->
            LET p == PassesOf(b, lpass, last)
            IN  [left  |-> IF p = {} THEN NoEdge ELSE Max(p),
                 right |-> IF p = {} \/ 0 \in p THEN NoEdge ELSE - Min(p)]]

\* Bits that may stop the right sweep: a read needs both edges, a write the left.
ReadSticky(e) == {b \in DOMAIN e : e[b].left # NoEdge /\ e[b].right # NoEdge}

WriteSticky(e) == {b \in DOMAIN e : e[b].left # NoEdge}

\* The right sweep: the largest strobe delay that passes; a bit the left sweep
\* never saw pass gets its left edge here, as minus the smallest one.
RightSweep(rpass, bits, e, sticky) ==
    LET last == LastSwept(rpass, bits, sticky)
    IN  [b \in bits |->
            LET p == PassesOf(b, rpass, last)
                first == Min(p \cup {last + 1})
            IN  [left  |-> IF e[b].left # NoEdge \/ first = 0 THEN e[b].left ELSE - first,
                 right |-> CASE p # {} -> Max(p)
                             [] p = {} /\ e[b].right # NoEdge -> e[b].right
                             [] p = {} /\ e[b].right = NoEdge /\ e[b].left # NoEdge -> -1
                             [] OTHER -> NoEdge]]

ReadEdges(lpass, rpass, bits) ==
    LET e == LeftSweep(lpass, bits) IN RightSweep(rpass, bits, e, ReadSticky(e))

WriteEdges(lpass, rpass, bits) ==
    LET e == LeftSweep(lpass, bits) IN RightSweep(rpass, bits, e, WriteSticky(e))

\* Bits the functions return 0 for, with a failing stage.
EdgeMissing(e) == {b \in DOMAIN e : e[b].left = NoEdge \/ e[b].right = NoEdge}

\* The smallest left - right: the bit that needs the strobe moved furthest.
MinDiff(e) == Min({e[b].left - e[b].right : b \in DOMAIN e})

MidMin(e) == Half(IF MinDiff(e) > 0 THEN MinDiff(e) + 1 ELSE MinDiff(e))

\* Mutant: all bits move with the worst one.
ShiftDq_Common(e, b, mid, dq, max) == Clamp(MidMin(e) - mid, - dq[b], max - dq[b])

\* Data shift of a bit once the strobe has moved by mid of the MidMin it needs,
\* limited to what the delay chain can still give.
ShiftDq(e, b, mid, dq, max) ==
    Clamp(Half(e[b].left - e[b].right - MinDiff(e)) + MidMin(e) - mid,
          - dq[b], max - dq[b])

\* Final settings and the two margins the caller judges the group by.
Settle(e, start, mid, dq, max) ==
    LET shift == [b \in DOMAIN e |-> ShiftDq(e, b, mid, dq, max)]
    IN  [dqs |-> start - mid,
         dq  |-> [b \in DOMAIN e |-> dq[b] + shift[b]],
         dqMargin  |-> Min({e[b].left - shift[b] - mid : b \in DOMAIN e} \cup {max + 1}),
         dqsMargin |-> Min({e[b].right + shift[b] + mid : b \in DOMAIN e} \cup {max + 1})]

\* Reads: the strobe moves by MidMin, within its range (ENABLE_DQS_IN_CENTERING).
ReadSettle(e, start, dqsMax, dq, max) ==
    Settle(e, start, start - Clamp(start - MidMin(e), 0, dqsMax), dq, max)

\* Writes: the strobe stays where levelling left it (ENABLE_DQS_OUT_CENTERING
\* is 0), and the data moves alone.
WriteSettle(e, start, dq, max) == Settle(e, start, 0, dq, max)

MarginsOk(r) == r.dqMargin >= 0 /\ r.dqsMargin >= 0

-----------------------------------------------------------------------------
\* The mask sweep runs over one axis: the mask delayed by -c for c <= 0, the
\* strobe by c for c >= 0.  Windows are maximal runs of passing positions, and
\* the first longest is the best.
DmWindows(pass) ==
    {w \in (DOMAIN pass) \X (DOMAIN pass) :
        /\ w[1] <= w[2] /\ \A c \in w[1]..w[2] : pass[c]
        /\ \A c \in {w[1] - 1, w[2] + 1} \cap DOMAIN pass : ~ pass[c]}

DmBest(pass) ==
    CHOOSE w \in DmWindows(pass) : \A v \in DmWindows(pass) :
        \/ v[2] - v[1] < w[2] - w[1]
        \/ v[2] - v[1] = w[2] - w[1] /\ v[1] >= w[1]

\* Mutant: a mask that never passed is not noticed.
DmSettle_Unchecked(pass) ==
    IF DmWindows(pass) = {} THEN [dm |-> 0, margin |-> 0]
    ELSE LET w  == DmBest(pass)
             dm == Max({0, Half(- w[1] - w[2])})
         IN  [dm |-> dm, margin |-> - w[1] - dm]

\* The mask's final delay and margin.
DmSettle(pass) ==
    IF DmWindows(pass) = {} THEN [dm |-> 0, margin |-> -1]
    ELSE LET w  == DmBest(pass)
             dm == Max({0, Half(- w[1] - w[2])})
         IN  [dm |-> dm, margin |-> - w[1] - dm]
=============================================================================
