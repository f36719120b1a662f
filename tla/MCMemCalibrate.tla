-------------------------- MODULE MCMemCalibrate ---------------------------
(* Eyes for model checking MemCalibrate: two groups of two bits.            *)
EXTENDS MemCalibrate

\* A comfortable eye; the families below vary one part of it each.
Plain == [en  |-> [lo |-> 21, len |-> 20],
          cut |-> {},
          rd  |-> [b \in {0, 1} |-> [lo |-> -3, hi |-> 2]],
          wr  |-> [b \in {0, 1} |-> [lo |-> -2, hi |-> 3]],
          dm  |-> [lo |-> -2, hi |-> 3],
          ck  |-> [lo |-> 0, hi |-> 6],
          lat |-> 3]

Intervals(los, widths) ==
    {[lo |-> i[1], hi |-> i[1] + i[2]] : i \in los \X widths}

Pairs(intervals) == [{0, 1} -> intervals]

\* Where the strobe enable works: every place on the ring.
EnableEyes ==
    {[Plain EXCEPT !.en = [lo |-> i[1], len |-> i[2]]] :
        i \in (0..63) \X {0, 3, 8, 12, 16, 21, 28, 64}}

\* Skew between the bits of a group, and between them and the strobe.
ReadEyes == {[Plain EXCEPT !.rd = p] : p \in Pairs(Intervals(-7..6, {1, 4}))}

WriteEyes == {[Plain EXCEPT !.wr = p] : p \in Pairs(Intervals(-7..6, {1, 4}))}

MaskEyes == {[Plain EXCEPT !.dm = p] : p \in Intervals(-7..6, {0, 2, 5})}

\* Strobe against clock: with the outputs at rest, moved, or not at all.
ClockEyes ==
    {[Plain EXCEPT !.ck = i, !.cut = c] : i \in Intervals(0..4, 0..3), c \in {{}, {0}, 0..3}}

LatencyEyes == {[Plain EXCEPT !.lat = n] : n \in 0..7}

FirstEyes ==
    {[Plain EXCEPT !.rd[0] = [lo |-> 0, hi |-> 3], !.wr[1] = [lo |-> 0, hi |-> 4], !.lat = 4],
     [Plain EXCEPT !.ck = [lo |-> 2, hi |-> 6]]}

MCEyes ==
    [g \in {0, 1} |->
        IF g = 0 THEN FirstEyes
        ELSE EnableEyes \cup ReadEyes \cup WriteEyes \cup MaskEyes \cup ClockEyes \cup LatencyEyes]
=============================================================================
