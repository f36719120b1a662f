----------------------------- MODULE DqsEnable -----------------------------
(***************************************************************************)
(* rw_mgr_mem_calibrate_vfifo_find_dqs_en_phase (sequencer.pre.c): where   *)
(* in time the read strobe of a group must be enabled.  The enable moves   *)
(* by whole clock cycles (the VFIFO pointer, a ring), by phase taps within *)
(* a cycle and by delay taps within a phase.  Phase 0 cannot be used on    *)
(* this device (SKIP_PTAP_0_DQS_EN_CAL).                                   *)
(*                                                                         *)
(* The hardware's answers come from a window w: the enable works for       *)
(* w.len time units from w.lo on, on the ring of all enable times.  The    *)
(* search is a chain of operators, one per step of the function, over a    *)
(* record r of its local variables; r.ok is FALSE once it has returned 0.  *)
(***************************************************************************)
EXTENDS Integers, FiniteSets, FiniteSetsExt

CONSTANTS VfifoSize,    \* READ_VALID_FIFO_SIZE
          PhaseMax,     \* IO_DQS_EN_PHASE_MAX
          EnDelayMax,   \* IO_DQS_EN_DELAY_MAX
          PtapDelay,    \* IO_DELAY_PER_OPA_TAP
          DtapDelay     \* IO_DELAY_PER_DQS_EN_DCHAIN_TAP

ASSUME TapsAssumption ==
    /\ VfifoSize \in Nat \ {0, 1} /\ PhaseMax \in Nat \ {0, 1}
    /\ EnDelayMax \in Nat /\ PtapDelay \in Nat \ {0} /\ DtapDelay \in Nat \ {0}

Phases == 0..PhaseMax

EnDelays == 0..EnDelayMax

PhasesPerCycle == PhaseMax + 1

CycleDelay == PhasesPerCycle * PtapDelay

Ring == VfifoSize * CycleDelay

\* Enable time at VFIFO pointer x, phase p, delay d.
EnTime(x, p, d) == x * CycleDelay + p * PtapDelay + d * DtapDelay

InWindow(w, t) == (t - w.lo) % Ring < w.len

\* The read test inside the search: five (or one) tries, one good bit is enough.
Reads(w, x, p, d) == InWindow(w, EnTime(x % VfifoSize, p, d))

\* The while loop over tmp_delay: taps to cover a phase, less one.
DtapsPerPtap == (PtapDelay + DtapDelay - 1) \div DtapDelay - 1

Failed(r) == [r EXCEPT !.ok = FALSE]

\* Phase registers are left at the values of r when the search returns.
Back(r) == IF r.p = 0 THEN [r EXCEPT !.p = PhaseMax, !.x = @ + VfifoSize - 1]
                      ELSE [r EXCEPT !.p = @ - 1]

Forward(r) == IF r.p = PhaseMax THEN [r EXCEPT !.p = 0, !.x = @ + 1]
                                ELSE [r EXCEPT !.p = @ + 1]

-----------------------------------------------------------------------------
\* Step 1: push the VFIFO until the second failing read at phase 1.
PushToFailing(w, r) ==
    LET fails == {v \in 0..(VfifoSize - 1) : ~ Reads(w, r.x + v, 1, 0)}
    IN  IF Cardinality(fails) < 2 THEN Failed(r)
        ELSE [r EXCEPT !.x = @ + Min(fails \ {Min(fails)})]

\* Step 2: the first working (delay, cycle, phase), the phase innermost, phase
\* 0 skipped.  k counts the phases visited, whose time work_bgn accumulates.
FindBegin(w, r) ==
    LET k(j)  == j % (VfifoSize * PhasesPerCycle)
        d(j)  == j \div (VfifoSize * PhasesPerCycle)
        tried == 0..((DtapsPerPtap + 1) * VfifoSize * PhasesPerCycle - 1)
        hits  == {j \in tried : /\ j % PhasesPerCycle # 0
                                /\ Reads(w, r.x + j \div PhasesPerCycle,
                                         j % PhasesPerCycle, d(j))}
        hit   == Min(hits)
    IN  IF hits = {} THEN [Failed(r) EXCEPT !.p = PhaseMax, !.d = DtapsPerPtap]
        ELSE [r EXCEPT !.x = @ + k(hit) \div PhasesPerCycle,
                       !.i = k(hit) \div PhasesPerCycle,
                       !.p = hit % PhasesPerCycle,
                       !.d = d(hit),
                       !.bgn = d(hit) * DtapDelay + k(hit) * PtapDelay]

\* Step 3a: back off a phase and find the exact begin in delay taps.  At phase
\* 1 there is nothing to back off to, and p is left one too high afterwards.
RefineBegin(w, r) ==
    LET b    == IF r.p = 1 THEN r ELSE Back(r)
        tmp  == IF r.p = 1 THEN r.bgn ELSE r.bgn - PtapDelay
        hits == {d \in EnDelays : /\ tmp + d * DtapDelay < r.bgn
                                  /\ Reads(w, b.x, b.p, d)}
    IN  [Forward(b) EXCEPT !.end = r.bgn,
                           !.bgn = IF hits = {} THEN @ ELSE tmp + Min(hits) * DtapDelay]

(***************************************************************************)
(* Step 4a: forward by phases to the first failing one.  s is the number   *)
(* of phases past the first candidate; phase 0 is taken to work; a failure *)
(* at s = 0 moves the begin instead of ending the search.  The cycles left *)
(* are those the begin search has not used, plus one.                      *)
(***************************************************************************)
FindEnd(w, r) ==
    LET f     == Forward(r)
        at(s) == (f.p + s) % PhasesPerCycle
        cyc(s) == (f.p + s) \div PhasesPerCycle
        works(s) == at(s) = 0 \/ Reads(w, f.x + cyc(s), at(s), 0)
        room  == (VfifoSize + 1 - r.i) * PhasesPerCycle - f.p
        fails == {s \in 1..(room - 1) : ~ works(s)}
        bgn   == IF works(0) THEN r.bgn ELSE r.end + PtapDelay
    IN  IF fails = {}
        THEN Failed([f EXCEPT !.x = @ + VfifoSize + 1 - r.i, !.p = PhaseMax])
        ELSE [f EXCEPT !.bgn = bgn,
                       !.x   = @ + cyc(Min(fails)),
                       !.p   = at(Min(fails)),
                       !.end = @ + (1 + Min(fails)) * PtapDelay]

\* Step 5a: back off to the last working phase, past phase 0.
BackOffEnd(r) ==
    LET q == IF r.p = 1 THEN [r EXCEPT !.p = 0, !.end = @ - PtapDelay] ELSE r
    IN  [Back(q) EXCEPT !.end = @ - PtapDelay, !.d = 0]

\* The window covers a phase tap (d = 0), or only delay taps reach it.
PhaseEdges(w, r) ==
    IF r.d = 0
    THEN LET e == FindEnd(w, RefineBegin(w, r))
         IN  IF e.ok THEN BackOffEnd(e) ELSE e
    ELSE [r EXCEPT !.end = r.bgn]

\* Last part of step 5: the exact end in delay taps.  d stops at the first
\* failing tap, or one past the maximum.
RefineEnd(w, r) ==
    LET stop == Min({d \in r.d..EnDelayMax : ~ Reads(w, r.x, r.p, d)} \cup {EnDelayMax + 1})
        end  == r.end + (stop - r.d) * DtapDelay - (IF stop = 0 THEN 0 ELSE DtapDelay)
        e    == [r EXCEPT !.d = stop, !.end = end]
    IN  IF end >= r.bgn THEN e ELSE Failed([e EXCEPT !.d = Min({stop, EnDelayMax})])

\* DQS tracking: back up a phase and find the edge again; the taps between the
\* two edges are the taps per phase, if both a pass and a failure were seen.
TrackingTaps(w, r) ==
    LET b    == IF r.p \in {0, 1}
                THEN [r EXCEPT !.p = PhaseMax, !.x = @ + VfifoSize - 1]
                ELSE [r EXCEPT !.p = @ - 1]
        pass == {d \in r.d..EnDelayMax : Reads(w, b.x, b.p, d)}
        fail == {d \in EnDelays : /\ pass # {} /\ d > Min(pass)
                                  /\ ~ Reads(w, b.x, b.p, d)}
    IN  [b EXCEPT !.dtaps = IF fail = {} THEN DtapsPerPtap ELSE Min(fail) - r.d]

\* Step 6: the middle of the window as a phase and a delay within one cycle.
Centre(r) ==
    LET mid  == (r.bgn + r.end) \div 2
        \* while (work_mid > tmp_delay) work_mid -= tmp_delay
        rest == IF mid = 0 THEN 0 ELSE ((mid - 1) % CycleDelay) + 1
        \* p phases cover work_mid; the setting is p - 1
        p    == Min({q \in 0..PhasesPerCycle : q * PtapDelay >= rest})
        left == rest - (p - 1) * PtapDelay
        d    == Min({n \in EnDelays : n * DtapDelay >= left} \cup {EnDelayMax + 1})
    IN  IF p = 1 THEN [r EXCEPT !.p = 1, !.d = 0]
        ELSE [r EXCEPT !.p = p - 1, !.d = IF p = 0 THEN 0 ELSE d]

\* Push the VFIFO until the centre reads: one full turn at most.
PushToCentre(w, r) ==
    LET hits == {i \in 0..(VfifoSize - 1) : Reads(w, r.x + i, r.p, r.d)}
    IN  IF hits = {} THEN Failed(r) ELSE [r EXCEPT !.x = @ + Min(hits)]

-----------------------------------------------------------------------------
Then(r, next(_)) == IF r.ok THEN next(r) ELSE r

\* The function: found, and the VFIFO pointer, phase, delay and taps it leaves.
FindDqsEnPhase(w, x, dtaps) ==
    LET start == [ok |-> TRUE, x |-> x, p |-> 1, d |-> 0, i |-> 0, bgn |-> 0,
                  end |-> 0, dtaps |-> dtaps]
        push(r)   == PushToFailing(w, r)
        begin(r)  == FindBegin(w, r)
        edges(r)  == PhaseEdges(w, r)
        refine(r) == RefineEnd(w, r)
        track(r)  == TrackingTaps(w, r)
        centre(r) == PushToCentre(w, Centre(r))
        last == Then(Then(Then(Then(Then(push(start), begin), edges), refine), track), centre)
    IN  [last EXCEPT !.x = @ % VfifoSize]
=============================================================================
