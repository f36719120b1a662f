----------------------------- MODULE ScanChain -----------------------------
(***************************************************************************)
(* The scan-chain manager of the DDR3 PHY as the calibration firmware      *)
(* (sequencer.pre.c) drives it.  A setting reaches a pin in three moves:   *)
(*   rf     a write to the register file (WRITE_SCC_...),                  *)
(*   chain  an ENA write, which shifts the registers of the named pins     *)
(*          into the chain of the group in GROUP_COUNTER,                  *)
(*   live   the UPD strobe, which latches every chain.                     *)
(* The registers of the DQS bus exist once per group; those of the DQ, DM  *)
(* and DQS I/O pins exist ONCE, and serve whichever group GROUP_COUNTER    *)
(* selects.  Every operator here maps a manager state s to its successor.  *)
(*                                                                         *)
(* The build is the one sequencer_defines.pre.h selects: Cyclone V hard    *)
(* PHY, one rank, one shadow register, as many read as write groups, one   *)
(* DM pin per group.  On this device the OUT2 registers do not exist:      *)
(* their macros write nothing and read 0, and IO_IO_OUT2_DELAY_MAX is 0.   *)
(* Input delays of DM and DQS I/O are only ever written 0: left out.       *)
(***************************************************************************)
EXTENDS Integers

CONSTANTS NumGroups,      \* RW_MGR_MEM_IF_WRITE_DQS_WIDTH
          NumDq,          \* RW_MGR_MEM_DQ_PER_READ_DQS
          DqsInReserve,   \* IO_DQS_IN_RESERVE
          DqsOutReserve   \* IO_DQS_OUT_RESERVE

ASSUME SizesAssumption ==
    NumGroups \in Nat \ {0} /\ NumDq \in Nat \ {0, 1}
    /\ DqsInReserve \in Nat /\ DqsOutReserve \in Nat

Groups == 0..(NumGroups - 1)

Dq == 0..(NumDq - 1)

\* IO_IO_OUT2_DELAY_MAX: the device has no second output delay chain.
Out2Max == 0

\* The settings of one group's pins; a register file or a chain holds these.
ZeroPins == [dqIn |-> [b \in Dq |-> 0], dqOut |-> [b \in Dq |-> 0],
             dmOut |-> 0, dqsOut |-> 0]

ZeroBus == [dqsIn |-> 0, enPhase |-> 0, enDelay |-> 0, outPhase |-> 0,
            octOut |-> 0]

\* Reset value: every register and chain at zero, group 0 selected.
SccReset ==
    [grp   |-> 0,
     pins  |-> ZeroPins,
     bus   |-> [g \in Groups |-> ZeroBus],
     chain |-> [g \in Groups |-> [pins |-> ZeroPins, bus |-> ZeroBus]],
     live  |-> [g \in Groups |-> [pins |-> ZeroPins, bus |-> ZeroBus]]]

-----------------------------------------------------------------------------
(* Register writes.                                                        *)

GroupCounter(s, g) == [s EXCEPT !.grp = g]

SetDqsBusInDelay(s, g, n) == [s EXCEPT !.bus[g].dqsIn = n]

SetDqsEnPhase(s, g, p) == [s EXCEPT !.bus[g].enPhase = p]

SetDqsEnDelay(s, g, n) == [s EXCEPT !.bus[g].enDelay = n]

SetDqdqsOutputPhase(s, g, p) == [s EXCEPT !.bus[g].outPhase = p]

SetOctOut1Delay(s, g, n) == [s EXCEPT !.bus[g].octOut = n]

SetDqOut1Delay(s, b, n) == [s EXCEPT !.pins.dqOut[b] = n]

SetDqInDelay(s, b, n) == [s EXCEPT !.pins.dqIn[b] = n]

SetDqsOut1Delay(s, n) == [s EXCEPT !.pins.dqsOut = n]

SetDmOut1Delay(s, n) == [s EXCEPT !.pins.dmOut = n]

\* OUT2 writes are empty macros on this device.
SetOut2Delay(s, n) == s

(* Loads: an ENA write of one pin, or of all of them (0xff).               *)

LoadDqs(s, g) == [s EXCEPT !.chain[g].bus = s.bus[g]]

LoadAllDqs(s) ==
    [s EXCEPT !.chain = [g \in Groups |-> [@[g] EXCEPT !.bus = s.bus[g]]]]

LoadDqsIo(s) == [s EXCEPT !.chain[s.grp].pins.dqsOut = s.pins.dqsOut]

LoadDq(s, bits) ==
    [s EXCEPT !.chain[s.grp].pins =
        [@ EXCEPT !.dqIn  = [b \in Dq |-> IF b \in bits THEN s.pins.dqIn[b] ELSE @[b]],
                  !.dqOut = [b \in Dq |-> IF b \in bits THEN s.pins.dqOut[b] ELSE @[b]]]]

LoadDm(s) == [s EXCEPT !.chain[s.grp].pins.dmOut = s.pins.dmOut]

\* SCC_MGR_UPD.
Upd(s) == [s EXCEPT !.live = s.chain]

-----------------------------------------------------------------------------
(* The compound operations of the firmware.                                *)

\* scc_mgr_set_dqs_en_phase_all_ranks and its two siblings: set, load, update.
SetDqsEnPhaseAllRanks(s, g, p) == Upd(LoadDqs(SetDqsEnPhase(s, g, p), g))

SetDqsEnDelayAllRanks(s, g, n) == Upd(LoadDqs(SetDqsEnDelay(s, g, n), g))

SetDqdqsOutputPhaseAllRanks(s, g, p) ==
    Upd(LoadDqs(SetDqdqsOutputPhase(s, g, p), g))

\* scc_mgr_zero_all: the bus registers of every group to their rest values.
ZeroAll(s) ==
    Upd(LoadAllDqs([s EXCEPT !.bus =
        [g \in Groups |-> [ZeroBus EXCEPT !.dqsIn = DqsInReserve,
                                          !.octOut = DqsOutReserve]]]))

\* scc_mgr_zero_group: the pins of the selected group to their rest values;
\* out_only leaves the input delays alone.
ZeroGroup(s, g, outOnly) ==
    LET dqs == [s EXCEPT
                  !.pins = [dqIn   |-> IF outOnly THEN @.dqIn ELSE [b \in Dq |-> 0],
                            dqOut  |-> [b \in Dq |-> 0],
                            dmOut  |-> 0,
                            dqsOut |-> DqsOutReserve],
                  !.bus[g].octOut = DqsOutReserve]
    IN  Upd(LoadDqsIo(LoadDqs(LoadDm(LoadDq(dqs, Dq)), g)))

\* scc_set_bypass_mode, in turn for every group: HHP_EXTRAS is written once, the
\* bypass macros are empty on this device, and what is left loads all pins.
SetBypassMode(s) ==
    LET rest == [g \in Groups |-> [pins |-> s.pins, bus |-> s.bus[g]]]
    IN  [GroupCounter(s, NumGroups - 1) EXCEPT !.chain = rest, !.live = rest]

\* scc_mgr_apply_group_dq_in_delay: staged and loaded, not yet updated.
ApplyGroupDqInDelay(s, n) ==
    LoadDq([s EXCEPT !.pins.dqIn = [b \in Dq |-> n]], Dq)

ApplyGroupDqOut1Delay(s, n) ==
    LoadDq([s EXCEPT !.pins.dqOut = [b \in Dq |-> n]], Dq)

ApplyGroupDmOut1Delay(s, n) == LoadDm(SetDmOut1Delay(s, n))

ApplyGroupDqsIoAndOctOut1(s, g, n) ==
    LoadDqs(SetOctOut1Delay(LoadDqsIo(SetDqsOut1Delay(s, n)), g, n), g)

(***************************************************************************)
(* scc_mgr_apply_group_all_out_delay_add_all_ranks.  The new OUT2 value is *)
(* the one read back (0) plus the delay, clipped; DQ and DM drop what does *)
(* not fit, DQS and OCT spill it into OUT1, replacing what OUT1 held.      *)
(***************************************************************************)
Out2Sum(delay) == 0 + delay

SpillDqsOut1(s, delay) ==
    IF Out2Sum(delay) > Out2Max
    THEN SetDqsOut1Delay(s, Out2Sum(delay) - Out2Max)
    ELSE s

SpillOctOut1(s, g, delay) ==
    IF Out2Sum(delay) > Out2Max
    THEN SetOctOut1Delay(s, g, Out2Sum(delay) - Out2Max)
    ELSE s

ApplyGroupAllOutDelayAdd(s, g, delay) ==
    LET dq  == LoadDq(SetOut2Delay(s, delay), Dq)
        dm  == LoadDm(SetOut2Delay(dq, delay))
        dqs == LoadDqsIo(SetOut2Delay(SpillDqsOut1(dm, delay), delay))
        oct == LoadDqs(SetOut2Delay(SpillOctOut1(dqs, g, delay), delay), g)
    IN  Upd(oct)
=============================================================================
