--------------------------- MODULE MemCalibrate ----------------------------
(***************************************************************************)
(* The DDR3 calibration firmware of the SoC (sequencer.pre.c), from        *)
(* sdram_calibration to its return: bring the memory up, align the strobe  *)
(* enable, centre the read and write eyes of each group, find the read     *)
(* latency, hand the memory to the controller and report.  The build is    *)
(* the one sequencer_defines.pre.h selects (Cyclone V hard PHY, one rank,  *)
(* all groups run, debug and report features off).                         *)
(*                                                                         *)
(* The firmware is one thread; each of its functions is an action, each    *)
(* iteration of a loop that ends in a test is one too.  What the hardware  *)
(* answers to a test comes from the group's eye, chosen when the group is  *)
(* first looked at.  Commands for the memory device queue in cmds: the     *)
(* bus write that issues one returns when the device has taken it, so the  *)
(* firmware goes on when cmds is empty.                                    *)
(***************************************************************************)
EXTENDS Integers, Sequences, FiniteSets, FiniteSetsExt,
        ScanChain, DqsEnable, Centering, Ddr3Device

CONSTANTS InMax,        \* IO_IO_IN_DELAY_MAX
          OutMax,       \* IO_IO_OUT1_DELAY_MAX
          DqsInMax,     \* IO_DQS_IN_DELAY_MAX
          MaxLatency,   \* (1 << MAX_LATENCY_COUNT_WIDTH) - 1
          MemRl,        \* MEM_T_RL_ADD, the device's read latency
          RlatSlack,    \* the 16 cycles mem_config adds to it
          FomMax,       \* 0xff, the width of a figure of merit
          Eyes          \* group -> the eyes its board traces may have

ASSUME RangesAssumption ==
    /\ {InMax, OutMax, DqsInMax, MaxLatency, MemRl, RlatSlack, FomMax} \subseteq Nat
    /\ DqsInReserve <= DqsInMax /\ DqsOutReserve <= OutMax

VARIABLES pc,       \* where the firmware is
          fw,       \* its locals: group, d, dqs_in_dtaps, orig_start_dqs, ctrlcfg
          gbl,      \* gbl_t: error stage, substage and group, latency, merit
          regs,     \* the register file the debugger and the tracker read
          phy,      \* mux, calibration status, latency, what was configured
          ctl,      \* the controller: is DQS tracking enabled
          scc,      \* the scan-chain manager
          vfifo,    \* VFIFO pointer of each group
          eye,      \* what the pins of each group looked at so far answer
          pattern,  \* groups whose read pattern is in the memory
          dev,      \* the memory device
          cmds      \* commands on their way to it

vars == <<pc, fw, gbl, regs, phy, ctl, scc, vfifo, eye, pattern, dev, cmds>>

Init ==
    /\ pc = "reg_file"
    /\ fw = [g |-> 0, d |-> 0, dqs |-> 0, start |-> 0, sub |-> "nil", cfg |-> FALSE,
             pass |-> FALSE, found |-> FALSE]
    /\ gbl = [stage |-> "nil", sub |-> "nil", grp |-> 255, rlat |-> 0, fomIn |-> 0, fomOut |-> 0]
    /\ regs = [stage |-> "nil", sub |-> "nil", grp |-> 0, fom |-> <<0, 0>>,
               failing |-> <<"nil", "nil", 0>>, dtaps |-> 0, trk |-> FALSE]
    /\ phy = [mux |-> 0, status |-> "none", rlat |-> 0, ctrl |-> FALSE, rom |-> FALSE]
    /\ ctl = TRUE
    /\ \E n \in {0, DqsInMax} : scc = [SccReset EXCEPT !.bus = [g \in Groups |->
            [ZeroBus EXCEPT !.dqsIn = n, !.octOut = n]]]
    /\ vfifo = [g \in Groups |-> 0]
    /\ eye = << >>
    /\ pattern = {}
    /\ dev = DeviceOff
    /\ cmds = << >>

-----------------------------------------------------------------------------
(* What the hardware answers.  l holds the settings of group g's pins, rl   *)
(* the read latency of the PHY.                                             *)

Within(n, i) == i.lo <= n /\ n <= i.hi

\* Bits the read path of group g brings in, at VFIFO pointer x.
CapturedBits(g, x, l, rl) ==
    {b \in Dq : /\ InWindow(eye[g].en, EnTime(x, l.bus.enPhase, l.bus.enDelay))
                /\ rl >= eye[g].lat
                /\ Within(l.pins.dqIn[b] - l.bus.dqsIn, eye[g].rd[b])}

\* Bits a read test returns correct.
ReadBits(g, x, l, rl) == IF g \in pattern THEN CapturedBits(g, x, l, rl) ELSE {}

\* The strobe reaches the memory close enough to its clock.
ClockOk(g, l) == Within(l.pins.dqsOut, eye[g].ck)

\* Bits a write test returns correct: written and read back.
WriteBits(g, l, rl) ==
    {b \in CapturedBits(g, vfifo[g], l, rl) :
        ClockOk(g, l) /\ Within(l.pins.dqOut[b] - l.pins.dqsOut, eye[g].wr[b])}

\* A write test with the data mask in use, all bits.
MaskOk(g, l, rl) ==
    /\ WriteBits(g, l, rl) = Dq
    /\ Within(l.pins.dmOut - l.pins.dqsOut, eye[g].dm)

\* The guaranteed write: constant data, which lands whenever the strobe does.
Landed(s) == {g \in DOMAIN eye : ClockOk(g, s.live[g])}

\* The guaranteed read: constant data, so only a burst cut short by an enable
\* phase too close to a strobe edge is read wrong.
GuaranteedRead(g, p, landed) == g \in landed /\ p \notin eye[g].cut

-----------------------------------------------------------------------------
(* Helpers of the firmware.                                                *)

\* Once the device has taken every command, and never before.
At(p) == pc = p /\ cmds = << >>

\* set_failing_group_stage: the first failure is kept.
SetFailing(gb, grp, stage, sub) ==
    IF gb.stage = "nil" THEN [gb EXCEPT !.stage = stage, !.sub = sub, !.grp = grp] ELSE gb

\* reg_file_set_stage, _sub_stage and _group write fields of one register.
SetStage(r, stage, sub) == [r EXCEPT !.stage = stage, !.sub = sub]

SetGroup(r, g) == [r EXCEPT !.grp = g]

PrechargeAndActivate == <<Op("precharge"), Op("activate")>>

\* The board traces and the device stay as they are.
KeepBoard == UNCHANGED <<eye, dev>>

-----------------------------------------------------------------------------
(* sdram_calibration up to the call of run_mem_calibrate.                  *)

InitializeRegFile ==
    /\ At("reg_file")
    /\ regs' = [regs EXCEPT !.stage = "nil", !.sub = "nil", !.grp = 0, !.fom = <<0, 0>>,
                            !.failing = <<"nil", "nil", 0>>]
    /\ pc' = "hps_phy"
    /\ UNCHANGED <<fw, gbl, phy, ctl, scc, vfifo, pattern, cmds>> /\ KeepBoard

InitializeHpsPhy ==
    /\ At("hps_phy")
    /\ phy' = [phy EXCEPT !.ctrl = TRUE]
    /\ pc' = "scc"
    /\ UNCHANGED <<fw, gbl, regs, ctl, scc, vfifo, pattern, cmds>> /\ KeepBoard

\* scc_mgr_initialize clears the register file; the chains keep what they hold.
SccMgrInitialize ==
    /\ At("scc")
    /\ scc' = [scc EXCEPT !.pins = ZeroPins, !.bus = [g \in Groups |-> ZeroBus]]
    /\ pc' = "tracking"
    /\ UNCHANGED <<fw, gbl, regs, phy, ctl, vfifo, pattern, cmds>> /\ KeepBoard

InitializeTracking ==
    /\ At("tracking")
    /\ regs' = [regs EXCEPT !.dtaps = DtapsPerPtap, !.trk = TRUE]
    /\ pc' = "rom"
    /\ UNCHANGED <<fw, gbl, phy, ctl, scc, vfifo, pattern, cmds>> /\ KeepBoard

InitializeRomData ==
    /\ At("rom")
    /\ phy' = [phy EXCEPT !.rom = TRUE]
    /\ regs' = SetGroup([regs EXCEPT !.stage = "nil"], 0)
    /\ pc' = "run"
    /\ UNCHANGED <<fw, gbl, ctl, scc, vfifo, pattern, cmds>> /\ KeepBoard

\* The head of run_mem_calibrate, and initialize(): tracking off, the
\* sequencer takes the PHY.
RunMemCalibrate ==
    /\ At("run")
    /\ fw' = [fw EXCEPT !.cfg = ctl]
    /\ ctl' = FALSE
    /\ phy' = [phy EXCEPT !.mux = 3, !.status = "none"]
    /\ cmds' = <<Op("unstable")>>
    /\ pc' = "mem_init"
    /\ UNCHANGED <<gbl, regs, scc, vfifo, pattern>> /\ KeepBoard

\* rw_mgr_mem_initialize.
RwMgrMemInitialize ==
    /\ At("mem_init")
    /\ cmds' = <<Op("reset"), Op("stable"), Op("release"), WaitClocks(250),
                 Op("mrs2"), WaitClocks(4), Op("mrs3"), WaitClocks(4), Op("mrs1"),
                 Op("mrs0_dll"), Op("zqcl"), WaitClocks(512)>>
    /\ pc' = "mem_config"
    /\ UNCHANGED <<fw, gbl, regs, phy, ctl, scc, vfifo, pattern>> /\ KeepBoard

\* Latency the search for the smallest one starts from.
StartLatency == IF MemRl + RlatSlack > MaxLatency THEN MaxLatency ELSE MemRl + RlatSlack

\* The head of mem_calibrate: forget errors, mem_config, bypass, zero_all.
MemConfig ==
    /\ At("mem_config")
    /\ gbl' = [stage |-> "nil", sub |-> "nil", grp |-> 255, rlat |-> StartLatency,
               fomIn |-> 0, fomOut |-> 0]
    /\ phy' = [phy EXCEPT !.rlat = StartLatency]
    /\ cmds' = PrechargeAndActivate
    /\ scc' = ZeroAll(SetBypassMode(scc))
    /\ pc' = "group"
    /\ UNCHANGED <<fw, regs, ctl, vfifo, pattern>> /\ KeepBoard

-----------------------------------------------------------------------------
(* The group loop of mem_calibrate.                                        *)

\* The group's pins to rest, and the head of rw_mgr_mem_calibrate_vfifo.
GroupStart ==
    /\ At("group")
    /\ \E e \in Eyes[fw.g] :
         eye' = [g \in DOMAIN eye \cup {fw.g} |-> IF g = fw.g THEN e ELSE eye[g]]
    /\ scc' = ZeroGroup(GroupCounter(scc, fw.g), fw.g, FALSE)
    /\ regs' = SetGroup(SetStage(regs, "vfifo", "guaranteed_read"), fw.g)
    /\ fw' = [fw EXCEPT !.d = 0, !.sub = "guaranteed_read", !.found = FALSE]
    /\ pc' = "vfifo"
    /\ UNCHANGED <<gbl, phy, ctl, vfifo, pattern, dev, cmds>>

\* The enable phase the guaranteed read passes at: the current one, else the
\* first that passes; PhaseMax is left behind when none does.
GuaranteedPhase(g, s, landed) ==
    LET ok == {p \in Phases : GuaranteedRead(g, p, landed)}
    IN  IF GuaranteedRead(g, s.live[g].bus.enPhase, landed) THEN s.live[g].bus.enPhase
        ELSE Min(ok \cup {PhaseMax})

\* Mutant: d is not advanced.
NextD_Same(d) == d

\* d += 2: the outputs move by two taps per attempt.
NextD(d) == d + 2

\* One iteration of the d loop up to the guaranteed read: move the outputs,
\* write the pattern, read it back.  On success the dqs_in_dtaps loop starts
\* from what the register holds.
VfifoTry ==
    /\ At("vfifo")
    /\ LET g      == fw.g
           s      == SetDqdqsOutputPhaseAllRanks(
                        IF fw.d > 0 THEN ApplyGroupAllOutDelayAdd(scc, g, fw.d) ELSE scc, g, 0)
           landed == Landed(s)
           p      == GuaranteedPhase(g, s, landed)
           after  == SetDqsEnPhaseAllRanks(s, g, p)
       IN  /\ scc' = after
           /\ pattern' = landed
           /\ IF GuaranteedRead(g, p, landed)
              THEN /\ fw' = [fw EXCEPT !.start = after.bus[g].dqsIn, !.dqs = after.bus[g].dqsIn]
                   /\ pc' = "dqs"
              ELSE /\ fw' = [fw EXCEPT !.d = NextD(@)]
                   /\ pc' = IF NextD(fw.d) <= DtapsPerPtap THEN "vfifo" ELSE "vfifo_done"
    /\ UNCHANGED <<gbl, regs, phy, ctl, vfifo, cmds>> /\ KeepBoard

\* rw_mgr_mem_calibrate_vfifo_find_dqs_en_phase_sweep_dq_in_delay: the data pins
\* are spread over the whole delay range, so that some bit can be read whatever
\* the skew; the search runs; the pins go back to zero.
SpreadDq == [b \in Dq |-> b * (InMax \div (NumDq - 1))]

SweepFind(g, dqs) ==
    LET readable == \E b \in Dq : Within(SpreadDq[b] - dqs, eye[g].rd[b])
        answers  == readable /\ g \in pattern /\ phy.rlat >= eye[g].lat
    IN  FindDqsEnPhase(IF answers THEN eye[g].en ELSE [lo |-> 0, len |-> 0],
                       vfifo[g], regs.dtaps)

AllDq(n) == [b \in Dq |-> n]

(***************************************************************************)
(* rw_mgr_mem_calibrate_vfifo_center on manager state s: the verdict, the  *)
(* bits without an edge, the margins and the manager state it leaves.      *)
(* The test is a read with the VFIFO at x or, after writes are calibrated, *)
(* a write and a read.  When an edge is missing the strobe goes back to    *)
(* where it was; the pins stay at zero.                                    *)
(***************************************************************************)
VfifoCenter(g, s, x, use_read_test) ==
    LET test(p) == IF use_read_test THEN ReadBits(g, x, p, phy.rlat)
                   ELSE WriteBits(g, p, phy.rlat)
        start == s.bus[g].dqsIn
        l     == s.live[g]
        lpass == [d \in 0..InMax |-> test([l EXCEPT !.pins.dqIn = AllDq(d)])]
        rpass == [d \in 0..(DqsInMax - start) |->
                    test([l EXCEPT !.pins.dqIn = AllDq(0), !.bus.dqsIn = start + d])]
        e     == ReadEdges(lpass, rpass, Dq)
        zero  == ApplyGroupDqInDelay(s, 0)
    IN  IF EdgeMissing(e) # {}
        THEN [ok |-> FALSE, missing |-> EdgeMissing(e), margin |-> 0,
              scc |-> Upd(LoadDqs(SetDqsBusInDelay(zero, g, start), g))]
        ELSE LET r == ReadSettle(e, start, DqsInMax, zero.pins.dqIn, InMax)
                 t == LoadDq([zero EXCEPT !.pins.dqIn = r.dq], Dq)
             IN  [ok |-> MarginsOk(r), missing |-> {}, margin |-> r.dqMargin + r.dqsMargin,
                  scc |-> Upd(LoadDqs(SetDqsBusInDelay(t, g, r.dqs), g))]

\* The failing group of a missing edge is given as a DQ pin number.
EdgeFailure(gb, g, c, stage) ==
    IF c.missing = {} THEN gb
    ELSE SetFailing(gb, g * NumDq + Min(c.missing), stage, "vfifo_center")

\* One iteration of the dqs_in_dtaps loop.
DqsTry ==
    /\ At("dqs")
    /\ LET g  == fw.g
           r  == SweepFind(g, fw.dqs)
           s1 == Upd(LoadDqs(SetDqsBusInDelay(scc, g, fw.dqs), g))
           s2 == Upd(ApplyGroupDqInDelay(s1, 0))
           s3 == SetDqsEnDelayAllRanks(SetDqsEnPhaseAllRanks(s2, g, r.p), g, r.d)
           s4 == Upd(LoadDqs(SetDqsBusInDelay(s3, g, fw.start), g))
           c  == VfifoCenter(g, s4, r.x, TRUE)
           ok == r.ok /\ c.ok
       IN  /\ scc' = IF r.ok THEN c.scc ELSE s3
           /\ vfifo' = [vfifo EXCEPT ![g] = r.x]
           /\ gbl' = IF r.ok THEN EdgeFailure(gbl, g, c, "vfifo") ELSE gbl
           /\ regs' = [regs EXCEPT !.dtaps = r.dtaps, !.sub = "vfifo_center"]
           /\ \/ /\ ok
                 /\ fw' = [fw EXCEPT !.d = NextD(@), !.found = TRUE]
                 /\ pc' = "vfifo_done"
              \/ /\ ~ ok /\ fw.dqs < DqsInMax
                 /\ fw' = [fw EXCEPT !.dqs = @ + 1,
                                     !.sub = IF r.ok THEN "vfifo_center" ELSE "dqs_en_phase"]
                 /\ pc' = "dqs"
              \/ /\ ~ ok /\ fw.dqs = DqsInMax
                 /\ fw' = [fw EXCEPT !.d = NextD(@),
                                     !.sub = IF r.ok THEN "vfifo_center" ELSE "dqs_en_phase"]
                 /\ pc' = IF NextD(fw.d) <= DtapsPerPtap THEN "vfifo" ELSE "vfifo_done"
    /\ UNCHANGED <<phy, ctl, pattern, cmds>> /\ KeepBoard

\* The end of rw_mgr_mem_calibrate_vfifo: outputs back to rest if they moved.
VfifoDone ==
    /\ At("vfifo_done")
    /\ IF fw.found
       THEN /\ scc' = IF fw.d > 2 THEN ZeroGroup(scc, fw.g, TRUE) ELSE scc
            /\ pc' = "writes"
            /\ UNCHANGED gbl
       ELSE /\ gbl' = SetFailing(gbl, fw.g, "vfifo", fw.sub)
            /\ pc' = "finish"
            /\ UNCHANGED scc
    /\ UNCHANGED <<fw, regs, phy, ctl, vfifo, pattern, cmds>> /\ KeepBoard

(***************************************************************************)
(* rw_mgr_mem_calibrate_writes_center: the data pins, then the mask.  When *)
(* an edge is missing the strobe stays where the right sweep stopped.      *)
(***************************************************************************)
WritesCenter(g, s) ==
    LET start == s.pins.dqsOut
        l     == s.live[g]
        test(k) == WriteBits(g, k, phy.rlat)
        lpass == [d \in 0..OutMax |-> test([l EXCEPT !.pins.dqOut = AllDq(d)])]
        rpass == [d \in 0..(OutMax - start) |->
                    test([l EXCEPT !.pins.dqOut = AllDq(0), !.pins.dqsOut = start + d])]
        e     == WriteEdges(lpass, rpass, Dq)
        swept == LastSwept(rpass, Dq, WriteSticky(LeftSweep(lpass, Dq)))
        zero  == ApplyGroupDqOut1Delay(s, 0)
    IN  IF EdgeMissing(e) # {}
        THEN [ok |-> FALSE, missing |-> EdgeMissing(e), margin |-> 0,
              scc |-> Upd(ApplyGroupDqsIoAndOctOut1(zero, g,
                              start + Min({swept + 1, OutMax - start})))]
        ELSE LET r  == WriteSettle(e, start, zero.pins.dqOut, OutMax)
                 t  == Upd(ApplyGroupDqsIoAndOctOut1(
                          LoadDq([zero EXCEPT !.pins.dqOut = r.dq], Dq), g, r.dqs))
                 k  == t.live[g]
                 dm == DmSettle([c \in (-OutMax)..(OutMax - start) |->
                          MaskOk(g, [k EXCEPT !.pins.dmOut  = IF c < 0 THEN - c ELSE 0,
                                              !.pins.dqsOut = IF c < 0 THEN start ELSE start + c],
                                 phy.rlat)])
             IN  [ok |-> MarginsOk(r) /\ dm.margin >= 0, missing |-> {},
                  margin |-> r.dqMargin + r.dqsMargin,
                  scc |-> Upd(ApplyGroupDmOut1Delay(ApplyGroupDqsIoAndOctOut1(t, g, r.dqs), dm.dm))]

\* rw_mgr_mem_calibrate_writes.  The tests overwrite the read pattern.
CalibrateWrites ==
    /\ At("writes")
    /\ LET g == fw.g
           c == WritesCenter(g, scc)
           named == IF c.missing = {} THEN gbl
                    ELSE SetFailing(gbl, g * NumDq + Min(c.missing), "writes", "writes_center")
       IN  /\ scc' = c.scc
           /\ gbl' = [IF c.ok THEN named ELSE SetFailing(named, g, "writes", "writes_center")
                        EXCEPT !.fomOut = @ + c.margin]
           /\ pc' = IF c.ok THEN "vfifo_end" ELSE "finish"
    /\ regs' = SetGroup(SetStage(regs, "writes", "writes_center"), fw.g)
    /\ pattern' = {}
    /\ UNCHANGED <<fw, phy, ctl, vfifo, cmds>> /\ KeepBoard

\* rw_mgr_mem_calibrate_vfifo_end: the read eye again, now with write tests.
CalibrateVfifoEnd ==
    /\ At("vfifo_end")
    /\ LET g == fw.g
           c == VfifoCenter(g, scc, vfifo[g], FALSE)
           named == EdgeFailure(gbl, g, c, "vfifo_after_writes")
       IN  /\ scc' = c.scc
           /\ gbl' = [IF c.ok THEN named
                      ELSE SetFailing(named, g, "vfifo_after_writes", "vfifo_center")
                        EXCEPT !.fomIn = @ + c.margin]
           /\ \/ /\ ~ c.ok
                 /\ pc' = "finish" /\ UNCHANGED fw
              \/ /\ c.ok /\ g < NumGroups - 1
                 /\ pc' = "group" /\ fw' = [fw EXCEPT !.g = @ + 1]
              \/ /\ c.ok /\ g = NumGroups - 1
                 /\ pc' = "lfifo" /\ UNCHANGED fw
    /\ regs' = SetGroup(SetStage(regs, "vfifo_after_writes", "vfifo_center"), fw.g)
    /\ pattern' = {}
    /\ UNCHANGED <<phy, ctl, vfifo, cmds>> /\ KeepBoard

-----------------------------------------------------------------------------
(* rw_mgr_mem_calibrate_lfifo: the smallest latency all groups read at, plus *)
(* a margin.                                                               *)

\* Mutant: the pattern the write tests destroyed is not written again.
LfifoStart_NoPattern ==
    /\ At("lfifo")
    /\ regs' = SetStage(regs, "lfifo", "read_latency")
    /\ fw' = [fw EXCEPT !.found = FALSE]
    /\ pc' = "lfifo_test"
    /\ UNCHANGED <<gbl, phy, ctl, scc, vfifo, pattern, cmds>> /\ KeepBoard

LfifoStart ==
    /\ At("lfifo")
    /\ regs' = SetStage(regs, "lfifo", "read_latency")
    /\ pattern' = Landed(scc)
    /\ fw' = [fw EXCEPT !.found = FALSE]
    /\ pc' = "lfifo_test"
    /\ UNCHANGED <<gbl, phy, ctl, scc, vfifo, cmds>> /\ KeepBoard

LfifoTest ==
    /\ At("lfifo_test")
    /\ phy' = [phy EXCEPT !.rlat = gbl.rlat]
    /\ LET pass == \A g \in Groups : ReadBits(g, vfifo[g], scc.live[g], gbl.rlat) = Dq
       IN  \/ /\ pass
              /\ gbl' = [gbl EXCEPT !.rlat = @ - 1]
              /\ fw' = [fw EXCEPT !.found = TRUE]
              /\ pc' = IF gbl.rlat - 1 > 0 THEN "lfifo_test" ELSE "lfifo_done"
           \/ /\ ~ pass
              /\ pc' = "lfifo_done"
              /\ UNCHANGED <<gbl, fw>>
    /\ UNCHANGED <<regs, ctl, scc, vfifo, pattern, cmds>> /\ KeepBoard

\* Two steps back up from the latency that failed, and the last update.
LfifoDone ==
    /\ At("lfifo_done")
    /\ fw' = [fw EXCEPT !.pass = fw.found]
    /\ IF fw.found
       THEN /\ gbl' = [gbl EXCEPT !.rlat = @ + 2]
            /\ phy' = [phy EXCEPT !.rlat = gbl.rlat + 2]
            /\ scc' = Upd(scc)
       ELSE /\ gbl' = SetFailing(gbl, 255, "lfifo", "read_latency")
            /\ UNCHANGED <<phy, scc>>
    /\ pc' = "finish"
    /\ UNCHANGED <<regs, ctl, vfifo, pattern, cmds>> /\ KeepBoard

-----------------------------------------------------------------------------
(* The tail of run_mem_calibrate, whatever the outcome.                    *)

Finish ==
    /\ At("finish")
    /\ cmds' = PrechargeAndActivate
    /\ pc' = "handoff"
    /\ UNCHANGED <<fw, gbl, regs, phy, ctl, scc, vfifo, pattern>> /\ KeepBoard

\* rw_mgr_mem_handoff: close the banks, load the user's mode registers.
RwMgrMemHandoff ==
    /\ At("handoff")
    /\ cmds' = <<Op("precharge"), Op("mrs2"), WaitClocks(4), Op("mrs3"), WaitClocks(4),
                 Op("mrs1"), WaitClocks(4), Op("mrs0_user")>>
    /\ pc' = "release"
    /\ UNCHANGED <<fw, gbl, regs, phy, ctl, scc, vfifo, pattern>> /\ KeepBoard

\* Mutant: tracking stays off.
Release_NoTracking ==
    /\ At("release")
    /\ phy' = [phy EXCEPT !.mux = 2]
    /\ pc' = "report"
    /\ UNCHANGED <<fw, gbl, regs, ctl, scc, vfifo, pattern, cmds>> /\ KeepBoard

\* The controller gets the memory, and its tracking setting back.
Release ==
    /\ At("release")
    /\ phy' = [phy EXCEPT !.mux = 2]
    /\ ctl' = fw.cfg
    /\ pc' = "report"
    /\ UNCHANGED <<fw, gbl, regs, scc, vfifo, pattern, cmds>> /\ KeepBoard

\* Half the sum of the margins, cut to the width of its field.
Merit(n) == Clamp(Half(n), 0, FomMax)

Report ==
    /\ At("report")
    /\ IF fw.pass
       THEN /\ regs' = [regs EXCEPT !.fom = <<Merit(gbl.fomIn), Merit(gbl.fomOut)>>]
            /\ phy' = [phy EXCEPT !.status = "success"]
       ELSE /\ regs' = [regs EXCEPT !.failing = <<gbl.stage, gbl.sub, gbl.grp>>]
            /\ phy' = [phy EXCEPT !.status = "fail"]
    /\ pc' = "done"
    /\ UNCHANGED <<fw, gbl, ctl, scc, vfifo, pattern, cmds>> /\ KeepBoard

\* The device takes the next command.
DeviceStep ==
    /\ cmds # << >>
    /\ dev' = Obey(dev, Head(cmds))
    /\ cmds' = Tail(cmds)
    /\ UNCHANGED <<pc, fw, gbl, regs, phy, ctl, scc, vfifo, eye, pattern>>

\* sdram_calibration has returned.
Returned == pc = "done" /\ UNCHANGED vars

Next ==
    \/ InitializeRegFile \/ InitializeHpsPhy \/ SccMgrInitialize
    \/ InitializeTracking \/ InitializeRomData \/ RunMemCalibrate
    \/ RwMgrMemInitialize \/ MemConfig
    \/ GroupStart \/ VfifoTry \/ DqsTry \/ VfifoDone
    \/ CalibrateWrites \/ CalibrateVfifoEnd
    \/ LfifoStart \/ LfifoTest \/ LfifoDone
    \/ Finish \/ RwMgrMemHandoff \/ Release \/ Report
    \/ DeviceStep \/ Returned

\* One processor runs the firmware, and a bus write returns once the device has
\* taken the command: steps are taken until the firmware has returned.  As a step
\* is possible until then (deadlock is checked) and moves pc or a loop counter,
\* this is weak fairness of Next.
KeepsRunning == []<><<TRUE>>_vars \/ <>[](pc = "done")

Spec == Init /\ [][Next]_vars /\ KeepsRunning

-----------------------------------------------------------------------------
(* Properties.                                                             *)

Pins == [dqIn : [Dq -> 0..InMax], dqOut : [Dq -> 0..OutMax], dmOut : 0..OutMax,
         dqsOut : 0..OutMax]

Bus == [dqsIn : 0..DqsInMax, enPhase : Phases, enDelay : EnDelays, outPhase : {0},
        octOut : 0..OutMax]

\* Every delay and phase the firmware writes, stages or latches exists in the
\* delay chains; nothing relies on a register dropping high bits.
TypeOK ==
    /\ fw.g \in Groups /\ fw.dqs \in 0..DqsInMax /\ fw.start \in 0..DqsInMax
    /\ gbl.rlat \in 0..MaxLatency /\ phy.rlat \in 0..MaxLatency
    /\ regs.dtaps \in EnDelays
    /\ vfifo \in [Groups -> 0..(VfifoSize - 1)]
    /\ scc.grp \in Groups /\ scc.pins \in Pins /\ scc.bus \in [Groups -> Bus]
    /\ scc.chain \in [Groups -> [pins : Pins, bus : Bus]]
    /\ scc.live \in [Groups -> [pins : Pins, bus : Bus]]

\* Where the firmware reads or writes the memory itself.
Testing == {"vfifo", "dqs", "writes", "vfifo_end", "lfifo_test"}

\* A command reaches the device only when the device can take it (the wait loops
\* of rw_mgr_mem_initialize, the precharge of the handoff), and no test runs
\* before its banks are open, the instruction ROM is loaded and the PHY is taken.
DeviceProtocol ==
    /\ cmds # << >> => Legal(dev, Head(cmds))
    /\ At(pc) /\ pc \in Testing => TestReady(dev) /\ phy.mux = 3 /\ phy.rom /\ phy.ctrl

\* The controller drives the memory only once every command is through, the banks
\* are closed and the user's mode registers are loaded; DQS tracking is off while
\* the sequencer drives it and back on, with its registers set, when the firmware
\* reports, also after a failure.
HandoffComplete ==
    /\ phy.mux = 2 => cmds = << >> /\ dev.burst = "mrs0_user" /\ ~ dev.open /\ dev.settle = 0
    /\ phy.mux = 3 => ~ ctl
    /\ pc = "done" => phy.mux = 2 /\ ctl /\ regs.trk

\* From the first command to the handoff the device is driven as it demands, by
\* one master at a time, and is left in the state the controller expects.
HandoffInv == DeviceProtocol /\ HandoffComplete

Success == phy.status = "success"

\* A board reported good is good: the settings LATCHED for each group, which share
\* one set of pin registers and were changed again for every later group, let it
\* write, mask and read all its bits at the latency chosen last.
StatusTruthful == Success => \A g \in Groups : MaskOk(g, scc.live[g], phy.rlat)

\* What calibration can be asked for: an enable window of three phases up to all
\* but two cycles of the ring, some phase that does not cut the burst, an offset
\* at which all bits can be read, eyes the output delays can reach with the strobe
\* at rest, and a latency within the start value.
GoodEye(e) ==
    /\ e.en.len \in (3 * PtapDelay)..((VfifoSize - 2) * CycleDelay)
    /\ e.cut # Phases
    /\ \E o \in (- DqsInMax)..(InMax - DqsInReserve) : \A b \in Dq : Within(o, e.rd[b])
    /\ \A i \in {e.wr[b] : b \in Dq} \cup {e.dm} :
          \E o \in (- DqsOutReserve)..(OutMax - DqsOutReserve) : Within(o, i)
    /\ Within(DqsOutReserve, e.ck)
    /\ e.lat <= StartLatency

\* No good board is reported bad.
GoodBoardPasses == phy.status = "fail" => \E g \in DOMAIN eye : ~ GoodEye(eye[g])

\* The latency left in the PHY is one more than the slowest group needs.
LatencyMargin == Success => phy.rlat = Max({1} \cup {eye[g].lat : g \in Groups}) + 1

\* What set_failing_group_stage asserts of the group it records: a failure report
\* names a group of the interface.  The code passes it the number of a pin when an
\* edge is missing and 255 when the latency search fails.
FailingGroupNamed == phy.status = "fail" => regs.failing[3] \in Groups

\* How far into its window the enable of group g is.
EnableOffset(g) ==
    (EnTime(vfifo[g], scc.live[g].bus.enPhase, scc.live[g].bus.enDelay) - eye[g].en.lo) % Ring

\* Windows the search can centre in: four phases up to nearly two cycles.
CentredLengths == (4 * PtapDelay)..(2 * CycleDelay - PtapDelay - 1)

\* The enable ends up within a phase of the middle of such a window, in spite of
\* phase 0 being skipped and of the wrap-around of the VFIFO.
EnableCentred ==
    Success => \A g \in Groups : eye[g].en.len \in CentredLengths =>
        EnableOffset(g) - eye[g].en.len \div 2 \in (- PtapDelay)..PtapDelay

\* The taps per phase measured for the tracker are right to one tap.
TapsMeasured ==
    Success /\ eye[NumGroups - 1].en.len \in CentredLengths =>
        regs.dtaps \in DtapsPerPtap..(DtapsPerPtap + 1)

\* Setting q is in the middle of i, to a tap.
Middle(q, i) == (i.hi - q) - (q - i.lo) \in -1..1

\* Groups the loop has left behind.
Calibrated == IF Success THEN Groups ELSE {g \in Groups : g < fw.g}

\* The part of an eye that lies within the sweeps is centred, and stays so while
\* later groups use the same registers: a bit is off centre only if its delay is
\* at an end, or its eye reaches beyond what was swept.
EyesCentred ==
    \A g \in Calibrated, b \in Dq :
        LET l == scc.live[g]
        IN  /\ \/ Middle(l.pins.dqIn[b] - l.bus.dqsIn, eye[g].rd[b])
               \/ l.pins.dqIn[b] \in {0, InMax}
               \/ eye[g].rd[b].hi > InMax - l.bus.dqsIn \/ eye[g].rd[b].lo < - DqsInMax
            /\ \/ Middle(l.pins.dqOut[b] - l.pins.dqsOut, eye[g].wr[b])
               \/ l.pins.dqOut[b] \in {0, OutMax}
               \/ eye[g].wr[b].hi > OutMax - l.pins.dqsOut

\* Settings exist in the chains and are in the middle of what they select: the
\* enable of its window, each pin of its eye, the latency above the slowest
\* group, the tracker's step a phase long.
SettingsInv == TypeOK /\ EnableCentred /\ TapsMeasured /\ EyesCentred /\ LatencyMargin

\* Every retry loop ends and the firmware reports, whatever the hardware answers.
Reports == <>(pc = "done")
=============================================================================
