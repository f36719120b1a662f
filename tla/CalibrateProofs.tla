-------------------------- MODULE CalibrateProofs ---------------------------
(***************************************************************************)
(* Proofs about MemCalibrate: the memory device is driven as it demands    *)
(* from the first command to the handoff, by one master at a time, and is  *)
(* left as the controller expects it, whatever the tests in between say.   *)
(*                                                                         *)
(* Nothing here depends on what the searches and sweeps compute: their     *)
(* operators stay unexpanded, and so the theorem holds for every board.    *)
(***************************************************************************)
EXTENDS MemCalibrate, TLAPS

-----------------------------------------------------------------------------
(* The commands a function leaves in the queue, and what is left of them.  *)

InitCommands ==
    <<Op("reset"), Op("stable"), Op("release"), WaitClocks(250),
      Op("mrs2"), WaitClocks(4), Op("mrs3"), WaitClocks(4), Op("mrs1"),
      Op("mrs0_dll"), Op("zqcl"), WaitClocks(512)>>

HandoffCommands ==
    <<Op("precharge"), Op("mrs2"), WaitClocks(4), Op("mrs3"), WaitClocks(4),
      Op("mrs1"), WaitClocks(4), Op("mrs0_user")>>

\* The last n commands of s.
LastOf(s, n) == [i \in 1..n |-> s[Len(s) - n + i]]

\* A queue with n commands of s left.
Left(s, n) == n \in 0..Len(s) /\ cmds = LastOf(s, n)

-----------------------------------------------------------------------------
(* The inductive invariant.                                                *)

\* The fields that the steps of the firmware keep exist, and so do the device's.
FieldsInv ==
    /\ "cfg" \in DOMAIN fw /\ "trk" \in DOMAIN regs
    /\ {"mux", "rom", "ctrl"} \subseteq DOMAIN phy

DeviceFields ==
    dev = [stable |-> dev.stable, held |-> dev.held, running |-> dev.running,
           modes |-> dev.modes, burst |-> dev.burst, zq |-> dev.zq, open |-> dev.open,
           settle |-> dev.settle]

\* The places of the program, in the order in which it comes to them.
Entry == {"reg_file", "hps_phy", "scc", "tracking", "rom", "run"}

Calibrating == {"vfifo", "dqs", "vfifo_done", "writes", "vfifo_end", "lfifo", "lfifo_test",
                "lfifo_done", "finish"}

Driving == {"mem_init", "mem_config", "group", "handoff", "release"} \cup Calibrating

Handed == {"report", "done"}

\* Who drives the memory, and what has been set up so far.
MasterInv ==
    /\ pc \in Entry \cup Driving \cup Handed
    /\ pc \in Entry => phy.mux = 0 /\ ctl
    /\ pc \in Driving => phy.mux = 3 /\ ~ ctl
    /\ pc \in Handed => phy.mux = 2 /\ ctl
    /\ pc \in Driving \cup Handed => fw.cfg
    /\ pc \in {"run"} \cup Driving \cup Handed => phy.rom
    /\ pc \notin {"reg_file", "hps_phy"} => phy.ctrl
    /\ pc \notin {"reg_file", "hps_phy", "scc", "tracking"} => regs.trk

\* The device during rw_mgr_mem_initialize, n commands before its end.
InitStage(n) ==
    /\ n \in {10, 11} => dev.held
    /\ n = 10 => dev.stable
    /\ n < 12 => ~ dev.open
    /\ n < 10 => dev.running
    /\ n \in {0, 2, 3, 4, 5, 6, 7, 8, 10, 11} => dev.settle = 0
    /\ n = 9 => dev.settle = TXpr
    /\ n = 1 => dev.settle = TZqInit
    /\ n < 8 => "mrs2" \in dev.modes
    /\ n < 6 => "mrs3" \in dev.modes
    /\ n < 4 => "mrs1" \in dev.modes
    /\ n < 3 => dev.burst # "none"
    /\ n < 2 => dev.zq

\* Initialised, with nothing to wait for.
DeviceUp ==
    /\ dev.running /\ dev.zq /\ dev.settle = 0
    /\ "mrs1" \in dev.modes /\ "mrs2" \in dev.modes /\ "mrs3" \in dev.modes
    /\ dev.burst # "none"

\* The banks are being opened, with n commands to go.
OpenStage(n) ==
    /\ DeviceUp
    /\ n = 1 => ~ dev.open
    /\ n = 0 => dev.open

\* The handoff, n commands before its end.
HandoffStage(n) ==
    /\ DeviceUp
    /\ n < 8 => ~ dev.open
    /\ n = 0 => dev.burst = "mrs0_user"

\* What is queued, and what the device has been told so far.
QueueInv ==
    /\ pc \in Entry => cmds = << >>
    /\ pc = "mem_init" => cmds \in {<<Op("unstable")>>, << >>}
    /\ pc = "mem_config" => \E n \in 0..12 : Left(InitCommands, n) /\ InitStage(n)
    /\ pc \in {"group", "handoff"} =>
          \E n \in 0..2 : Left(PrechargeAndActivate, n) /\ OpenStage(n)
    /\ pc \in Calibrating => cmds = << >> /\ OpenStage(0)
    /\ pc = "release" => \E n \in 0..8 : Left(HandoffCommands, n) /\ HandoffStage(n)
    /\ pc \in Handed => cmds = << >> /\ HandoffStage(0)

BoardInv == FieldsInv /\ DeviceFields /\ MasterInv /\ QueueInv

-----------------------------------------------------------------------------
(* Queues.                                                                 *)

\* A whole queue, an empty one, and what taking a command leaves.
LEMMA QueueShrinks ==
  ASSUME NEW S, NEW s \in Seq(S)
  PROVE  /\ LastOf(s, Len(s)) = s
         /\ LastOf(s, 0) = << >>
         /\ \A n \in 1..Len(s) : /\ LastOf(s, n) # << >>
                                 /\ Head(LastOf(s, n)) \in S
                                 /\ Head(LastOf(s, n)) \in S
             /\ Head(LastOf(s, n)) = s[Len(s) - n + 1]
                                 /\ Tail(LastOf(s, n)) = LastOf(s, n - 1)
<1>1. LastOf(s, Len(s)) = s
  BY DEF LastOf
<1>2. LastOf(s, 0) = << >>
  BY DEF LastOf
<1>3. ASSUME NEW n \in 1..Len(s)
      PROVE  /\ LastOf(s, n) # << >>
             /\ Head(LastOf(s, n)) \in S
             /\ Head(LastOf(s, n)) = s[Len(s) - n + 1]
             /\ Tail(LastOf(s, n)) = LastOf(s, n - 1)
  <2>1. LastOf(s, n) \in Seq(S) /\ Len(LastOf(s, n)) = n
    <3>1. \A i \in 1..n : Len(s) - n + i \in 1..Len(s)
      OBVIOUS
    <3>2. \A i \in 1..n : s[Len(s) - n + i] \in S
      BY <3>1
    <3> QED
      BY <3>2 DEF LastOf
  <2>2. Head(LastOf(s, n)) = s[Len(s) - n + 1]
    BY <2>1 DEF LastOf
  <2>3. Tail(LastOf(s, n)) = LastOf(s, n - 1)
    <3> DEFINE t == Tail(LastOf(s, n))
    <3>1. t \in Seq(S) /\ Len(t) = n - 1
      BY <2>1
    <3>2. ASSUME NEW i \in 1..(n - 1) PROVE t[i] = s[Len(s) - (n - 1) + i]
      <4>1. t[i] = LastOf(s, n)[i + 1]
        BY <2>1
      <4> QED
        BY <4>1 DEF LastOf
    <3> QED
      BY <3>1, <3>2 DEF LastOf
  <2> QED
    BY <2>1, <2>2, <2>3
<1> QED
  BY <1>1, <1>2, <1>3

Commands == {"wait", "reset", "stable", "unstable", "release", "mrs0_dll", "mrs0_user", "mrs1",
             "mrs2", "mrs3", "zqcl", "precharge", "activate"} \X Nat

LEMMA InitCommandsAre ==
  /\ InitCommands \in Seq(Commands) /\ Len(InitCommands) = 12
  /\ InitCommands[1] = Op("reset") /\ InitCommands[2] = Op("stable")
  /\ InitCommands[3] = Op("release") /\ InitCommands[4] = WaitClocks(250)
  /\ InitCommands[5] = Op("mrs2") /\ InitCommands[6] = WaitClocks(4)
  /\ InitCommands[7] = Op("mrs3") /\ InitCommands[8] = WaitClocks(4)
  /\ InitCommands[9] = Op("mrs1") /\ InitCommands[10] = Op("mrs0_dll")
  /\ InitCommands[11] = Op("zqcl") /\ InitCommands[12] = WaitClocks(512)
BY DEF InitCommands, Commands, Op, WaitClocks

LEMMA HandoffCommandsAre ==
  /\ HandoffCommands \in Seq(Commands) /\ Len(HandoffCommands) = 8
  /\ HandoffCommands[1] = Op("precharge") /\ HandoffCommands[2] = Op("mrs2")
  /\ HandoffCommands[3] = WaitClocks(4) /\ HandoffCommands[4] = Op("mrs3")
  /\ HandoffCommands[5] = WaitClocks(4) /\ HandoffCommands[6] = Op("mrs1")
  /\ HandoffCommands[7] = WaitClocks(4) /\ HandoffCommands[8] = Op("mrs0_user")
BY DEF HandoffCommands, Commands, Op, WaitClocks

LEMMA OpenCommandsAre ==
  /\ PrechargeAndActivate \in Seq(Commands) /\ Len(PrechargeAndActivate) = 2
  /\ PrechargeAndActivate[1] = Op("precharge") /\ PrechargeAndActivate[2] = Op("activate")
BY DEF PrechargeAndActivate, Commands, Op

\* The first of n commands left, and what is left behind it.
LEMMA QueueHead ==
  ASSUME NEW s \in Seq(Commands), NEW n \in 1..Len(s), Left(s, n)
  PROVE  /\ cmds # << >>
         /\ Head(cmds) \in Commands
         /\ Head(cmds) = s[Len(s) - n + 1]
         /\ cmds' = Tail(cmds) => Left(s, n - 1)'
<1>1. cmds = LastOf(s, n)
  BY DEF Left
<1>2. n - 1 \in 0..Len(s)
  OBVIOUS
<1>3. /\ LastOf(s, n) # << >>
      /\ Head(LastOf(s, n)) \in Commands
      /\ Head(LastOf(s, n)) = s[Len(s) - n + 1]
      /\ Tail(LastOf(s, n)) = LastOf(s, n - 1)
  BY QueueShrinks
<1>4. cmds' = Tail(cmds) => Left(s, n - 1)'
  BY ONLY <1>1, <1>2, <1>3 DEF Left
<1> QED
  BY ONLY <1>1, <1>3, <1>4

LEMMA QueueEnds ==
  ASSUME NEW s \in Seq(Commands), Left(s, 0)
  PROVE  cmds = << >>
BY QueueShrinks DEF Left

LEMMA QueueFills ==
  ASSUME NEW s \in Seq(Commands), cmds' = s
  PROVE  Left(s, Len(s))'
<1>1. Len(s) \in 0..Len(s)
  OBVIOUS
<1> QED
  BY <1>1, QueueShrinks DEF Left

-----------------------------------------------------------------------------
(* The device.                                                             *)

\* What command c changes; the other fields stay.
Effect(c) ==
    /\ c[1] = "reset" => dev'.held /\ ~ dev'.open /\ dev'.settle = 0
    /\ c[1] # "reset" =>
         /\ IF c[1] = "activate" THEN dev'.open
            ELSE IF c[1] = "precharge" THEN ~ dev'.open ELSE dev'.open = dev.open
         /\ IF c[1] = "release" THEN dev'.running
            ELSE dev'.held = dev.held /\ dev'.running = dev.running
         /\ IF c[1] = "zqcl" THEN dev'.zq ELSE dev'.zq = dev.zq
         /\ dev'.burst = IF c[1] \in {"mrs0_dll", "mrs0_user"} THEN c[1] ELSE dev.burst
         /\ dev'.modes = IF c[1] \in {"mrs1", "mrs2", "mrs3"} THEN dev.modes \cup {c[1]}
                         ELSE dev.modes
    /\ c[1] = "stable" => dev'.stable
    /\ c[1] = "release" => dev'.settle = TXpr
    /\ c[1] = "zqcl" => dev'.settle = TZqInit
    /\ c[1] = "wait" => dev'.settle = IF dev.settle <= c[2] THEN 0 ELSE dev.settle - c[2]
    /\ c[1] \in ModeRegisters \cup {"activate", "precharge", "stable", "unstable"} =>
         dev'.settle = dev.settle

LEMMA DeviceObeys ==
  ASSUME DeviceFields, NEW c \in Commands, dev' = Obey(dev, c)
  PROVE  DeviceFields' /\ Effect(c)
<1>1. c[1] \in {"wait", "reset", "stable", "unstable", "release", "mrs0_dll", "mrs0_user", "mrs1",
               "mrs2", "mrs3", "zqcl", "precharge", "activate"}
  BY DEF Commands
<1>2. CASE c[1] = "wait"
  BY <1>2 DEF Effect, Obey, DeviceFields, ModeRegisters
<1>3. CASE c[1] = "reset"
  BY <1>3 DEF Effect, Obey, DeviceFields, DeviceOff, ModeRegisters
<1>4. CASE c[1] = "stable"
  BY <1>4 DEF Effect, Obey, DeviceFields, ModeRegisters
<1>5. CASE c[1] = "unstable"
  BY <1>5 DEF Effect, Obey, DeviceFields, ModeRegisters
<1>6. CASE c[1] = "release"
  BY <1>6 DEF Effect, Obey, DeviceFields, ModeRegisters
<1>7. CASE c[1] = "mrs0_dll"
  BY <1>7 DEF Effect, Obey, DeviceFields, ModeRegisters
<1>8. CASE c[1] = "mrs0_user"
  BY <1>8 DEF Effect, Obey, DeviceFields, ModeRegisters
<1>9. CASE c[1] \in {"mrs1", "mrs2", "mrs3"}
  BY <1>9 DEF Effect, Obey, DeviceFields, ModeRegisters
<1>10. CASE c[1] = "zqcl"
  BY <1>10 DEF Effect, Obey, DeviceFields, ModeRegisters
<1>11. CASE c[1] = "precharge"
  BY <1>11 DEF Effect, Obey, DeviceFields, ModeRegisters
<1>12. CASE c[1] = "activate"
  BY <1>12 DEF Effect, Obey, DeviceFields, ModeRegisters
<1> QED
  BY ONLY <1>1, <1>2, <1>3, <1>4, <1>5, <1>6, <1>7, <1>8, <1>9, <1>10, <1>11, <1>12

\* rw_mgr_mem_initialize: the device can take the next command, and doing so
\* brings it to the next stage.
LEMMA InitCommandTaken ==
  ASSUME DeviceFields, NEW n \in 1..12, Left(InitCommands, n), InitStage(n)
  PROVE  /\ cmds # << >> /\ Legal(dev, Head(cmds))
         /\ DeviceStep =>
              DeviceFields' /\ Left(InitCommands, n - 1)' /\ InitStage(n - 1)'
<1> DEFINE c == Head(cmds)
<1>1. InitCommands \in Seq(Commands) /\ Len(InitCommands) = 12
  BY InitCommandsAre
<1>2. /\ cmds # << >> /\ c = InitCommands[12 - n + 1] /\ c \in Commands
      /\ cmds' = Tail(cmds) => Left(InitCommands, n - 1)'
  BY <1>1, QueueHead
<1>3. DeviceStep => cmds' = Tail(cmds) /\ DeviceFields' /\ Effect(c)
  BY <1>2, DeviceObeys DEF DeviceStep
<1>4. Legal(dev, c) /\ (Effect(c) => InitStage(n - 1)')
  <2>1. CASE n = 12
    <3>1. c[1] = "reset"
      BY <1>2, <2>1, InitCommandsAre DEF Op
    <3> HIDE DEF c
    <3> QED
      BY ONLY InitStage(n), <2>1, <3>1 DEF Legal, Effect, InitStage, Configured, TXpr, TZqInit, ModeRegisters
  <2>2. CASE n = 11
    <3>1. c[1] = "stable"
      BY <1>2, <2>2, InitCommandsAre DEF Op
    <3> HIDE DEF c
    <3> QED
      BY ONLY InitStage(n), <2>2, <3>1 DEF Legal, Effect, InitStage, Configured, TXpr, TZqInit, ModeRegisters
  <2>3. CASE n = 10
    <3>1. c[1] = "release"
      BY <1>2, <2>3, InitCommandsAre DEF Op
    <3> HIDE DEF c
    <3> QED
      BY ONLY InitStage(n), <2>3, <3>1 DEF Legal, Effect, InitStage, Configured, TXpr, TZqInit, ModeRegisters
  <2>4. CASE n = 9
    <3>1. c[1] = "wait" /\ c[2] = 250
      BY <1>2, <2>4, InitCommandsAre DEF WaitClocks
    <3> HIDE DEF c
    <3> QED
      BY ONLY InitStage(n), <2>4, <3>1 DEF Legal, Effect, InitStage, Configured, TXpr, TZqInit, ModeRegisters
  <2>5. CASE n = 8
    <3>1. c[1] = "mrs2"
      BY <1>2, <2>5, InitCommandsAre DEF Op
    <3> HIDE DEF c
    <3> QED
      BY ONLY InitStage(n), <2>5, <3>1 DEF Legal, Effect, InitStage, Configured, TXpr, TZqInit, ModeRegisters
  <2>6. CASE n = 7
    <3>1. c[1] = "wait" /\ c[2] = 4
      BY <1>2, <2>6, InitCommandsAre DEF WaitClocks
    <3> HIDE DEF c
    <3> QED
      BY ONLY InitStage(n), <2>6, <3>1 DEF Legal, Effect, InitStage, Configured, TXpr, TZqInit, ModeRegisters
  <2>7. CASE n = 6
    <3>1. c[1] = "mrs3"
      BY <1>2, <2>7, InitCommandsAre DEF Op
    <3> HIDE DEF c
    <3> QED
      BY ONLY InitStage(n), <2>7, <3>1 DEF Legal, Effect, InitStage, Configured, TXpr, TZqInit, ModeRegisters
  <2>8. CASE n = 5
    <3>1. c[1] = "wait" /\ c[2] = 4
      BY <1>2, <2>8, InitCommandsAre DEF WaitClocks
    <3> HIDE DEF c
    <3> QED
      BY ONLY InitStage(n), <2>8, <3>1 DEF Legal, Effect, InitStage, Configured, TXpr, TZqInit, ModeRegisters
  <2>9. CASE n = 4
    <3>1. c[1] = "mrs1"
      BY <1>2, <2>9, InitCommandsAre DEF Op
    <3> HIDE DEF c
    <3> QED
      BY ONLY InitStage(n), <2>9, <3>1 DEF Legal, Effect, InitStage, Configured, TXpr, TZqInit, ModeRegisters
  <2>10. CASE n = 3
    <3>1. c[1] = "mrs0_dll"
      BY <1>2, <2>10, InitCommandsAre DEF Op
    <3> HIDE DEF c
    <3> QED
      BY ONLY InitStage(n), <2>10, <3>1 DEF Legal, Effect, InitStage, Configured, TXpr, TZqInit, ModeRegisters
  <2>11. CASE n = 2
    <3>1. c[1] = "zqcl"
      BY <1>2, <2>11, InitCommandsAre DEF Op
    <3> HIDE DEF c
    <3> QED
      BY ONLY InitStage(n), <2>11, <3>1 DEF Legal, Effect, InitStage, Configured, TXpr, TZqInit, ModeRegisters
  <2>12. CASE n = 1
    <3>1. c[1] = "wait" /\ c[2] = 512
      BY <1>2, <2>12, InitCommandsAre DEF WaitClocks
    <3> HIDE DEF c
    <3> QED
      BY ONLY InitStage(n), <2>12, <3>1 DEF Legal, Effect, InitStage, Configured, TXpr, TZqInit, ModeRegisters
  <2> QED
    BY <2>1, <2>2, <2>3, <2>4, <2>5, <2>6, <2>7, <2>8, <2>9, <2>10, <2>11, <2>12
<1> QED
  BY <1>2, <1>3, <1>4

\* An initialised device stays so.
LEMMA UpStays ==
  ASSUME NEW c \in Commands, DeviceUp, Effect(c),
         c[1] \in ModeRegisters \cup {"wait", "precharge", "activate"}
  PROVE  DeviceUp'
<1>1. dev'.settle = 0
  BY DEF Effect, DeviceUp, ModeRegisters, Commands
<1> QED
  BY <1>1 DEF Effect, DeviceUp, ModeRegisters

\* precharge_and_activate: likewise.
LEMMA OpenCommandTaken ==
  ASSUME DeviceFields, NEW n \in 1..2, Left(PrechargeAndActivate, n), OpenStage(n)
  PROVE  /\ cmds # << >> /\ Legal(dev, Head(cmds))
         /\ DeviceStep =>
              DeviceFields' /\ Left(PrechargeAndActivate, n - 1)' /\ OpenStage(n - 1)'
<1> DEFINE c == Head(cmds)
<1>1. PrechargeAndActivate \in Seq(Commands) /\ Len(PrechargeAndActivate) = 2
  BY OpenCommandsAre
<1>2. /\ cmds # << >> /\ c = PrechargeAndActivate[2 - n + 1] /\ c \in Commands
      /\ cmds' = Tail(cmds) => Left(PrechargeAndActivate, n - 1)'
  BY <1>1, QueueHead
<1>3. DeviceStep => cmds' = Tail(cmds) /\ DeviceFields' /\ Effect(c)
  BY <1>2, DeviceObeys DEF DeviceStep
<1>4. Legal(dev, c) /\ (Effect(c) => OpenStage(n - 1)')
  <2>1. CASE n = 2
    <3>1. c[1] = "precharge"
      BY <1>2, <2>1, OpenCommandsAre DEF Op
    <3> HIDE DEF c
    <3>2. Legal(dev, c)
      BY ONLY OpenStage(n), <2>1, <3>1 DEF Legal, OpenStage, DeviceUp, Configured, ModeRegisters
    <3>3. Effect(c) => DeviceUp'
      BY <1>2, <3>1, UpStays DEF OpenStage, ModeRegisters
    <3> QED
      BY ONLY OpenStage(n), <2>1, <3>1, <3>2, <3>3 DEF Effect, OpenStage
  <2>2. CASE n = 1
    <3>1. c[1] = "activate"
      BY <1>2, <2>2, OpenCommandsAre DEF Op
    <3> HIDE DEF c
    <3>2. Legal(dev, c)
      BY ONLY OpenStage(n), <2>2, <3>1 DEF Legal, OpenStage, DeviceUp, Configured, ModeRegisters
    <3>3. Effect(c) => DeviceUp'
      BY <1>2, <3>1, UpStays DEF OpenStage, ModeRegisters
    <3> QED
      BY ONLY OpenStage(n), <2>2, <3>1, <3>2, <3>3 DEF Effect, OpenStage
  <2> QED
    BY <2>1, <2>2
<1> QED
  BY <1>2, <1>3, <1>4

\* rw_mgr_mem_handoff: likewise.
LEMMA HandoffCommandTaken ==
  ASSUME DeviceFields, NEW n \in 1..8, Left(HandoffCommands, n), HandoffStage(n)
  PROVE  /\ cmds # << >> /\ Legal(dev, Head(cmds))
         /\ DeviceStep =>
              DeviceFields' /\ Left(HandoffCommands, n - 1)' /\ HandoffStage(n - 1)'
<1> DEFINE c == Head(cmds)
<1>1. HandoffCommands \in Seq(Commands) /\ Len(HandoffCommands) = 8
  BY HandoffCommandsAre
<1>2. /\ cmds # << >> /\ c = HandoffCommands[8 - n + 1] /\ c \in Commands
      /\ cmds' = Tail(cmds) => Left(HandoffCommands, n - 1)'
  BY <1>1, QueueHead
<1>3. DeviceStep => cmds' = Tail(cmds) /\ DeviceFields' /\ Effect(c)
  BY <1>2, DeviceObeys DEF DeviceStep
<1>4. Legal(dev, c) /\ (Effect(c) => HandoffStage(n - 1)')
  <2>1. CASE n = 8
    <3>1. c[1] = "precharge"
      BY <1>2, <2>1, HandoffCommandsAre DEF Op
    <3> HIDE DEF c
    <3>2. Legal(dev, c)
      BY ONLY HandoffStage(n), <2>1, <3>1 DEF Legal, HandoffStage, DeviceUp, Configured, ModeRegisters
    <3>3. Effect(c) => DeviceUp'
      BY <1>2, <3>1, UpStays DEF HandoffStage, ModeRegisters
    <3> QED
      BY ONLY HandoffStage(n), <2>1, <3>1, <3>2, <3>3 DEF Effect, HandoffStage
  <2>2. CASE n = 7
    <3>1. c[1] = "mrs2"
      BY <1>2, <2>2, HandoffCommandsAre DEF Op
    <3> HIDE DEF c
    <3>2. Legal(dev, c)
      BY ONLY HandoffStage(n), <2>2, <3>1 DEF Legal, HandoffStage, DeviceUp, Configured, ModeRegisters
    <3>3. Effect(c) => DeviceUp'
      BY <1>2, <3>1, UpStays DEF HandoffStage, ModeRegisters
    <3> QED
      BY ONLY HandoffStage(n), <2>2, <3>1, <3>2, <3>3 DEF Effect, HandoffStage
  <2>3. CASE n = 6
    <3>1. c[1] = "wait" /\ c[2] = 4
      BY <1>2, <2>3, HandoffCommandsAre DEF WaitClocks
    <3> HIDE DEF c
    <3>2. Legal(dev, c)
      BY ONLY HandoffStage(n), <2>3, <3>1 DEF Legal, HandoffStage, DeviceUp, Configured, ModeRegisters
    <3>3. Effect(c) => DeviceUp'
      BY <1>2, <3>1, UpStays DEF HandoffStage, ModeRegisters
    <3> QED
      BY ONLY HandoffStage(n), <2>3, <3>1, <3>2, <3>3 DEF Effect, HandoffStage
  <2>4. CASE n = 5
    <3>1. c[1] = "mrs3"
      BY <1>2, <2>4, HandoffCommandsAre DEF Op
    <3> HIDE DEF c
    <3>2. Legal(dev, c)
      BY ONLY HandoffStage(n), <2>4, <3>1 DEF Legal, HandoffStage, DeviceUp, Configured, ModeRegisters
    <3>3. Effect(c) => DeviceUp'
      BY <1>2, <3>1, UpStays DEF HandoffStage, ModeRegisters
    <3> QED
      BY ONLY HandoffStage(n), <2>4, <3>1, <3>2, <3>3 DEF Effect, HandoffStage
  <2>5. CASE n = 4
    <3>1. c[1] = "wait" /\ c[2] = 4
      BY <1>2, <2>5, HandoffCommandsAre DEF WaitClocks
    <3> HIDE DEF c
    <3>2. Legal(dev, c)
      BY ONLY HandoffStage(n), <2>5, <3>1 DEF Legal, HandoffStage, DeviceUp, Configured, ModeRegisters
    <3>3. Effect(c) => DeviceUp'
      BY <1>2, <3>1, UpStays DEF HandoffStage, ModeRegisters
    <3> QED
      BY ONLY HandoffStage(n), <2>5, <3>1, <3>2, <3>3 DEF Effect, HandoffStage
  <2>6. CASE n = 3
    <3>1. c[1] = "mrs1"
      BY <1>2, <2>6, HandoffCommandsAre DEF Op
    <3> HIDE DEF c
    <3>2. Legal(dev, c)
      BY ONLY HandoffStage(n), <2>6, <3>1 DEF Legal, HandoffStage, DeviceUp, Configured, ModeRegisters
    <3>3. Effect(c) => DeviceUp'
      BY <1>2, <3>1, UpStays DEF HandoffStage, ModeRegisters
    <3> QED
      BY ONLY HandoffStage(n), <2>6, <3>1, <3>2, <3>3 DEF Effect, HandoffStage
  <2>7. CASE n = 2
    <3>1. c[1] = "wait" /\ c[2] = 4
      BY <1>2, <2>7, HandoffCommandsAre DEF WaitClocks
    <3> HIDE DEF c
    <3>2. Legal(dev, c)
      BY ONLY HandoffStage(n), <2>7, <3>1 DEF Legal, HandoffStage, DeviceUp, Configured, ModeRegisters
    <3>3. Effect(c) => DeviceUp'
      BY <1>2, <3>1, UpStays DEF HandoffStage, ModeRegisters
    <3> QED
      BY ONLY HandoffStage(n), <2>7, <3>1, <3>2, <3>3 DEF Effect, HandoffStage
  <2>8. CASE n = 1
    <3>1. c[1] = "mrs0_user"
      BY <1>2, <2>8, HandoffCommandsAre DEF Op
    <3> HIDE DEF c
    <3>2. Legal(dev, c)
      BY ONLY HandoffStage(n), <2>8, <3>1 DEF Legal, HandoffStage, DeviceUp, Configured, ModeRegisters
    <3>3. Effect(c) => DeviceUp'
      BY <1>2, <3>1, UpStays DEF HandoffStage, ModeRegisters
    <3> QED
      BY ONLY HandoffStage(n), <2>8, <3>1, <3>2, <3>3 DEF Effect, HandoffStage
  <2> QED
    BY <2>1, <2>2, <2>3, <2>4, <2>5, <2>6, <2>7, <2>8
<1> QED
  BY <1>2, <1>3, <1>4

-----------------------------------------------------------------------------
(* The steps of the firmware.                                              *)

LEMMA BoardStarts == Init => BoardInv
<1> SUFFICES ASSUME Init PROVE BoardInv
  OBVIOUS
<1>1. FieldsInv
  BY DEF Init, FieldsInv
<1>2. DeviceFields
  BY DEF Init, DeviceFields, DeviceOff
<1>3. MasterInv
  BY DEF Init, MasterInv, Entry, Driving, Calibrating, Handed
<1>4. QueueInv
  BY DEF Init, QueueInv, Entry, Calibrating, Handed
<1> QED
  BY <1>1, <1>2, <1>3, <1>4 DEF BoardInv

LEMMA EntryStep ==
  ASSUME BoardInv,
         \/ InitializeRegFile \/ InitializeHpsPhy \/ SccMgrInitialize
         \/ InitializeTracking \/ InitializeRomData
  PROVE  BoardInv'
<1> USE DEF BoardInv
<1>1. /\ pc \in Entry /\ pc' \in Entry /\ cmds' = << >> /\ UNCHANGED <<fw, ctl, dev>>
      /\ FieldsInv' /\ phy'.mux = phy.mux
      /\ phy.ctrl => phy'.ctrl
      /\ regs.trk => regs'.trk
      /\ pc' = "run" => phy'.rom
      /\ pc' \notin {"reg_file", "hps_phy"} => phy'.ctrl
      /\ pc' \notin {"reg_file", "hps_phy", "scc", "tracking"} => regs'.trk
  <2>1. CASE InitializeRegFile
    BY <2>1 DEF InitializeRegFile, At, KeepBoard, FieldsInv, MasterInv, Entry
  <2>2. CASE InitializeHpsPhy
    BY <2>2 DEF InitializeHpsPhy, At, KeepBoard, FieldsInv, MasterInv, Entry
  <2>3. CASE SccMgrInitialize
    BY <2>3 DEF SccMgrInitialize, At, KeepBoard, FieldsInv, MasterInv, Entry
  <2>4. CASE InitializeTracking
    BY <2>4 DEF InitializeTracking, At, KeepBoard, FieldsInv, MasterInv, Entry
  <2>5. CASE InitializeRomData
    BY <2>5 DEF InitializeRomData, At, KeepBoard, FieldsInv, MasterInv, Entry, SetGroup
  <2> QED
    BY <2>1, <2>2, <2>3, <2>4, <2>5
<1>2. DeviceFields'
  BY <1>1 DEF DeviceFields
<1>3. MasterInv'
  BY <1>1 DEF MasterInv, Entry, Driving, Calibrating, Handed
<1>4. QueueInv'
  BY <1>1 DEF QueueInv, Entry, Calibrating, Handed
<1> QED
  BY <1>1, <1>2, <1>3, <1>4

\* What the places of the group loop and of the latency search share: they leave
\* the master, the device and the tracker alone.
Steady ==
    /\ phy'.mux = phy.mux /\ phy'.rom = phy.rom /\ phy'.ctrl = phy.ctrl
    /\ fw'.cfg = fw.cfg /\ regs'.trk = regs.trk
    /\ FieldsInv'
    /\ cmds = << >> /\ UNCHANGED <<ctl, dev, cmds>>

LEMMA TestsAreSteady ==
  ASSUME FieldsInv,
         \/ GroupStart \/ VfifoTry \/ DqsTry \/ VfifoDone \/ CalibrateWrites
         \/ CalibrateVfifoEnd \/ LfifoStart \/ LfifoTest \/ LfifoDone
  PROVE  /\ Steady
         /\ pc \in {"group"} \cup Calibrating /\ pc' \in {"group"} \cup Calibrating
<1> USE DEF FieldsInv, Steady, At, KeepBoard, Calibrating
<1>1. CASE GroupStart
  BY <1>1 DEF GroupStart, SetGroup, SetStage
<1>2. CASE VfifoTry
  BY <1>2 DEF VfifoTry
<1>3. CASE DqsTry
  BY <1>3 DEF DqsTry
<1>4. CASE VfifoDone
  BY <1>4 DEF VfifoDone
<1>5. CASE CalibrateWrites
  BY <1>5 DEF CalibrateWrites, SetGroup, SetStage
<1>6. CASE CalibrateVfifoEnd
  BY <1>6 DEF CalibrateVfifoEnd, SetGroup, SetStage
<1>7. CASE LfifoStart
  BY <1>7 DEF LfifoStart, SetStage
<1>8. CASE LfifoTest
  BY <1>8 DEF LfifoTest
<1>9. CASE LfifoDone
  BY <1>9 DEF LfifoDone
<1> QED
  BY <1>1, <1>2, <1>3, <1>4, <1>5, <1>6, <1>7, <1>8, <1>9

\* Once the queue is empty the device has reached the last stage.
LEMMA LastStage ==
  ASSUME QueueInv, cmds = << >>
  PROVE  /\ pc = "mem_config" => InitStage(0)
         /\ pc \in {"group", "handoff"} \cup Calibrating => OpenStage(0)
         /\ pc = "release" => HandoffStage(0)
<1>1. ASSUME NEW s \in Seq(Commands), NEW n \in Nat, Left(s, n) PROVE n = 0
  <2>1. CASE n \in 1..Len(s)
    BY <1>1, <2>1, QueueHead
  <2> QED
    BY <1>1, <2>1 DEF Left
<1>2. ASSUME pc = "mem_config" PROVE InitStage(0)
  <2>1. PICK n \in 0..12 : Left(InitCommands, n) /\ InitStage(n)
    BY <1>2 DEF QueueInv
  <2>2. n = 0
    BY <1>1, <2>1, InitCommandsAre
  <2> QED
    BY <2>1, <2>2
<1>3. ASSUME pc \in {"group", "handoff"} PROVE OpenStage(0)
  <2>1. PICK n \in 0..2 : Left(PrechargeAndActivate, n) /\ OpenStage(n)
    BY <1>3 DEF QueueInv
  <2>2. n = 0
    BY <1>1, <2>1, OpenCommandsAre
  <2> QED
    BY <2>1, <2>2
<1>4. ASSUME pc = "release" PROVE HandoffStage(0)
  <2>1. PICK n \in 0..8 : Left(HandoffCommands, n) /\ HandoffStage(n)
    BY <1>4 DEF QueueInv
  <2>2. n = 0
    BY <1>1, <2>1, HandoffCommandsAre
  <2> QED
    BY <2>1, <2>2
<1> QED
  BY <1>2, <1>3, <1>4 DEF QueueInv

LEMMA TestStep ==
  ASSUME BoardInv,
         \/ GroupStart \/ VfifoTry \/ DqsTry \/ VfifoDone \/ CalibrateWrites
         \/ CalibrateVfifoEnd \/ LfifoStart \/ LfifoTest \/ LfifoDone
  PROVE  BoardInv'
<1> USE DEF BoardInv
<1>1. /\ Steady
      /\ pc \in {"group"} \cup Calibrating /\ pc' \in {"group"} \cup Calibrating
  BY TestsAreSteady
<1>2. DeviceFields'
  BY <1>1 DEF DeviceFields, Steady
<1>3. MasterInv'
  BY <1>1 DEF MasterInv, Entry, Driving, Calibrating, Handed, Steady
<1>4. OpenStage(0)'
  BY <1>1, LastStage DEF OpenStage, DeviceUp, Steady
<1>5. cmds' = << >> /\ Left(PrechargeAndActivate, 0)'
  BY <1>1, QueueShrinks, OpenCommandsAre DEF Left, Steady
<1>6. QueueInv'
  BY <1>1, <1>4, <1>5 DEF QueueInv, Entry, Calibrating, Handed
<1> QED
  BY <1>1, <1>2, <1>3, <1>6 DEF Steady

LEMMA RunStep ==
  ASSUME BoardInv, RunMemCalibrate
  PROVE  BoardInv'
<1> USE DEF BoardInv, RunMemCalibrate, At, KeepBoard
<1>1. FieldsInv' /\ DeviceFields'
  BY DEF FieldsInv, DeviceFields
<1>2. MasterInv'
  BY DEF MasterInv, FieldsInv, Entry, Driving, Calibrating, Handed
<1>3. QueueInv'
  BY DEF QueueInv, Entry, Calibrating, Handed
<1> QED
  BY <1>1, <1>2, <1>3

LEMMA MemInitializeStep ==
  ASSUME BoardInv, RwMgrMemInitialize
  PROVE  BoardInv'
<1> USE DEF BoardInv, RwMgrMemInitialize, At, KeepBoard
<1>1. FieldsInv' /\ DeviceFields'
  BY DEF FieldsInv, DeviceFields
<1>2. MasterInv'
  BY DEF MasterInv, Entry, Driving, Calibrating, Handed
<1>3. Left(InitCommands, 12)'
  <2>1. cmds' = InitCommands
    BY DEF InitCommands
  <2> QED
    BY <2>1, QueueFills, InitCommandsAre
<1>4. InitStage(12)'
  BY DEF InitStage
<1>5. QueueInv'
  BY <1>3, <1>4 DEF QueueInv, Entry, Calibrating, Handed
<1> QED
  BY <1>1, <1>2, <1>5

LEMMA OpenStep ==
  ASSUME BoardInv, MemConfig \/ Finish
  PROVE  BoardInv'
<1> USE DEF BoardInv
<1>1. /\ cmds = << >> /\ cmds' = PrechargeAndActivate /\ UNCHANGED <<fw, regs, ctl, dev>>
      /\ phy'.mux = phy.mux /\ phy'.rom = phy.rom /\ phy'.ctrl = phy.ctrl
      /\ FieldsInv'
      /\ pc \in {"mem_config", "finish"} /\ pc' \in {"group", "handoff"}
  BY DEF FieldsInv, MemConfig, Finish, At, KeepBoard
<1>2. DeviceFields'
  BY <1>1 DEF DeviceFields
<1>3. MasterInv'
  BY <1>1 DEF MasterInv, Entry, Driving, Calibrating, Handed
<1>4. Left(PrechargeAndActivate, 2)'
  BY <1>1, QueueFills, OpenCommandsAre
<1>5. OpenStage(2)'
  <2>1. DeviceUp
    BY <1>1, LastStage DEF InitStage, OpenStage, DeviceUp, Calibrating
  <2> QED
    BY <1>1, <2>1 DEF OpenStage, DeviceUp
<1>6. QueueInv'
  BY <1>1, <1>4, <1>5 DEF QueueInv, Entry, Calibrating, Handed
<1> QED
  BY <1>1, <1>2, <1>3, <1>6

LEMMA HandoffStep ==
  ASSUME BoardInv, RwMgrMemHandoff
  PROVE  BoardInv'
<1> USE DEF BoardInv, RwMgrMemHandoff, At, KeepBoard
<1>1. FieldsInv' /\ DeviceFields'
  BY DEF FieldsInv, DeviceFields
<1>2. MasterInv'
  BY DEF MasterInv, Entry, Driving, Calibrating, Handed
<1>3. Left(HandoffCommands, 8)'
  <2>1. cmds' = HandoffCommands
    BY DEF HandoffCommands
  <2> QED
    BY <2>1, QueueFills, HandoffCommandsAre
<1>4. HandoffStage(8)'
  BY LastStage DEF OpenStage, HandoffStage, DeviceUp
<1>5. QueueInv'
  BY <1>3, <1>4 DEF QueueInv, Entry, Calibrating, Handed
<1> QED
  BY <1>1, <1>2, <1>5

LEMMA HandedStep ==
  ASSUME BoardInv, Release \/ Report
  PROVE  BoardInv'
<1> USE DEF BoardInv
<1>1. /\ cmds = << >> /\ cmds' = << >> /\ UNCHANGED <<fw, dev>>
      /\ phy'.rom = phy.rom /\ phy'.ctrl = phy.ctrl /\ regs'.trk = regs.trk
      /\ FieldsInv' /\ phy'.mux = 2 /\ ctl'
      /\ pc \in {"release", "report"} /\ pc' \in Handed
  BY DEF FieldsInv, MasterInv, Driving, Handed, Release, Report, At, KeepBoard
<1>2. DeviceFields'
  BY <1>1 DEF DeviceFields
<1>3. MasterInv'
  BY <1>1 DEF MasterInv, Entry, Driving, Calibrating, Handed
<1>4. HandoffStage(0)'
  <2>1. HandoffStage(0)
    BY <1>1, LastStage DEF QueueInv, Handed
  <2> QED
    BY <1>1, <2>1 DEF HandoffStage, DeviceUp
<1>5. QueueInv'
  BY <1>1, <1>4 DEF QueueInv, Entry, Calibrating, Handed
<1> QED
  BY <1>1, <1>2, <1>3, <1>5

\* The device takes a command only where one is queued, and then goes one stage on.
LEMMA DeviceTakes ==
  ASSUME BoardInv, DeviceStep
  PROVE  BoardInv'
<1> USE DEF BoardInv
<1>1. cmds # << >> /\ cmds' = Tail(cmds) /\ dev' = Obey(dev, Head(cmds))
      /\ UNCHANGED <<pc, fw, regs, phy, ctl>>
  BY DEF DeviceStep
<1>2. FieldsInv' /\ MasterInv'
  BY <1>1 DEF FieldsInv, MasterInv
<1>3. \A s \in Seq(Commands) : ~ Left(s, 0)
  BY <1>1, QueueEnds
<1>4. pc \in {"mem_init", "mem_config", "group", "handoff", "release"}
  BY <1>1 DEF QueueInv, MasterInv, Entry, Driving, Handed
<1>5. DeviceFields' /\ QueueInv'
  <2>1. CASE pc = "mem_init"
    <3>1. cmds = <<Op("unstable")>>
      BY <1>1, <2>1 DEF QueueInv
    <3>2. Head(cmds) = Op("unstable") /\ cmds' = << >> /\ Op("unstable") \in Commands
      BY <1>1, <3>1 DEF Op, Commands
    <3> QED
      BY <1>1, <2>1, <3>2, DeviceObeys DEF QueueInv, Entry, Calibrating, Handed
  <2>2. CASE pc = "mem_config"
    <3>1. PICK n \in 0..12 : Left(InitCommands, n) /\ InitStage(n)
      BY <2>2 DEF QueueInv
    <3>2. n # 0
      BY <1>3, <3>1, InitCommandsAre
    <3>3. n \in 1..12 /\ n - 1 \in 0..12
      BY <3>2
    <3>4. DeviceFields' /\ Left(InitCommands, n - 1)' /\ InitStage(n - 1)'
      BY <3>1, <3>3, InitCommandTaken
    <3> QED
      BY <1>1, <2>2, <3>3, <3>4 DEF QueueInv, Entry, Calibrating, Handed
  <2>3. CASE pc \in {"group", "handoff"}
    <3>1. PICK n \in 0..2 : Left(PrechargeAndActivate, n) /\ OpenStage(n)
      BY <2>3 DEF QueueInv
    <3>2. n # 0
      BY <1>3, <3>1, OpenCommandsAre
    <3>3. n \in 1..2 /\ n - 1 \in 0..2
      BY <3>2
    <3>4. DeviceFields' /\ Left(PrechargeAndActivate, n - 1)' /\ OpenStage(n - 1)'
      BY <3>1, <3>3, OpenCommandTaken
    <3> QED
      BY <1>1, <2>3, <3>3, <3>4 DEF QueueInv, Entry, Calibrating, Handed
  <2>4. CASE pc = "release"
    <3>1. PICK n \in 0..8 : Left(HandoffCommands, n) /\ HandoffStage(n)
      BY <2>4 DEF QueueInv
    <3>2. n # 0
      BY <1>3, <3>1, HandoffCommandsAre
    <3>3. n \in 1..8 /\ n - 1 \in 0..8
      BY <3>2
    <3>4. DeviceFields' /\ Left(HandoffCommands, n - 1)' /\ HandoffStage(n - 1)'
      BY <3>1, <3>3, HandoffCommandTaken
    <3> QED
      BY <1>1, <2>4, <3>3, <3>4 DEF QueueInv, Entry, Calibrating, Handed
  <2> QED
    BY <1>4, <2>1, <2>2, <2>3, <2>4
<1> QED
  BY <1>2, <1>5

LEMMA BoardStep == BoardInv /\ [Next]_vars => BoardInv'
<1> SUFFICES ASSUME BoardInv, [Next]_vars PROVE BoardInv'
  OBVIOUS
<1>1. CASE UNCHANGED vars
  BY <1>1 DEF vars, BoardInv, FieldsInv, DeviceFields, MasterInv, QueueInv, Left, InitStage,
              OpenStage, HandoffStage, DeviceUp
<1> QED
  BY <1>1, EntryStep, TestStep, RunStep, MemInitializeStep, OpenStep, HandoffStep, HandedStep,
     DeviceTakes DEF Next, Returned

-----------------------------------------------------------------------------
(* The property.                                                           *)

LEMMA BoardGivesHandoff == BoardInv => HandoffInv
<1> SUFFICES ASSUME BoardInv PROVE HandoffInv
  OBVIOUS
<1> USE DEF BoardInv
<1>1. ASSUME cmds # << >> PROVE Legal(dev, Head(cmds))
  <2>1. \A s \in Seq(Commands) : ~ Left(s, 0)
    BY <1>1, QueueEnds
  <2>2. pc \in {"mem_init", "mem_config", "group", "handoff", "release"}
    BY <1>1 DEF QueueInv, MasterInv, Entry, Driving, Handed
  <2>3. CASE pc = "mem_init"
    <3>1. cmds = <<Op("unstable")>>
      BY <1>1, <2>3 DEF QueueInv
    <3> QED
      BY <3>1 DEF Op, Legal, ModeRegisters
  <2>4. CASE pc = "mem_config"
    <3>1. PICK n \in 0..12 : Left(InitCommands, n) /\ InitStage(n)
      BY <2>4 DEF QueueInv
    <3>2. n # 0
      BY <2>1, <3>1, InitCommandsAre
    <3> QED
      BY <3>1, <3>2, InitCommandTaken
  <2>5. CASE pc \in {"group", "handoff"}
    <3>1. PICK n \in 0..2 : Left(PrechargeAndActivate, n) /\ OpenStage(n)
      BY <2>5 DEF QueueInv
    <3>2. n # 0
      BY <2>1, <3>1, OpenCommandsAre
    <3> QED
      BY <3>1, <3>2, OpenCommandTaken
  <2>6. CASE pc = "release"
    <3>1. PICK n \in 0..8 : Left(HandoffCommands, n) /\ HandoffStage(n)
      BY <2>6 DEF QueueInv
    <3>2. n # 0
      BY <2>1, <3>1, HandoffCommandsAre
    <3> QED
      BY <3>1, <3>2, HandoffCommandTaken
  <2> QED
    BY <2>2, <2>3, <2>4, <2>5, <2>6
<1>2. pc \in Testing => TestReady(dev) /\ phy.mux = 3 /\ phy.rom /\ phy.ctrl
  BY DEF QueueInv, MasterInv, Testing, Driving, Calibrating, OpenStage, DeviceUp, TestReady
<1>3. HandoffComplete
  BY DEF HandoffComplete, QueueInv, MasterInv, Entry, Driving, Handed, HandoffStage, DeviceUp
<1> QED
  BY <1>1, <1>2, <1>3 DEF HandoffInv, DeviceProtocol

\* sdram_calibration drives the memory device as it demands, from the reset to the
\* handoff and on every path between them: no command comes before its wait is over
\* or with banks open that must be closed, no test runs before the banks are open,
\* and the controller gets the memory with the user's mode registers loaded and DQS
\* tracking back on, whether calibration succeeded or not.
THEOREM BoardIsHandedOver == Spec => []HandoffInv
<1>1. Spec => []BoardInv
  BY BoardStarts, BoardStep, PTL DEF Spec
<1> QED
  BY <1>1, BoardGivesHandoff, PTL
=============================================================================
