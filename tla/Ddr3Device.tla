---------------------------- MODULE Ddr3Device -----------------------------
(***************************************************************************)
(* The memory device on the other side of the PHY, as far as the           *)
(* calibration firmware's comments state what it demands: reset held until *)
(* the clock is declared stable, 250 clocks (tXPR) before the first mode   *)
(* register, mode registers only with every bank closed, all four of them  *)
(* before the ZQ calibration, 512 clocks (tZQinit, tDLLK) after it.        *)
(* External to the repository's C code.                                    *)
(***************************************************************************)
EXTENDS Integers, Sequences

\* A command is an operation and, for a wait, its length in memory clocks.
Op(o) == <<o, 0>>

WaitClocks(n) == <<"wait", n>>

TXpr == 250

TZqInit == 512

ModeRegisters == {"mrs0_dll", "mrs0_user", "mrs1", "mrs2", "mrs3"}

DeviceOff ==
    [stable |-> FALSE, held |-> FALSE, running |-> FALSE, modes |-> {}, burst |-> "none",
     zq |-> FALSE, open |-> FALSE, settle |-> 0]

Configured(dev) == {"mrs1", "mrs2", "mrs3"} \subseteq dev.modes /\ dev.burst # "none"

\* What the device accepts next.
Legal(dev, c) ==
    LET op == c[1]
    IN  /\ op \notin {"wait", "reset", "stable", "unstable"} => dev.settle = 0
        /\ op = "stable" => dev.held
        /\ op = "release" => dev.held /\ dev.stable
        /\ op \in ModeRegisters => dev.running /\ ~ dev.open
        /\ op = "zqcl" => Configured(dev) /\ ~ dev.open
        /\ op = "activate" => Configured(dev) /\ dev.zq /\ ~ dev.open
        /\ op = "precharge" => dev.running

Obey(dev, c) ==
    LET op == c[1]
    IN  CASE op = "wait"    -> [dev EXCEPT !.settle = IF @ <= c[2] THEN 0 ELSE @ - c[2]]
          [] op = "reset"   -> [DeviceOff EXCEPT !.held = TRUE]
          [] op \in {"stable", "unstable"} -> [dev EXCEPT !.stable = (op = "stable")]
          [] op = "release" -> [dev EXCEPT !.held = FALSE, !.running = TRUE, !.settle = TXpr]
          [] op \in {"mrs0_dll", "mrs0_user"} -> [dev EXCEPT !.burst = op]
          [] op \in {"mrs1", "mrs2", "mrs3"}  -> [dev EXCEPT !.modes = @ \cup {op}]
          [] op = "zqcl"      -> [dev EXCEPT !.zq = TRUE, !.settle = TZqInit]
          [] op = "precharge" -> [dev EXCEPT !.open = FALSE]
          [] op = "activate"  -> [dev EXCEPT !.open = TRUE]

\* Ready for the read and write tests of the firmware.
TestReady(dev) == dev.open /\ dev.zq /\ dev.settle = 0
=============================================================================
