----------------------------- MODULE MCWakeup ------------------------------
(* A small instance of Wakeup for TLC.                                      *)
EXTENDS Wakeup

Good == [gic |-> "v3", rd |-> TRUE, proto |-> TRUE, el2 |-> TRUE,
         secure |-> {}, bad |-> {}, locked |-> {}, fwtick |-> TRUE]

(* Each controller, and each thing that can be missing.                     *)
SomeConfigs ==
  {[Good EXCEPT !.gic = g] : g \in {"v2", "v3", "fw"}}
  \cup {[Good EXCEPT !.rd = FALSE],
        [Good EXCEPT !.gic = "fw", !.proto = FALSE, !.el2 = FALSE],
        [Good EXCEPT !.secure = {Wd(1)}, !.locked = {Frame(0)}, !.fwtick = FALSE],
        [Good EXCEPT !.secure = {Wd(0), Wd(1), Frame(0)}, !.bad = {Vir1}],
        [Good EXCEPT !.gic = "v2", !.bad = {Wd(1), Frame(0)}]}

(* The platforms meet what NoStrayInterrupt asks of firmware.               *)
ASSUME TicksAreKnown == TickKnown
============================================================================
