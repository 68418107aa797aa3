------------------------------ MODULE MCSuite ------------------------------
(* A small instance of Suite for TLC.                                       *)
EXTENDS Suite

(* At least one test of each runner, view and condition.                    *)
SomeTests == {1, 51, 76, 101, 201, 251, 281, 301, 309, 351, 401, 501, 601, 602, 701, 702,
              801, 802, 850, 901}

(* A module, tests of different kinds, and a full list.                     *)
SomeSkips == {<<>>, <<SMMU, 51>>, <<PCIE + 1, PE>>, <<602, 850, 401>>,
              <<MEM, GIC, TIMER, WAKEUP, PER, WD, 802, EXER, 309>>}

SomeFlags == {{}, {"os"}, {"hyp", "ps"}}

(* Memory for all, or one buffer short, or the rest after one; the table of *)
(* timers is made as that of watchdogs.                                     *)
SomeShortages == {{b} : b \in Buffers \ {"timer", "memory"}} \cup {{}, {"pcie", "iovirt", "per", "memory", "shared"}}

Rich == [f \in PlatformFields |-> TRUE]
SomePlatforms == {Rich} \cup {[Rich EXCEPT ![f] = FALSE] : f \in PlatformFields}
=============================================================================
