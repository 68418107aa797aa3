----------------------------- MODULE MCHarness -----------------------------
(* Small instances of Harness for TLC.                                     *)
EXTENDS Harness, Sequences

(* The register comparison of os_c001, which val_pe_execute_tests runs      *)
(* first, a watchdog test, for which only the slot of PE 0 is reset and     *)
(* whose entry does not look at ACS_STATUS_SKIP, and a test on every PE.    *)
RemoteAll == <<"remote", "irqset", "all">>
Watchdog  == {2}

(* The GICv2m tests as acs_gic.c calls them, os_v004 directly after         *)
(* os_v003, then a test on every PE, one more that the user skips, and an   *)
(* interrupt test.                                                          *)
IrqMix  == <<"irqv2m", "irqpend", "all", "all", "irq">>
OneSkip == {4}

(* A single test on every PE.                                               *)
All == <<"all">>

NoTests == {}
=============================================================================
