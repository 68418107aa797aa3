----------------------------- MODULE MCSmmuCmdq -----------------------------
(* Small instances of SmmuCmdq for TLC.                                     *)
EXTENDS SmmuCmdq
=============================================================================
