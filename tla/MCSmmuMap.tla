----------------------------- MODULE MCSmmuMap -----------------------------
(* Small instances of SmmuMap for TLC.                                      *)
EXTENDS SmmuMap, TLC

CONSTANTS p, q

BothPgts == {p, q}
OnePgt   == {p}

(* Streams of a table with eight entries.                                   *)
TwoStreams == {1, 2}

Single     == {1}

AllStreams == Smmus \X Sids

BothStages == {"S1", "S2"}

AnyTable == BOOLEAN
TwoLevelTable == {TRUE}

(* The instances meet what the theorems ask of the callers.                 *)
ASSUME CallersKeepApart == NoStreamZero /\ OneSmmu /\ Apart

Symmetry == Permutations(BothPgts)
=============================================================================
