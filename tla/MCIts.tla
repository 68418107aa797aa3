------------------------------- MODULE MCIts -------------------------------
(* Small instances of Its for TLC.                                          *)
EXTENDS Its

(* A device that the IO virtualisation table knows and one that it does not *)
(* know; the LPI of the second is also used for the first.                  *)
Mixed  == [d \in {"a", "u"} |-> IF d = "a" THEN 0 ELSE Unknown]
Shared == [d \in {"a", "u"} |-> IF d = "a" THEN {8268, 8269} ELSE {8268}]
=============================================================================
