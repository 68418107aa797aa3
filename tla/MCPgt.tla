------------------------------- MODULE MCPgt -------------------------------
(* Three levels of tables with two entries each: eight pages of input       *)
(* address, blocks of two and of four pages.                                *)
EXTENDS Pgt

MCHeap == 1 .. 7

R(va, pa, len, attr, aligned) ==
  [va |-> va, pa |-> pa, len |-> len, attr |-> attr, aligned |-> aligned]

(* Regions that are one block, that end within a block, that need a table   *)
(* per pair of pages, that are one page, that straddle a block above the    *)
(* input size, that lie above 32 bits, and that are refused.                *)
MCRegions ==
  {R(0, 4, 6, "rw", TRUE), R(0, 4, 7, "rw", TRUE), R(0, 5, 8, "ro", TRUE),
   R(2, 2, 1, "ro", TRUE), R(11, 2, 4, "rw", TRUE), R(0, 14, 3, "ro", TRUE),
   R(0, 20, 1, "rw", TRUE), R(0, 0, 1, "rw", FALSE)}

(* One region, or two of which the second is never looked at. *)
MCArrays == {<<>>} \cup {<<r>> : r \in MCRegions}
              \cup {<<r, R(6, 6, 2, "ro", TRUE)>> : r \in MCRegions}
=============================================================================
