-------------------------------- MODULE Fdt --------------------------------
(***************************************************************************)
(* What the parsers of the device tree have in common (pal_dt.c, libfdt).  *)
(* A property is a sequence of cells.  A cell of an address holds a number *)
(* below Word (2^32 in the code); an address of two cells is               *)
(* high * Word + low.  A property that a node does not have is NoProp.     *)
(***************************************************************************)
EXTENDS Integers, Sequences, SequencesExt

Word == 16

(* What a read behind a property, or of a table entry never written, gives: *)
(* no description uses this number.                                         *)
Junk == 15

NoProp == <<>>

PpiOffset == 16
SpiOffset == 32
GicSpi == 0
GicPpi == 1

(* Cell i of a property, counted from 0 as in the code. *)
Cell(prop, i) == IF i + 1 \in DOMAIN prop THEN prop[i + 1] ELSE Junk

(* The value of n cells, n = 1 or 2, from cell i on. *)
Cells(prop, i, n) ==
  IF n = 1 THEN Cell(prop, i) ELSE Cell(prop, i) * Word + Cell(prop, i + 1)

(* fdt_interrupt_cells walks from the node to its interrupt parent or its    *)
(* parent until one has #interrupt-cells; chain lists what they have, 0      *)
(* standing for a node without the property.                                 *)
InterruptCells(chain) ==
  LET has == {k \in DOMAIN chain : chain[k] # 0}
  IN  IF has = {} THEN 3 ELSE chain[CHOOSE k \in has : \A m \in has : k <= m]

(* The nodes of a tree that are compatible with one of a list of strings, in *)
(* the order in which the parsers meet them: string by string.               *)
ByCompatible(strings, nodes) ==
  FlattenSeq([k \in DOMAIN strings |->
                SelectSeq(nodes, LAMBDA node : node.compatible = strings[k])])

(* The first string of the list that some node is compatible with decides. *)
FirstCompatible(strings, nodes) ==
  LET has(k) == \E m \in DOMAIN nodes : nodes[m].compatible = strings[k]
      found  == {k \in DOMAIN strings : has(k)}
  IN  IF found = {} THEN <<>>
      ELSE LET k == CHOOSE k \in found : \A m \in found : k <= m
           IN  SelectSeq(nodes, LAMBDA node : node.compatible = strings[k])
=============================================================================
