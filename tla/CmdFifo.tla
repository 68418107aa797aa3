------------------------------ MODULE CmdFifo ------------------------------
(***************************************************************************)
(* What a command queue promises its user: commands are taken in the order *)
(* in which they were put, each one once, and none is lost or overwritten. *)
(***************************************************************************)
EXTENDS Naturals, Sequences

CONSTANTS Cmds, Size

VARIABLE fifo

Init == fifo = <<>>

Put(c) == Len(fifo) < Size /\ fifo' = Append(fifo, c)
Take   == fifo # <<>> /\ fifo' = Tail(fifo)

Next == (\E c \in Cmds : Put(c)) \/ Take

Spec == Init /\ [][Next]_fifo
=============================================================================
