---------------------------- MODULE MCInstrSide ----------------------------
(***************************************************************************)
(* Four words of which the first and the third cannot be read.  From the   *)
(* unaligned target 5 the program runs through an instruction faulty in    *)
(* its first half, one faulty in its second that crosses the end of the    *)
(* address space, a compressed one with a faulty word after it, an aligned *)
(* long one and a compressed faulty one, and around again.                 *)
(***************************************************************************)
EXTENDS InstrSide

MCCompressed == {0, 3}
MCFaulty     == {0, 2}
MCTargets    == {5}
MCJunk       == [word |-> 0, err |-> TRUE]
=============================================================================
