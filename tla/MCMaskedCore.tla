---------------------------- MODULE MCMaskedCore ----------------------------
(***************************************************************************)
(* A small netlist with every kind of cell and a net tied high: a flop     *)
(* whose next value goes through XOR, AND, OR and INV of two input bits,   *)
(* the constant and its own output.                                        *)
(***************************************************************************)
EXTENDS MaskedCore

MCInputs  == {"gnt", "rvalid"}
MCTies    == {"one"}
MCCells   == {"g_and", "g_or", "g_inv", "g_xor"}
MCFlops   == {"busy"}
MCOutputs == {"g_xor"}

MCkind == [g_and |-> "AND2", g_or |-> "OR2", g_inv |-> "INV", g_xor |-> "XOR2"]
MCpinA == [g_and |-> "gnt", g_or |-> "busy", g_inv |-> "g_or", g_xor |-> "g_inv"]
MCpinB == [g_and |-> "one", g_or |-> "rvalid", g_inv |-> "g_or", g_xor |-> "g_and"]
MCpinD == [busy |-> "g_xor"]
MCtie  == [t \in MCTies |-> TRUE]

MCinBit   == [gnt |-> 0, rvalid |-> 1]
MCflopPos == [busy |-> 2]

-----------------------------------------------------------------------------
(* An OR gate whose other pin is tied low, as a parameter that is          *)
(* synthesised away leaves behind.                                         *)
TieInputs  == {"gnt"}
TieTies    == {"tied"}
TieCells   == {"g_or"}
TieFlops   == {"busy"}
TieOutputs == {"g_or", "busy"}
Tiekind    == [g_or |-> "OR2"]
TiepinA    == [g_or |-> "gnt"]
TiepinB    == [g_or |-> "tied"]
TiepinD    == [busy |-> "g_or"]
TieLow     == [tied |-> FALSE]
TieinBit   == [gnt |-> 0]
TieflopPos == [busy |-> 0]
=============================================================================
