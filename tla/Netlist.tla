------------------------------- MODULE Netlist -------------------------------
(***************************************************************************)
(* A synthesised netlist of the core, as Genus leaves it before masking    *)
(* (netlist_unmasked.v): only INV, AND2, OR2, XOR2 cells and resettable    *)
(* flops are mapped.  A net is named by its driver, the only one the       *)
(* masking script looks at: an input port, a constant, a cell or a flop.   *)
(***************************************************************************)
EXTENDS CmoGates, Naturals

CONSTANTS
  Inputs,     \* bits of the input ports
  Ties,       \* nets driven by a constant
  Cells,      \* combinational cells
  Flops,      \* DFFRHQX1 instances
  Outputs,    \* nets that drive a bit of an output port
  kind,       \* kind of each cell
  pinA, pinB, \* nets on the input pins of each cell (pinB of an INV is not read)
  pinD,       \* net on the D pin of each flop
  tie         \* value of each constant net

Comb == Inputs \cup Ties \cup Cells
Net  == Comb \cup Flops

ASSUME NetlistAssumption ==
  /\ Inputs \cap Flops = {} /\ Ties \cap Flops = {} /\ Cells \cap Flops = {}
  /\ Inputs \cap Ties = {} /\ Inputs \cap Cells = {} /\ Ties \cap Cells = {}
  /\ Outputs \subseteq Net
  /\ kind \in [Cells -> CombKinds]
  /\ pinA \in [Cells -> Net] /\ pinB \in [Cells -> Net]
  /\ pinD \in [Flops -> Net]
  /\ tie \in [Ties -> BOOLEAN]

=============================================================================
