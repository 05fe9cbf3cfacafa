---------------------------- MODULE UnmaskedCore ----------------------------
(***************************************************************************)
(* What the masked core promises: the cycle behaviour of the netlist       *)
(* before masking.  The state is what the environment sees and the flops   *)
(* keep; within a cycle the combinational cells settle to a valuation that *)
(* satisfies every cell.                                                   *)
(***************************************************************************)
EXTENDS Netlist

VARIABLES
  x,     \* values the environment drives on the input ports
  q,     \* contents of the flops
  rst_n, \* the reset input
  y      \* output ports as sampled at the last clock edge

vars == <<x, q, rst_n, y>>

Settles(w) ==
  /\ w \in [Net -> BOOLEAN]
  /\ \A i \in Inputs : w[i] = x[i]
  /\ \A t \in Ties : w[t] = tie[t]
  /\ \A f \in Flops : w[f] = q[f]
  /\ \A c \in Cells : w[c] = Plain(kind[c], w[pinA[c]], w[pinB[c]])

Init ==
  /\ x \in [Inputs -> BOOLEAN]
  /\ q = [f \in Flops |-> FALSE]
  /\ rst_n = FALSE
  /\ y = [o \in Outputs |-> FALSE]

SetInputs ==
  /\ x' \in [Inputs -> BOOLEAN]
  /\ UNCHANGED <<q, rst_n, y>>

ClockEdge ==
  /\ rst_n
  /\ \E w \in [Net -> BOOLEAN] :
       /\ Settles(w)
       /\ q' = [f \in Flops |-> w[pinD[f]]]
       /\ y' = [o \in Outputs |-> w[o]]
  /\ UNCHANGED <<x, rst_n>>

AssertReset ==
  /\ rst_n' = FALSE
  /\ q' = [f \in Flops |-> FALSE]
  /\ UNCHANGED <<x, y>>

ReleaseReset ==
  /\ rst_n' = TRUE
  /\ UNCHANGED <<x, q, y>>

Next == SetInputs \/ ClockEdge \/ AssertReset \/ ReleaseReset

Spec == Init /\ [][Next]_vars
=============================================================================
