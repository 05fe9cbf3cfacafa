----------------------------- MODULE MaskedCore -----------------------------
(***************************************************************************)
(* The masked netlist that the synthesis flow builds, inside the wrapper   *)
(* that splits its inputs into shares and recombines its outputs.  Every   *)
(* net has two wires; each wire settles on its own, in any order, so the   *)
(* two shares of a net are in general out of step until the netlist is     *)
(* quiet.  The flops take the clock edge when it is.                       *)
(***************************************************************************)
EXTENDS Netlist

CONSTANTS
  RandWidth,  \* width of the randbits bus (randbits_width)
  inBit,      \* index of the randbits bit that splits each input bit
  flopPos     \* position of each flop in the order connect_random_bus meets them

RandIdx == 0 .. RandWidth - 1

ASSUME MaskedAssumption ==
  /\ RandWidth \in Nat \ {0}
  /\ inBit \in [Inputs -> RandIdx]
  /\ flopPos \in [Flops -> Nat]

VARIABLES
  x,        \* values on the unmasked input ports of the wrapper
  randbits, \* the random bus, shared by the wrapper and the flops
  s0, s1,   \* the two wires of every net
  rst_n,    \* the reset input
  y         \* recombined output ports as sampled at the last clock edge

vars == <<x, randbits, s0, s1, rst_n, y>>

-----------------------------------------------------------------------------
(* The masking script.                                                     *)

(* connect_shared_wires, option 4: the share 1 of a constant.              *)
ConstantShare(old) == IF old = TRUE THEN FALSE ELSE TRUE

(* connect_random_bus: the bits of the bus are dealt out round robin.      *)
FlopBit(f) == flopPos[f] % RandWidth

(* replace_cells_with_secure links cell c to its masked counterpart and    *)
(* connect_shared_wires connects its share-1 pins like its share-0 pins.   *)
SecureCell(c) ==
  Masked(kind[c], s0[pinA[c]], s1[pinA[c]], s0[pinB[c]], s1[pinB[c]])

-----------------------------------------------------------------------------
(* The wrapper: inputs are split with the random bus.                      *)

SplitInput(i) == <<Xor(x[i], randbits[inBit[i]]), randbits[inBit[i]]>>

(* The wrapper: outputs are recombined.                                    *)
Recombined(n) == Xor(s0[n], s1[n])

-----------------------------------------------------------------------------
(* What drives the two wires of a combinational net.                       *)
Driver(n) ==
  IF n \in Inputs THEN SplitInput(n)
  ELSE IF n \in Ties THEN <<tie[n], ConstantShare(tie[n])>>
  ELSE SecureCell(n)

Settled == \A n \in Comb : s0[n] = Driver(n)[1] /\ s1[n] = Driver(n)[2]

Init ==
  /\ x \in [Inputs -> BOOLEAN]
  /\ randbits \in [RandIdx -> BOOLEAN]
  /\ s0 = [n \in Net |-> FALSE]
  /\ s1 = [n \in Net |-> FALSE]
  /\ rst_n = FALSE
  /\ y = [o \in Outputs |-> FALSE]

(* The environment drives the input ports, at any time of the cycle.       *)
SetInputs ==
  /\ x' \in [Inputs -> BOOLEAN]
  /\ UNCHANGED <<randbits, s0, s1, rst_n, y>>

(* One wire of one net takes the value its driver computes.                *)
Eval0(n) ==
  /\ s0' = [s0 EXCEPT ![n] = Driver(n)[1]]
  /\ UNCHANGED <<x, randbits, s1, rst_n, y>>

Eval1(n) ==
  /\ s1' = [s1 EXCEPT ![n] = Driver(n)[2]]
  /\ UNCHANGED <<x, randbits, s0, rst_n, y>>

(* The two flops of every DFFRHQ_CMO store their re-randomised D, the      *)
(* environment samples the recombined outputs, and the noise generator     *)
(* puts new bits on the bus.                                               *)
ClockEdge ==
  /\ rst_n
  /\ Settled
  /\ LET stored(f) ==
           DFFRHQ_CMO(s0[pinD[f]], s1[pinD[f]], randbits[FlopBit(f)])
     IN  /\ s0' = [n \in Net |-> IF n \in Flops THEN stored(n)[1] ELSE s0[n]]
         /\ s1' = [n \in Net |-> IF n \in Flops THEN stored(n)[2] ELSE s1[n]]
  /\ y' = [o \in Outputs |-> Recombined(o)]
  /\ randbits' \in [RandIdx -> BOOLEAN]
  /\ UNCHANGED <<x, rst_n>>

(* CDN clears both flops of a DFFRHQ_CMO.                                  *)
AssertReset ==
  /\ rst_n
  /\ rst_n' = FALSE
  /\ s0' = [n \in Net |-> IF n \in Flops THEN FALSE ELSE s0[n]]
  /\ s1' = [n \in Net |-> IF n \in Flops THEN FALSE ELSE s1[n]]
  /\ UNCHANGED <<x, randbits, y>>

ReleaseReset ==
  /\ ~rst_n
  /\ rst_n' = TRUE
  /\ UNCHANGED <<x, randbits, s0, s1, y>>

Next ==
  \/ SetInputs
  \/ \E n \in Comb : Eval0(n) \/ Eval1(n)
  \/ ClockEdge
  \/ AssertReset
  \/ ReleaseReset

Spec == Init /\ [][Next]_vars

-----------------------------------------------------------------------------
(* The wires are bits.                                                     *)
TypeOK ==
  /\ x \in [Inputs -> BOOLEAN]
  /\ randbits \in [RandIdx -> BOOLEAN]
  /\ s0 \in [Net -> BOOLEAN]
  /\ s1 \in [Net -> BOOLEAN]
  /\ rst_n \in BOOLEAN
  /\ y \in [Outputs -> BOOLEAN]

(* No net is tied low: the only netlists whose constants the script masks  *)
(* correctly (ConstantShare yields shares that recombine to TRUE).         *)
NoTieLow == \A t \in Ties : tie[t]

(* The masked core implements the unmasked one: read through the           *)
(* recombination of the wrapper, the flops and the sampled outputs go      *)
(* through a behaviour of the netlist before masking, whatever the random  *)
(* bits are and in whatever order the wires of the two shares settle.      *)
Unmasked == INSTANCE UnmaskedCore WITH
              q <- [f \in Flops |-> Recombined(f)]
MaskedImplementsUnmasked == Unmasked!Spec
=============================================================================
