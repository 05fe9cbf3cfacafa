-------------------------- MODULE MaskedCoreProofs --------------------------
(***************************************************************************)
(* For every netlist with no tied-low net, the masked core implements the  *)
(* unmasked one.                                                           *)
(***************************************************************************)
EXTENDS MaskedCore, TLAPS

-----------------------------------------------------------------------------
(* The cells.                                                              *)

(* The two output shares of every masked cell of gates_cmo.v recombine to  *)
(* what the plain cell computes from the recombined operands.              *)
LEMMA CellCorrect ==
  ASSUME NEW k \in CombKinds,
         NEW x1 \in BOOLEAN, NEW x2 \in BOOLEAN,
         NEW y1 \in BOOLEAN, NEW y2 \in BOOLEAN
  PROVE  /\ Masked(k, x1, x2, y1, y2)[1] \in BOOLEAN
         /\ Masked(k, x1, x2, y1, y2)[2] \in BOOLEAN
         /\ Xor(Masked(k, x1, x2, y1, y2)[1], Masked(k, x1, x2, y1, y2)[2])
              = Plain(k, Xor(x1, x2), Xor(y1, y2))
<1>1. CASE k = "INV"
  BY <1>1 DEF Masked, Plain, INV_CMO, Xor
<1>2. CASE k = "AND2"
  BY <1>2 DEF Masked, Plain, AND2_CMO, Xor
<1>3. CASE k = "OR2"
  BY <1>3 DEF Masked, Plain, OR2_CMO, Xor
<1>4. CASE k = "XOR2"
  BY <1>4 DEF Masked, Plain, XOR2_CMO, Xor
<1>5. QED
  BY <1>1, <1>2, <1>3, <1>4 DEF CombKinds

(* The two flops of DFFRHQ_CMO store a pair that recombines to what the    *)
(* plain flop stores, whatever the random bit.                             *)
LEMMA FlopCorrect ==
  ASSUME NEW d1 \in BOOLEAN, NEW d2 \in BOOLEAN, NEW r \in BOOLEAN
  PROVE  /\ DFFRHQ_CMO(d1, d2, r)[1] \in BOOLEAN
         /\ DFFRHQ_CMO(d1, d2, r)[2] \in BOOLEAN
         /\ Xor(DFFRHQ_CMO(d1, d2, r)[1], DFFRHQ_CMO(d1, d2, r)[2]) = Xor(d1, d2)
BY DEF DFFRHQ_CMO, Xor

-----------------------------------------------------------------------------
(* Type correctness.                                                       *)

(* What drives a wire is a bit.                                            *)
LEMMA DriverIsBit ==
  ASSUME TypeOK, NEW n \in Comb
  PROVE  Driver(n)[1] \in BOOLEAN /\ Driver(n)[2] \in BOOLEAN
<1>1. CASE n \in Inputs
  <2>1. Driver(n) = <<Xor(x[n], randbits[inBit[n]]), randbits[inBit[n]]>>
    BY <1>1 DEF Driver, SplitInput
  <2>2. randbits[inBit[n]] \in BOOLEAN
    BY <1>1, MaskedAssumption DEF TypeOK
  <2>3. Xor(x[n], randbits[inBit[n]]) \in BOOLEAN
    BY DEF Xor
  <2>4. QED
    BY <2>1, <2>2, <2>3
<1>2. CASE n \notin Inputs /\ n \in Ties
  <2>1. Driver(n) = <<tie[n], ConstantShare(tie[n])>>
    BY <1>2 DEF Driver
  <2>2. tie[n] \in BOOLEAN /\ ConstantShare(tie[n]) \in BOOLEAN
    BY <1>2, NetlistAssumption DEF ConstantShare
  <2>3. QED
    BY <2>1, <2>2
<1>3. CASE n \notin Inputs /\ n \notin Ties
  <2>1. n \in Cells /\ Driver(n) = SecureCell(n)
    BY <1>3 DEF Driver, Comb
  <2>2. /\ kind[n] \in CombKinds
        /\ s0[pinA[n]] \in BOOLEAN /\ s1[pinA[n]] \in BOOLEAN
        /\ s0[pinB[n]] \in BOOLEAN /\ s1[pinB[n]] \in BOOLEAN
    BY <2>1, NetlistAssumption DEF TypeOK
  <2> DEFINE m == Masked(kind[n], s0[pinA[n]], s1[pinA[n]], s0[pinB[n]], s1[pinB[n]])
  <2>3. m[1] \in BOOLEAN /\ m[2] \in BOOLEAN
    BY <2>2, CellCorrect, ZenonT(60)
  <2>4. Driver(n) = m
    BY <2>1 DEF SecureCell
  <2>5. QED
    BY <2>3, <2>4, Zenon
<1>4. QED
  BY <1>1, <1>2, <1>3

(* The pair a flop stores is a pair of bits.                               *)
LEMMA StoredIsBit ==
  ASSUME TypeOK, NEW f \in Flops
  PROVE  LET p == DFFRHQ_CMO(s0[pinD[f]], s1[pinD[f]], randbits[FlopBit(f)])
         IN  /\ p[1] \in BOOLEAN /\ p[2] \in BOOLEAN
             /\ Xor(p[1], p[2]) = Xor(s0[pinD[f]], s1[pinD[f]])
<1>1. FlopBit(f) \in RandIdx
  BY MaskedAssumption DEF FlopBit, RandIdx
<1>2. randbits[FlopBit(f)] \in BOOLEAN
  BY <1>1 DEF TypeOK
<1>3. s0[pinD[f]] \in BOOLEAN /\ s1[pinD[f]] \in BOOLEAN
  BY NetlistAssumption DEF TypeOK
<1>4. QED
  BY <1>2, <1>3, FlopCorrect

(* The wires carry bits when reset is first asserted.                      *)
LEMMA TypeInit == Init => TypeOK
  BY DEF Init, TypeOK

(* Every step of the masked netlist and its wrapper leaves bits on wires.  *)
LEMMA TypeStep == TypeOK /\ [Next]_vars => TypeOK'
<1> SUFFICES ASSUME TypeOK, [Next]_vars
             PROVE  TypeOK'
  OBVIOUS
<1>1. CASE SetInputs
  BY <1>1 DEF SetInputs, TypeOK
<1>2. ASSUME NEW n \in Comb, Eval0(n)
      PROVE  TypeOK'
  BY <1>2, DriverIsBit DEF Eval0, TypeOK
<1>3. ASSUME NEW n \in Comb, Eval1(n)
      PROVE  TypeOK'
  BY <1>3, DriverIsBit DEF Eval1, TypeOK
<1>4. CASE ClockEdge
  <2>1. s0' \in [Net -> BOOLEAN] /\ s1' \in [Net -> BOOLEAN]
    BY <1>4, StoredIsBit DEF ClockEdge, TypeOK
  <2>2. y' \in [Outputs -> BOOLEAN]
    BY <1>4 DEF ClockEdge, Recombined, Xor
  <2>3. QED
    BY <1>4, <2>1, <2>2 DEF ClockEdge, TypeOK
<1>5. CASE AssertReset
  BY <1>5 DEF AssertReset, TypeOK
<1>6. CASE ReleaseReset
  BY <1>6 DEF ReleaseReset, TypeOK
<1>7. CASE UNCHANGED vars
  BY <1>7 DEF vars, TypeOK
<1>8. QED
  BY <1>1, <1>2, <1>3, <1>4, <1>5, <1>6, <1>7 DEF Next

(* Type correctness: the wires of the masked netlist carry bits.           *)
THEOREM TypeCorrect == Spec => []TypeOK
<1>1. Init => TypeOK
  BY TypeInit
<1>2. TypeOK /\ [Next]_vars => TypeOK'
  BY TypeStep
<1>3. QED
  BY <1>1, <1>2, PTL DEF Spec

-----------------------------------------------------------------------------
(* The refinement.                                                         *)

(* The unmasked netlist has the same nets and the same plain cells.        *)
LEMMA UnmaskedNet == Unmasked!Net = Net
  BY DEF Unmasked!Net, Unmasked!Comb, Net, Comb

(* The plain cells of the two specifications are the same.                 *)
LEMMA UnmaskedPlain ==
  ASSUME NEW k, NEW a, NEW b
  PROVE  Unmasked!Plain(k, a, b) = Plain(k, a, b)
  BY Zenon DEF Unmasked!Plain, Unmasked!Xor, Plain, Xor

(* In a quiet masked netlist with no tied-low net the recombined wires are *)
(* a settled valuation of the unmasked netlist.                            *)
LEMMA SettledRecombines ==
  ASSUME TypeOK, NoTieLow, Settled
  PROVE  Unmasked!Settles([n \in Net |-> Recombined(n)])
<1> DEFINE w == [n \in Net |-> Recombined(n)]
<1>0. /\ Inputs \subseteq Net /\ Ties \subseteq Net /\ Cells \subseteq Net
      /\ Flops \subseteq Net /\ Inputs \subseteq Comb /\ Ties \subseteq Comb
      /\ Cells \subseteq Comb
  BY DEF Net, Comb
<1>1. w \in [Net -> BOOLEAN]
  BY DEF Recombined, Xor
<1>2. ASSUME NEW i \in Inputs
      PROVE  w[i] = x[i]
  <2>1. Driver(i) = <<Xor(x[i], randbits[inBit[i]]), randbits[inBit[i]]>>
    BY DEF Driver, SplitInput
  <2>2. s0[i] = Xor(x[i], randbits[inBit[i]]) /\ s1[i] = randbits[inBit[i]]
    BY <1>0, <2>1 DEF Settled
  <2>3. x[i] \in BOOLEAN /\ randbits[inBit[i]] \in BOOLEAN
    BY MaskedAssumption DEF TypeOK
  <2>4. Xor(Xor(x[i], randbits[inBit[i]]), randbits[inBit[i]]) = x[i]
    BY <2>3 DEF Xor
  <2>5. QED
    BY <1>0, <2>2, <2>4 DEF Recombined
<1>3. ASSUME NEW t \in Ties
      PROVE  w[t] = tie[t]
  <2>1. t \notin Inputs
    BY NetlistAssumption
  <2>2. Driver(t) = <<tie[t], ConstantShare(tie[t])>>
    BY <2>1 DEF Driver
  <2>3. tie[t] = TRUE
    BY NetlistAssumption DEF NoTieLow
  <2>4. s0[t] = tie[t] /\ s1[t] = ConstantShare(tie[t])
    BY <1>0, <2>2 DEF Settled
  <2>5. Xor(TRUE, ConstantShare(TRUE)) = TRUE
    BY DEF ConstantShare, Xor
  <2>6. w[t] = Xor(s0[t], s1[t])
    BY <1>0 DEF Recombined
  <2>7. QED
    BY <2>3, <2>4, <2>5, <2>6, Zenon
<1>4. ASSUME NEW f \in Flops
      PROVE  w[f] = [g \in Flops |-> Recombined(g)][f]
  BY <1>0
<1>5. ASSUME NEW c \in Cells
      PROVE  w[c] = Plain(kind[c], w[pinA[c]], w[pinB[c]])
  <2> DEFINE m == Masked(kind[c], s0[pinA[c]], s1[pinA[c]], s0[pinB[c]], s1[pinB[c]])
  <2>1. c \notin Inputs /\ c \notin Ties
    BY NetlistAssumption
  <2>2. Driver(c) = m
    BY <2>1 DEF Driver, SecureCell
  <2>3. s0[c] = m[1] /\ s1[c] = m[2]
    BY <1>0, <2>2, Zenon DEF Settled
  <2>4. /\ kind[c] \in CombKinds /\ pinA[c] \in Net /\ pinB[c] \in Net
        /\ s0[pinA[c]] \in BOOLEAN /\ s1[pinA[c]] \in BOOLEAN
        /\ s0[pinB[c]] \in BOOLEAN /\ s1[pinB[c]] \in BOOLEAN
    BY NetlistAssumption DEF TypeOK
  <2> DEFINE a == Xor(s0[pinA[c]], s1[pinA[c]])
             b == Xor(s0[pinB[c]], s1[pinB[c]])
  <2> HIDE DEF m, a, b
  <2>5. Xor(m[1], m[2]) = Plain(kind[c], a, b)
    BY <2>4, CellCorrect, SMT DEF m, a, b
  <2>6. /\ w[c] = Xor(s0[c], s1[c])
        /\ w[pinA[c]] = a
        /\ w[pinB[c]] = b
    BY <1>0, <2>4 DEF Recombined, a, b
  <2>7. QED
    BY <2>3, <2>5, <2>6, Zenon
<1>6. QED
  BY <1>1, <1>2, <1>3, <1>4, <1>5, UnmaskedNet, UnmaskedPlain, Zenon
  DEF Unmasked!Settles

(* Wires of combinational nets are not flops, so a wire that settles       *)
(* changes nothing the unmasked core can see.                              *)
LEMMA EvalInvisible ==
  ASSUME TypeOK, NEW n \in Comb, Eval0(n) \/ Eval1(n)
  PROVE  UNCHANGED Unmasked!vars
<1>1. n \notin Flops
  BY NetlistAssumption DEF Comb
<1>2. ASSUME NEW f \in Flops
      PROVE  s0'[f] = s0[f] /\ s1'[f] = s1[f]
  BY <1>1 DEF Eval0, Eval1, TypeOK, Net
<1>3. [f \in Flops |-> Recombined(f)]' = [f \in Flops |-> Recombined(f)]
  BY <1>2, Zenon DEF Recombined
<1>4. x' = x /\ rst_n' = rst_n /\ y' = y
  BY DEF Eval0, Eval1
<1>5. QED
  BY <1>3, <1>4 DEF Unmasked!vars

(* The masked core is reset to a pair of shares that recombine to the      *)
(* reset state of the unmasked core.                                       *)
LEMMA RefineInit == Init => Unmasked!Init
<1> SUFFICES ASSUME Init PROVE Unmasked!Init
  OBVIOUS
<1>1. [f \in Flops |-> Recombined(f)] = [f \in Flops |-> FALSE]
  BY DEF Init, Recombined, Xor, Net
<1>2. QED
  BY <1>1 DEF Init, Unmasked!Init

(* Every step of the masked core is, read through the recombination of the *)
(* wrapper, a step of the unmasked core or leaves it unchanged.            *)
LEMMA RefineStep ==
  ASSUME NoTieLow, TypeOK, [Next]_vars
  PROVE  [Unmasked!Next]_(Unmasked!vars)
<1> DEFINE qbar == [f \in Flops |-> Recombined(f)]
<1>1. CASE SetInputs
  <2>1. qbar' = qbar
    BY <1>1 DEF SetInputs, Recombined
  <2>2. Unmasked!SetInputs
    BY <1>1, <2>1 DEF SetInputs, Unmasked!SetInputs
  <2>3. QED
    BY <2>2 DEF Unmasked!Next
<1>2. ASSUME NEW n \in Comb, Eval0(n) \/ Eval1(n)
      PROVE  UNCHANGED Unmasked!vars
  BY <1>2, EvalInvisible
<1>3. CASE ClockEdge
  <2> DEFINE w == [n \in Net |-> Recombined(n)]
             stored(f) == DFFRHQ_CMO(s0[pinD[f]], s1[pinD[f]], randbits[FlopBit(f)])
  <2>1. Unmasked!Settles(w) /\ w \in [Net -> BOOLEAN]
    <3>1. Settled
      BY <1>3 DEF ClockEdge
    <3>2. QED
      BY <3>1, SettledRecombines DEF Recombined, Xor
  <2>2. ASSUME NEW f \in Flops
        PROVE  Recombined(f)' = w[pinD[f]]
    <3>1. s0'[f] = stored(f)[1] /\ s1'[f] = stored(f)[2]
      BY <1>3 DEF ClockEdge, Net
    <3>2. Xor(stored(f)[1], stored(f)[2]) = Xor(s0[pinD[f]], s1[pinD[f]])
      BY StoredIsBit
    <3>3. w[pinD[f]] = Xor(s0[pinD[f]], s1[pinD[f]])
      BY NetlistAssumption DEF Recombined
    <3> HIDE DEF stored, w
    <3>4. Recombined(f)' = Xor(s0'[f], s1'[f])
      BY DEF Recombined
    <3>5. QED
      BY <3>1, <3>2, <3>3, <3>4, Zenon
  <2>3. qbar' = [f \in Flops |-> w[pinD[f]]]
    <3> HIDE DEF w
    <3>1. QED
      BY <2>2, Zenon
  <2>4. y' = [o \in Outputs |-> w[o]]
    BY <1>3, NetlistAssumption DEF ClockEdge
  <2>5. rst_n /\ x' = x /\ rst_n' = rst_n
    BY <1>3 DEF ClockEdge
  <2> HIDE DEF w, qbar
  <2>6. Unmasked!ClockEdge
    BY <2>1, <2>3, <2>4, <2>5, UnmaskedNet, Zenon DEF Unmasked!ClockEdge, qbar
  <2>7. QED
    BY <2>6 DEF Unmasked!Next
<1>4. CASE AssertReset
  <2>1. qbar' = [f \in Flops |-> FALSE]
    BY <1>4 DEF AssertReset, Recombined, Xor, Net
  <2>2. Unmasked!AssertReset
    BY <1>4, <2>1 DEF AssertReset, Unmasked!AssertReset
  <2>3. QED
    BY <2>2 DEF Unmasked!Next
<1>5. CASE ReleaseReset
  <2>1. qbar' = qbar
    BY <1>5 DEF ReleaseReset, Recombined
  <2>2. Unmasked!ReleaseReset
    BY <1>5, <2>1 DEF ReleaseReset, Unmasked!ReleaseReset
  <2>3. QED
    BY <2>2 DEF Unmasked!Next
<1>6. CASE UNCHANGED vars
  <2>1. qbar' = qbar
    BY <1>6 DEF vars, Recombined
  <2>2. QED
    BY <1>6, <2>1 DEF vars, Unmasked!vars
<1>7. QED
  BY <1>1, <1>2, <1>3, <1>4, <1>5, <1>6 DEF Next

(* For every netlist without a tied-low net, every width of the random     *)
(* bus and every dealing of its bits, the masked core behind its wrapper   *)
(* goes through a behaviour of the unmasked core.                          *)
THEOREM Refinement ==
  ASSUME NoTieLow
  PROVE  Spec => MaskedImplementsUnmasked
<1>1. Init => Unmasked!Init
  BY RefineInit
<1>2. TypeOK /\ [Next]_vars => [Unmasked!Next]_(Unmasked!vars)
  BY RefineStep
<1>3. QED
  BY <1>1, <1>2, TypeCorrect, PTL
  DEF Spec, MaskedImplementsUnmasked, Unmasked!Spec
=============================================================================
