------------------------------ MODULE CmoGates ------------------------------
(***************************************************************************)
(* The masked standard cells of gates_cmo.v.  A masked net is a pair of    *)
(* wires, its share 0 and its share 1, whose exclusive or is the value the *)
(* unmasked net would carry.  Every operator below is the function of one  *)
(* output pin of one cell; a bit is a BOOLEAN.                             *)
(***************************************************************************)

CombKinds == {"INV", "AND2", "OR2", "XOR2"}

(* XOR2X1, and the recombination of two shares (output = s0 ^ s1).         *)
Xor(a, b) == a # b

-----------------------------------------------------------------------------
(* The cells of the unmasked library that the white list leaves usable.    *)

Plain(kind, a, b) ==
  CASE kind = "INV"  -> ~a
    [] kind = "AND2" -> a /\ b
    [] kind = "OR2"  -> a \/ b
    [] kind = "XOR2" -> Xor(a, b)

-----------------------------------------------------------------------------
(* The masked cells: x1, x2 are the shares of the first operand, y1, y2    *)
(* those of the second (INV reads the first operand only).                 *)

INV_CMO(x1, x2) == <<~x1, x2>>

(* Mutant of AND2_CMO: the inverter g0 on y2 is forgotten.                 *)
AND2_CMO_NoInverter(x1, x2, y1, y2) ==
  <<Xor(x1 /\ y1, x1 \/ y2), Xor(x2 /\ y1, x2 \/ y2)>>

AND2_CMO(x1, x2, y1, y2) ==
  <<Xor(x1 /\ y1, x1 \/ ~y2), Xor(x2 /\ y1, x2 \/ ~y2)>>

OR2_CMO(x1, x2, y1, y2) ==
  <<Xor(x1 /\ y1, x1 \/ y2), Xor(x2 \/ y1, x2 /\ y2)>>

XOR2_CMO(x1, x2, y1, y2) == <<Xor(x1, y1), Xor(x2, y2)>>

(* The flop re-randomises what it stores: both shares take the same R.     *)
DFFRHQ_CMO(d1, d2, r) == <<Xor(d1, r), Xor(d2, r)>>

Masked(kind, x1, x2, y1, y2) ==
  CASE kind = "INV"  -> INV_CMO(x1, x2)
    [] kind = "AND2" -> AND2_CMO(x1, x2, y1, y2)
    [] kind = "OR2"  -> OR2_CMO(x1, x2, y1, y2)
    [] kind = "XOR2" -> XOR2_CMO(x1, x2, y1, y2)

=============================================================================
