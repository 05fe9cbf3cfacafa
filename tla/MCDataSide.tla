----------------------------- MODULE MCDataSide -----------------------------
(***************************************************************************)
(* The data side with an address space of three words of which the PMP     *)
(* denies the last: accesses that cross from 0 to 1 are allowed, from 1 to *)
(* 2 denied in their second half, from 2 to 0 in their first.              *)
(***************************************************************************)
EXTENDS DataSide

(* Words and half words at every offset, bytes at two, unsigned loads at   *)
(* one; every combination of allowed and denied halves.                    *)
MCAccesses ==
  LET a(w, t, s, d) == [we |-> w, type |-> t, sign |-> s, addr |-> d]
  IN  {a(w, "word", ~w, d) : w \in BOOLEAN, d \in {0, 1, 2, 3, 5, 6, 8, 9, 11}}
        \cup {a(w, "half", ~w, d) : w \in BOOLEAN, d \in {1, 3, 7, 11}}
        \cup {a(w, "byte", ~w, d) : w \in BOOLEAN, d \in {2}}
        \cup {a(FALSE, t, FALSE, 3) : t \in {"half", "byte"}}
MCDenied == {2}
=============================================================================
