------------------------- MODULE MCTbCombinational -------------------------
(***************************************************************************)
(* Three words of which the PMP denies the last: overlapping split stores  *)
(* to the first two, and accesses that are denied in their second half     *)
(* (from 1 to 2) or in their first (from 2 to 0).                          *)
(***************************************************************************)
EXTENDS TbCombinational

MCAccesses ==
  LET a(w, t, s, d) == [we |-> w, type |-> t, sign |-> s, addr |-> d]
  IN  {a(TRUE, "word", FALSE, 1), a(TRUE, "half", FALSE, 3), a(TRUE, "byte", FALSE, 2),
       a(TRUE, "word", FALSE, 6), a(TRUE, "word", FALSE, 11),
       a(FALSE, "word", FALSE, 2), a(FALSE, "half", TRUE, 3), a(FALSE, "byte", FALSE, 2),
       a(FALSE, "word", FALSE, 11), a(FALSE, "word", FALSE, 4), a(FALSE, "half", FALSE, 7)}
=============================================================================
