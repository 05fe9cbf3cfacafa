--------------------------- MODULE MCClockAndData ---------------------------
(***************************************************************************)
(* The clock generator of the noisy core and the data side of the core,    *)
(* one at a time: they share no state, `side' is the one that runs and the *)
(* other rests in its initial state, of which no fairness is asked.        *)
(***************************************************************************)
EXTENDS MCDataSide, ClkGen

VARIABLE side
clockDataVars == <<side, vars, clkVars>>

ClockDataInit == side \in {"clock", "data"} /\ Init /\ ClkInit

ClockDataNext ==
  \/ side = "clock" /\ ClkNext /\ UNCHANGED <<side, vars>>
  \/ side = "data" /\ Next /\ UNCHANGED <<side, clkVars>>

ClockDataSpec ==
  /\ ClockDataInit /\ [][ClockDataNext]_clockDataVars
  /\ side = "clock" => ClkFairness
  /\ side = "data" => Fairness
=============================================================================
