---------------------------- MODULE MCConductor ----------------------------
(***************************************************************************)
(* Two steps: two properties, a skipped one and a cover in the first, one  *)
(* property in the second.  An edit may move two properties, one each way. *)
(***************************************************************************)
EXTENDS Conductor, TLC

CONSTANTS a0, a1, sk, cv, b0

MCStepOf == (a0 :> 0) @@ (a1 :> 0) @@ (sk :> 0) @@ (cv :> 0) @@ (b0 :> 1)
MCStepMaps == {MCStepOf, [MCStepOf EXCEPT ![a1] = 1, ![b0] = 0]}
MCForwardMaps == {MCStepOf, [MCStepOf EXCEPT ![a1] = 1]}   \* ... and a1 only

Default == [mode |-> "prove", hard |-> FALSE, fresh |-> FALSE, no_store |-> FALSE,
            start |-> 0, properties |-> {}, missing |-> FALSE, by_step |-> FALSE,
            check_complete |-> FALSE]
Explore == [Default EXCEPT !.mode = "explore", !.hard = TRUE]
Prove == [Default EXCEPT !.check_complete = TRUE]

MCArgs == {
    Explore, [Explore EXCEPT !.hard = FALSE], [Explore EXCEPT !.missing = TRUE],
    [Explore EXCEPT !.properties = {a1}, !.fresh = TRUE],
    [Explore EXCEPT !.no_store = TRUE], [Explore EXCEPT !.start = 1],
    Prove, [Prove EXCEPT !.by_step = TRUE], [Prove EXCEPT !.start = 1],
    [Prove EXCEPT !.properties = {b0}], [Prove EXCEPT !.check_complete = FALSE],
    [Default EXCEPT !.mode = "info"], [Default EXCEPT !.mode = "bmc"],
    [Default EXCEPT !.mode = "bmc", !.properties = {a0}],
    [Default EXCEPT !.properties = {cv}]}

MCFiles == {f \in [Steps -> {Unreadable.absent, Written({{a0, a1}}), Written({{b0}})}] :
              f[0] # Written({{b0}}) /\ f[1] = Unreadable.absent}
=============================================================================
