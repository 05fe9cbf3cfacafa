-------------------------- MODULE MCProcessRunner --------------------------
(* Three processes: two that do not fit beside each other, so that the       *)
(* younger is preempted, and a small one that blocks on its output until its *)
(* timeout.                                                                  *)
EXTENDS ProcessRunner, TLC

CONSTANTS big, mid, small

MCNeed == (big :> 8) @@ (mid :> 8) @@ (small :> 0)
MCExpected == (big :> 0) @@ (mid :> 0) @@ (small :> 1)
MCTimed == {small}
MCChatty == {small}
=============================================================================
