------------------------------ MODULE MCParts ------------------------------
(***************************************************************************)
(* The parts that share no state with any other and of which only safety   *)
(* is asked, one at a time: `part' is the one that runs, the variables of  *)
(* the others keep one of their initial values.  This explores each part   *)
(* completely.                                                             *)
(***************************************************************************)
EXTENDS MCScripts, MCConductor, MCMaskedCore, MCTbCombinational

VARIABLE part
partVars == <<part, scriptVars, condVars, vars, tbVars>>

\* What the variables of a part that is not running are.
ScriptsIdle == tool = "none" /\ SelIdle /\ ToolIdle /\ CfgIdle /\ LogIdle /\ Sv2vIdle /\ RepIdle
CondIdle == /\ valid = {} /\ stepOf = StepOf /\ edited = FALSE
            /\ file = [s \in Steps |-> Unreadable.absent]
            /\ args = NoRun /\ selected = {}
            /\ pc = "idle" /\ step = 0 /\ strategy = {} /\ all_strategies = {}
            /\ failures = {} /\ unsaved = {} /\ exit = "none"
MaskedIdle == /\ x = [i \in Inputs |-> FALSE] /\ randbits = [b \in RandIdx |-> FALSE]
              /\ s0 = [n \in Net |-> FALSE] /\ s1 = [n \in Net |-> FALSE]
              /\ rst_n = FALSE /\ y = [o \in Outputs |-> FALSE]

PartsInit ==
    /\ part \in {"scripts", "conductor", "masked core", "testbench"}
    /\ IF part = "scripts" THEN MCInit ELSE ScriptsIdle
    /\ IF part = "conductor" THEN CondInit ELSE CondIdle
    /\ IF part = "masked core" THEN Init ELSE MaskedIdle
    /\ TbInit

PartsNext ==
    \/ /\ part = "scripts" /\ MCNext
       /\ UNCHANGED <<part, condVars, vars, tbVars>>
    \/ /\ part = "conductor" /\ CondNext
       /\ UNCHANGED <<part, scriptVars, vars, tbVars>>
    \/ /\ part = "masked core" /\ Next
       /\ UNCHANGED <<part, scriptVars, condVars, tbVars>>
    \/ /\ part = "testbench" /\ TbCycle
       /\ UNCHANGED <<part, scriptVars, condVars, vars>>

PartsSpec == PartsInit /\ [][PartsNext]_partVars
=============================================================================
