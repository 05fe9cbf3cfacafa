-------------------------------- MODULE Race --------------------------------
(***************************************************************************)
(* race() of dv/formal/conductor.py on the asyncio loop.  One wrapper task *)
(* per entrant is created in a task group; a wrapper awaits the coroutine  *)
(* that the loop variable `task' names when the wrapper first runs, and    *)
(* raises RaceWonException when that coroutine returns something not None. *)
(***************************************************************************)
EXTENDS Integers, FiniteSets, FiniteSetsExt

CONSTANT MaxEntrants    \* bound: coroutines that race each other

VARIABLES n,          \* number of entrants of this race
          task,       \* the loop variable all wrappers close over, 0 if unbound
          wrapper,    \* the task of each entrant
          awaits,     \* the coroutine a wrapper awaits, 0 if none
          entrant,    \* the coroutine of each entrant
          aborting,   \* the task group has seen an exception
          outcome     \* of race()

vars == <<n, task, wrapper, awaits, entrant, aborting, outcome>>

Index == 1..n
Running == {"ready", "awaiting"}
AllStarted == \A i \in Index : wrapper[i] # "ready"

Init ==
    /\ n \in 1..MaxEntrants
    /\ task = 0
    /\ wrapper = [i \in 1..MaxEntrants |-> "none"]
    /\ awaits = [i \in 1..MaxEntrants |-> 0]
    /\ entrant = [i \in 1..MaxEntrants |-> "unstarted"]
    /\ aborting = FALSE
    /\ outcome = "racing"

\* The for loop does not await, so every wrapper is created before one runs,
\* and the loop variable is left at the last entrant.
CreateTasks ==
    /\ task = 0
    /\ task' = n
    /\ wrapper' = [i \in 1..MaxEntrants |-> IF i \in Index THEN "ready" ELSE "none"]
    /\ UNCHANGED <<n, awaits, entrant, aborting, outcome>>

\* The loop starts the wrappers in the order they were created.  Awaiting a
\* coroutine that another wrapper awaits, or that has ended, raises.
StartWrapper(i) ==
    /\ wrapper[i] = "ready"
    /\ \A j \in Index : j < i => wrapper[j] # "ready"
    /\ IF entrant[task] = "unstarted"
       THEN /\ wrapper' = [wrapper EXCEPT ![i] = "awaiting"]
            /\ awaits' = [awaits EXCEPT ![i] = task]
            /\ entrant' = [entrant EXCEPT ![task] = "running"]
            /\ UNCHANGED aborting
       ELSE /\ wrapper' = [wrapper EXCEPT ![i] = "error"]
            /\ aborting' = TRUE
            /\ UNCHANGED <<awaits, entrant>>
    /\ UNCHANGED <<n, task, outcome>>

\* An entrant returns a result, returns None, or raises an exception; what it
\* waits for ends in a later round of the loop than the one that starts the
\* wrappers.
EntrantEnds(i, how) ==
    /\ wrapper[i] = "awaiting" /\ AllStarted
    /\ entrant' = [entrant EXCEPT ![awaits[i]] = how]
    /\ wrapper' = [wrapper EXCEPT ![i] = CASE how = "result" -> "won"
                                           [] how = "None" -> "returned"
                                           [] how = "raised" -> "error"]
    /\ aborting' = (aborting \/ how # "None")
    /\ UNCHANGED <<n, task, awaits, outcome>>

\* The task group cancels what is left; a cancelled await cancels the future
\* below it, which kills the process.
CancelWrapper(i) ==
    /\ aborting /\ AllStarted /\ wrapper[i] = "awaiting"
    /\ wrapper' = [wrapper EXCEPT ![i] = "cancelled"]
    /\ entrant' = [entrant EXCEPT ![awaits[i]] = "cancelled"]
    /\ UNCHANGED <<n, task, awaits, aborting, outcome>>

\* The group ends when every task has.  except* takes the wins out of the
\* exception group; anything else in it is raised again.
Finish ==
    /\ outcome = "racing" /\ task # 0
    /\ \A i \in Index : wrapper[i] \notin Running
    /\ outcome' = IF \E i \in Index : wrapper[i] = "error" THEN "raised"
                  ELSE IF \E i \in Index : wrapper[i] = "won" THEN "winner"
                  ELSE "None"
    /\ UNCHANGED <<n, task, wrapper, awaits, entrant, aborting>>

Next ==
    \/ CreateTasks
    \/ \E i \in Index : \/ StartWrapper(i) \/ CancelWrapper(i)
                        \/ \E how \in {"result", "None", "raised"} : EntrantEnds(i, how)
    \/ Finish

Spec == Init /\ [][Next]_vars

\* "Races allow async processes to cleanly run in parrallel, until one declares
\* victory": a race in which no entrant raises ends with a result if one was
\* returned and with None if every entrant returned None.
RaceIsClean ==
    /\ outcome = "raised" => \E i \in Index : entrant[i] = "raised"
    /\ outcome = "winner" => \E i \in Index : entrant[i] = "result"
    /\ outcome = "None" => \A i \in Index : entrant[i] = "None"
=============================================================================
