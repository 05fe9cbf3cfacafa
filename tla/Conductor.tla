------------------------------ MODULE Conductor ------------------------------
(***************************************************************************)
(* conductor.py, the program that finds, caches and replays proofs of the  *)
(* steps of the formal flow.  A step is proved with the asserts of all     *)
(* earlier steps assumed.  The cache is one JSON file per step: a list of  *)
(* strategies, each a block of properties proved together at that step.  A *)
(* run of the program may be interrupted anywhere.  Between runs the       *)
(* design may be edited: properties begin or cease to hold, and move from  *)
(* one step to another, while the cache keeps the steps it was filled for. *)
(***************************************************************************)
EXTENDS Integers, FiniteSets

CONSTANTS Props,        \* the asserts of build/all.ywmap, by name
          StepOf,       \* the step of each when the cache was filled
          StepMaps,     \* the divisions into steps that edits lead to
          Covers,       \* those whose name ends in _Cover
          SKIPPED_PROPS,
          MaxStep,
          Args,         \* the command lines
          Files0        \* what the cache may hold at first

ASSUME ConductorAssumption ==
    /\ MaxStep \in Nat /\ StepMaps \subseteq [Props -> 0..MaxStep] /\ StepOf \in StepMaps
    /\ Covers \subseteq Props /\ SKIPPED_PROPS \subseteq Props \ Covers

Steps == 0..MaxStep

VARIABLES valid,      \* the properties that hold of the design
          stepOf,     \* the step of each property, part of its name in the design
          edited,     \* the design has changed since the first run
          file,       \* strategies/step<n>.json
          args,       \* of the run
          selected,   \* the properties the run is about
          pc, step,   \* where the run is
          strategy,   \* explore: the list being built for a step
          all_strategies, \* prove: the blocks collected, each with its stored step
          failures,   \* properties explore has logged as not proved
          unsaved,    \* steps it has reported as not stored
          exit        \* of the last run

condVars == <<valid, stepOf, edited, file, args, selected, pc, step, strategy, all_strategies,
          failures, unsaved, exit>>

\* A file is absent, broken (truncated or half written), or readable.
Unreadable == [absent |-> [state |-> "absent", blocks |-> {}],
               broken |-> [state |-> "broken", blocks |-> {}]]
Written(strat) == [state |-> "readable", blocks |-> strat]
Readable(s) == file[s].state = "readable"

-----------------------------------------------------------------------------
(* Selecting properties: main(), smt2manip.py, aig-manip select             *)

Names == Props \ Covers

InStep(S, s) == {p \in S : stepOf[p] = s}

\* What a block of a strategy may be.
Blocks == (SUBSET (Names \ SKIPPED_PROPS)) \ {{}}

\* The blocks of one file: no property twice.
Disjoint(blocks) == \A b, c \in blocks : b # c => b \cap c = {}

Files == [Steps -> [state : {"absent", "broken", "readable"}, blocks : SUBSET Blocks]]

ASSUME CommandAssumption ==
    /\ Args \subseteq [mode : {"explore", "prove", "info", "bmc"}, hard : BOOLEAN,
                       fresh : BOOLEAN, no_store : BOOLEAN, start : Int,
                       properties : SUBSET Props, missing : BOOLEAN, by_step : BOOLEAN,
                       check_complete : BOOLEAN]
    /\ Files0 \subseteq {f \in Files : \A s \in Steps : Disjoint(f[s].blocks)}

\* What is read of step s; nothing when the file is missing or broken, which
\* is ignored, or with --fresh.
load_strategy(s, a) == IF a.fresh THEN {} ELSE file[s].blocks

\* Mutant: what is cached already is proved again.
missing_from_All(strat, props) == props

missing_from(strat, props) == props \ UNION strat

\* The properties a run is about: -p, --missing or all of them.
Selection(a) ==
    LET lacking(s) == missing_from(load_strategy(s, a), InStep(Names, s))
        uncached == UNION {lacking(s) : s \in {t \in Steps : Readable(t) /\ ~a.fresh}}
    IN  (IF a.missing THEN a.properties \cup uncached
         ELSE IF a.properties = {} THEN Names
         ELSE a.properties) \ SKIPPED_PROPS

\* The asserts a proof of a block at step s assumes, and those it shows: a
\* property of the block that is in another step now is assumed or deleted.
Assumed(s) == {p \in Names : stepOf[p] < s}
Kept(s, props) == {p \in Names : stepOf[p] = s /\ (props = {} \/ p \in props)}

-----------------------------------------------------------------------------
(* The engines (external): UNSAT and SAT are right about the model checking *)
(* problem they are given; they may also give up, or be killed.             *)

Holds(s, props) == Assumed(s) \subseteq valid => Kept(s, props) \subseteq valid

Verdicts(s, props) ==
    {"undetermined"} \cup (IF Holds(s, props) THEN {"unsat"} ELSE {})
        \cup (IF ~(Kept(s, props) \subseteq valid) THEN {"sat"} ELSE {})

-----------------------------------------------------------------------------
(* Starting and ending a run                                                *)

End(code) ==
    /\ pc' = "idle" /\ exit' = code
    /\ UNCHANGED <<valid, stepOf, edited, file, args, selected, step, strategy, all_strategies,
                   failures, unsaved>>

\* A name given with -p that is no assert ends the run at once.
Launch(a) ==
    /\ pc = "idle"
    /\ args' = a
    /\ step' = 0 /\ strategy' = {} /\ all_strategies' = {} /\ failures' = {} /\ unsaved' = {}
    /\ IF a.properties \subseteq Names
       THEN pc' = a.mode /\ exit' = "none" /\ selected' = Selection(a)
       ELSE pc' = "idle" /\ exit' = "failed" /\ selected' = {}
    /\ UNCHANGED <<valid, stepOf, edited, file>>

\* Ctrl-C, a crash or a full machine: files stay as they are.
Interrupt == pc # "idle" /\ End("interrupted")

\* The arguments when no run was started on the design: any, nothing reads them.
NoRun == CHOOSE a \in Args : TRUE

EditDesign ==
    /\ pc = "idle"
    /\ valid' \in SUBSET Names /\ stepOf' \in StepMaps
    /\ <<valid', stepOf'>> # <<valid, stepOf>>
    /\ edited' = TRUE
    \* The last run was about another design, and its variables are gone.
    /\ exit' = "none" /\ args' = NoRun /\ step' = 0 /\ selected' = {} /\ strategy' = {} /\ all_strategies' = {}
    /\ failures' = {} /\ unsaved' = {}
    /\ UNCHANGED <<file, pc>>

-----------------------------------------------------------------------------
(* explore                                                                  *)

NotDone == missing_from(load_strategy(step, args), InStep(selected, step))

\* Go to the next step, or end.
NextStep(mode) ==
    IF step < MaxStep
    THEN step' = step + 1 /\ pc' = mode /\ UNCHANGED exit
    ELSE pc' = "idle" /\ exit' = "ok" /\ UNCHANGED step

\* Nothing to build (or a step before --start).  Unless --no-run, the cached
\* strategies are run again, and what they answer is only logged.
ExploreNothing ==
    /\ pc = "explore"
    /\ step < args.start \/ NotDone = {}
    /\ NextStep("explore")
    /\ UNCHANGED <<valid, stepOf, edited, file, args, selected, strategy, all_strategies,
                   failures, unsaved>>

\* Without --hard every property or block is raced between two engines, and
\* race() raises with two entrants.
ExploreRace ==
    /\ pc = "explore" /\ step >= args.start
    /\ NotDone # {} /\ ~args.hard
    /\ End("raised")

\* Mutant: any answer counts as a proof.
build_strategy_rec_Any(answer) ==
    {{p} : p \in {q \in NotDone : answer[q] # "undetermined"}}

\* --hard: each property alone, with one engine and a timeout.
build_strategy_rec(answer) ==
    {{p} : p \in {q \in NotDone : answer[q] = "unsat"}}

\* Mutant: only counterexamples are reported.
NotProvedSat(answer) == {p \in NotDone : answer[p] = "sat"}

NotProved(answer) == {p \in NotDone : answer[p] # "unsat"}

ExploreHard ==
    /\ pc = "explore" /\ step >= args.start
    /\ NotDone # {} /\ args.hard
    /\ \E answer \in [NotDone -> {"unsat", "sat", "undetermined"}] :
         /\ \A p \in NotDone : answer[p] \in Verdicts(step, {p})
         /\ strategy' = load_strategy(step, args) \cup build_strategy_rec(answer)
         /\ failures' = failures \cup NotProved(answer)
    /\ IF args.no_store
       THEN NextStep("explore")
       ELSE pc' = "store" /\ UNCHANGED <<step, exit>>
    /\ UNCHANGED <<valid, stepOf, edited, file, args, selected, all_strategies, unsaved>>

\* store_strategy: open(.., "w") truncates the file, json.dump fills it.
StoreOpen ==
    /\ pc = "store"
    /\ file' = [file EXCEPT ![step] = Unreadable.broken]
    /\ pc' = "dump"
    /\ UNCHANGED <<valid, stepOf, edited, args, selected, step, strategy, all_strategies,
                   failures, exit, unsaved>>

StoreDump ==
    /\ pc = "dump"
    /\ file' = [file EXCEPT ![step] = Written(strategy)]
    /\ NextStep("explore")
    /\ UNCHANGED <<valid, stepOf, edited, args, selected, strategy, all_strategies, failures, unsaved>>

\* An exception on opening or writing is logged and the run goes on.
StoreFails ==
    /\ pc \in {"store", "dump"}
    /\ unsaved' = unsaved \cup {step}
    /\ NextStep("explore")
    /\ UNCHANGED <<valid, stepOf, edited, file, args, selected, strategy, all_strategies, failures>>

-----------------------------------------------------------------------------
(* prove                                                                    *)

\* With --by-step the strategy is run here, and what it answers is only logged.
ProveCollect ==
    /\ pc = "prove"
    /\ all_strategies' = all_strategies \cup
         {<<step, b>> : b \in IF step < args.start THEN {} ELSE load_strategy(step, args)}
    /\ IF step < MaxStep
       THEN step' = step + 1 /\ UNCHANGED pc
       ELSE pc' = "check" /\ UNCHANGED step
    /\ UNCHANGED <<valid, stepOf, edited, file, args, selected, strategy, failures, exit, unsaved>>

\* covered: the properties the collected blocks name, at whatever step.
CoveredProps == UNION {st[2] : st \in all_strategies}

\* Mutant: completeness is not checked.
UncoveredNone == {}

Uncovered == selected \ CoveredProps

ProveIncomplete ==
    /\ pc = "check" /\ args.check_complete /\ Uncovered # {}
    /\ End("failed")

\* What the proofs of the collected blocks may answer, each at the step that is
\* stored with the block, wherever its properties are by now.
run_strategy ==
    {code \in [all_strategies -> {"unsat", "sat", "undetermined"}] :
        \A st \in all_strategies : code[st] \in Verdicts(st[1], st[2])}

\* Everything is run; a block that is not UNSAT makes the run fail.
ProveRun ==
    /\ pc = "check" /\ (args.check_complete => Uncovered = {})
    /\ IF args.by_step
       THEN End("ok")
       ELSE \E code \in run_strategy :
              End(IF \A st \in all_strategies : code[st] = "unsat" THEN "ok" ELSE "failed")

-----------------------------------------------------------------------------
(* info and bmc leave nothing behind but witness files; bmc of several       *)
(* properties deepens until it is interrupted.                              *)

InfoOrBmc ==
    /\ pc = "info" \/ (pc = "bmc" /\ Cardinality(selected) < 2)
    /\ End("ok")

CondInit ==
    /\ valid \in SUBSET Names
    /\ stepOf = StepOf
    /\ edited = FALSE
    /\ file \in Files0
    /\ Args # {} /\ args = NoRun /\ selected = {}
    /\ \A s \in Steps : \A b \in file[s].blocks : b = InStep(b, s) /\ Holds(s, b)
    /\ pc = "idle" /\ step = 0 /\ strategy = {} /\ all_strategies = {} /\ failures = {}
    /\ unsaved = {} /\ exit = "none"

CondNext ==
    \/ \E a \in Args : Launch(a)
    \/ Interrupt \/ EditDesign
    \/ ExploreNothing \/ ExploreRace \/ ExploreHard
    \/ StoreOpen \/ StoreDump \/ StoreFails
    \/ ProveCollect \/ ProveIncomplete \/ ProveRun
    \/ InfoOrBmc

CondSpec == CondInit /\ [][CondNext]_condVars

-----------------------------------------------------------------------------
(* Properties *)

CondTypeOK ==
    /\ valid \subseteq Names /\ stepOf \in StepMaps /\ edited \in BOOLEAN
    /\ file \in Files
    /\ args \in Args /\ step \in Steps /\ selected \subseteq Names
    /\ pc \in {"idle", "explore", "store", "dump", "prove", "check", "info", "bmc"}
    /\ strategy \subseteq Blocks /\ all_strategies \subseteq Steps \X Blocks
    /\ failures \subseteq Names /\ unsaved \subseteq Steps
    /\ exit \in {"none", "ok", "failed", "raised", "interrupted"}

\* No proof is cached twice: whatever runs were interrupted or failed to store,
\* the blocks of a step's file are disjoint; and as long as the design is not
\* edited they belong to that step, so that prove proves each property once
\* and with the right assumptions.
CacheDisjoint ==
    \A s \in Steps :
        /\ Disjoint(file[s].blocks)
        /\ ~edited => \A b \in file[s].blocks : b = InStep(b, s)

\* What every later run reads back: blocks of properties that are asserts and
\* not skipped, and those disjoint.
CacheWellFormed == CondTypeOK /\ CacheDisjoint

\* As long as the design stays the same, a cached block holds whenever what its
\* step assumes holds: only an UNSAT answer ever puts a property in the cache.
CacheSound ==
    ~edited => \A s \in Steps : \A b \in file[s].blocks : Holds(s, b)

\* A `prove --check-complete' that is run for all properties, not step by step,
\* and ended with 0.
ProvedAll ==
    /\ args.mode = "prove" /\ args.check_complete /\ ~args.by_step
    /\ args.properties = {} /\ ~args.missing
    /\ pc = "idle" /\ exit = "ok"

\* The properties that some block of the run was proved for: of the step the
\* block is stored with, and in the block.
Proved == UNION {Kept(st[1], st[2]) : st \in all_strategies}

\* What the flow is for: when `prove --check-complete' ends with 0, every
\* property holds of the design as it is now, whatever it was when the cache was
\* filled - provided the skipped properties hold, which later steps assume and
\* nothing proves, and so do those that the cache knows only at a step an edit
\* has moved them away from.  That there are such properties is what
\* CompleteMeansProved denies.
ProveSound ==
    (ProvedAll /\ SKIPPED_PROPS \subseteq valid /\ CoveredProps \ Proved \subseteq valid)
        => Names \subseteq valid

\* What the help of --check-complete says: "In prove mode, fail if there are
\* unskipped properties without proofs."  A run that did not fail has proved
\* every property that is not skipped.
CompleteMeansProved == ProvedAll => Names \ SKIPPED_PROPS \subseteq Proved

\* An explore run that ends by itself accounts for every property it was asked
\* about: it is in the cache, or a log line names it, or storing its step failed.
ExploreAccounts ==
    [][(pc \in {"explore", "store", "dump"} /\ pc' = "idle" /\ exit' = "ok" /\ ~args.no_store) =>
         \A p \in selected : \/ stepOf[p] < args.start
                             \/ p \in failures' \cup UNION file'[stepOf[p]].blocks
                             \/ stepOf[p] \in unsaved']_condVars
=============================================================================
