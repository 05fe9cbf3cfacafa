--------------------------- MODULE ConductorProofs ---------------------------
(***************************************************************************)
(* The cache of proofs and the answer of prove, for every set of          *)
(* properties, division into steps, command line and initial cache.        *)
(***************************************************************************)
EXTENDS Conductor, WellFoundedInduction, TLAPS

-----------------------------------------------------------------------------
(* The inductive invariant of the cache.                                   *)

(* The mode of the command line says where a run can be.                   *)
ModeMatches ==
    /\ pc \in {"explore", "store", "dump"} => args.mode = "explore"
    /\ pc \in {"prove", "check"} => args.mode = "prove"
    /\ pc \in {"info", "bmc"} => args.mode = pc

(* The list about to be stored is fit for the cache.                       *)
WellFormed(s, blocks) ==
    /\ Disjoint(blocks)
    /\ ~edited => \A b \in blocks : b = InStep(b, s)

PendingWellFormed == pc \in {"store", "dump"} => WellFormed(step, strategy)

CacheInv ==
    /\ CondTypeOK /\ CacheDisjoint
    /\ ModeMatches /\ PendingWellFormed
    /\ selected \subseteq Names \ SKIPPED_PROPS

(* The step of a property, before and after an edit.                       *)
LEMMA StepOfType ==
  ASSUME NEW m \in StepMaps, NEW p \in Names
  PROVE  m[p] \in Steps
BY ConductorAssumption DEF Names, Steps

(* One property that is not skipped makes a block.                         *)
LEMMA SingletonBlock ==
  ASSUME NEW p \in Names \ SKIPPED_PROPS
  PROVE  {p} \in Blocks
BY DEF Blocks

(* Every way of selecting properties leaves out the skipped ones.          *)
LEMMA SelectionType ==
  ASSUME NEW a, a.properties \subseteq Names
  PROVE  Selection(a) \subseteq Names \ SKIPPED_PROPS
BY DEF Selection, missing_from, InStep

(* What is read from a well-formed cache is well-formed.                   *)
LEMMA LoadType ==
  ASSUME CondTypeOK, CacheDisjoint, NEW s \in Steps, NEW a
  PROVE  /\ load_strategy(s, a) \subseteq Blocks
         /\ WellFormed(s, load_strategy(s, a))
<1>1. file[s].blocks \subseteq Blocks /\ WellFormed(s, file[s].blocks)
  BY DEF CondTypeOK, CacheDisjoint, Files, WellFormed
<1>2. WellFormed(s, {})
  BY DEF WellFormed, Disjoint
<1>3. QED
  BY <1>1, <1>2 DEF load_strategy

(* Properties that are not cached can be added one by one.                 *)
LEMMA GrownWellFormed ==
  ASSUME NEW s, NEW strat, WellFormed(s, strat),
         NEW Q, \A p \in Q : stepOf[p] = s /\ p \notin UNION strat
  PROVE  WellFormed(s, strat \cup {{p} : p \in Q})
<1> DEFINE grown == strat \cup {{p} : p \in Q}
<1>1. ASSUME ~edited, NEW b \in grown PROVE b = InStep(b, s)
  <2>1. CASE b \in strat
    BY <1>1, <2>1 DEF WellFormed
  <2>2. CASE b \in {{p} : p \in Q}
    BY <2>2 DEF InStep
  <2>3. QED
    BY <2>1, <2>2
<1>2. ASSUME NEW b \in grown, NEW c \in grown, b # c PROVE b \cap c = {}
  <2>1. CASE b \in strat /\ c \in strat
    BY <1>2, <2>1 DEF WellFormed, Disjoint
  <2>2. CASE b \in strat /\ c \in {{p} : p \in Q}
    BY <2>2
  <2>3. CASE b \in {{p} : p \in Q} /\ c \in strat
    BY <2>3
  <2>4. CASE b \in {{p} : p \in Q} /\ c \in {{p} : p \in Q}
    BY <1>2, <2>4
  <2>5. QED
    BY <2>1, <2>2, <2>3, <2>4
<1>3. QED
  BY <1>1, <1>2, Zenon DEF WellFormed, Disjoint

(* The first runs find what CommandAssumption allows.                      *)
LEMMA CacheInit == CondInit => CacheInv
<1> SUFFICES ASSUME CondInit PROVE CacheInv
  OBVIOUS
<1>1. file \in Files /\ CacheDisjoint
  BY CommandAssumption, Zenon DEF CondInit, CacheDisjoint
<1>2. 0 \in Steps
  BY ConductorAssumption DEF Steps
<1>3. CondTypeOK
  <2>1. NoRun \in Args
    BY DEF CondInit, NoRun
  <2>2. QED
    BY <1>1, <1>2, <2>1, ConductorAssumption DEF CondInit, CondTypeOK
<1>4. QED
  BY <1>1, <1>3 DEF CondInit, CacheInv, ModeMatches, PendingWellFormed, WellFormed

(* Ending a run disturbs nothing.                                          *)
LEMMA EndStep ==
  ASSUME CacheInv, NEW code \in {"ok", "failed", "raised", "interrupted"}, End(code)
  PROVE  CacheInv'
BY DEF CacheInv, End, CondTypeOK, CacheDisjoint, Disjoint, InStep, ModeMatches, PendingWellFormed,
       WellFormed

(* Going on to the next step.                                              *)
LEMMA NextStepType ==
  ASSUME CondTypeOK, NextStep("explore")
  PROVE  step' \in Steps /\ pc' \in {"idle", "explore"} /\ exit' \in {exit, "ok"}
BY ConductorAssumption DEF NextStep, CondTypeOK, Steps

(* Each action keeps the cache well formed.                                *)
LEMMA CacheStep == CacheInv /\ [CondNext]_condVars => CacheInv'
<1> SUFFICES ASSUME CacheInv, [CondNext]_condVars
             PROVE  CacheInv'
  OBVIOUS
<1> USE DEF CacheInv
<1>0. /\ CondTypeOK /\ CacheDisjoint /\ ModeMatches /\ PendingWellFormed
      /\ selected \subseteq Names \ SKIPPED_PROPS
  OBVIOUS
<1>1. ASSUME NEW a \in Args, Launch(a)
      PROVE  CacheInv'
  <2>1. a.mode \in {"explore", "prove", "info", "bmc"}
    BY CommandAssumption
  <2>2. 0 \in Steps
    BY ConductorAssumption DEF Steps
  <2>3. selected' \subseteq Names \ SKIPPED_PROPS
    BY <1>1, SelectionType DEF Launch
  <2>4. pc' \in {"idle", a.mode} /\ exit' \in {"none", "failed"}
    BY <1>1 DEF Launch
  <2>5. CondTypeOK'
    BY <1>1, <2>1, <2>2, <2>3, <2>4 DEF Launch, CondTypeOK
  <2>6. CacheDisjoint'
    BY <1>1 DEF Launch, CacheDisjoint, Disjoint, InStep
  <2>7. ModeMatches' /\ PendingWellFormed'
    BY <1>1, <2>1, <2>4 DEF Launch, ModeMatches, PendingWellFormed, WellFormed
  <2>8. QED
    BY <2>3, <2>5, <2>6, <2>7
<1>2. CASE Interrupt
  BY <1>2, EndStep DEF Interrupt
<1>3. CASE EditDesign
  <2>1. 0 \in Steps
    BY ConductorAssumption DEF Steps
  <2>2. NoRun \in Args
    BY <1>0 DEF CondTypeOK, NoRun
  <2>3. CondTypeOK'
    BY <1>0, <1>3, <2>1, <2>2 DEF EditDesign, CondTypeOK
  <2>4. CacheDisjoint' /\ ModeMatches' /\ PendingWellFormed' /\ selected' = {}
    BY <1>0, <1>3 DEF EditDesign, CacheDisjoint, Disjoint, InStep, ModeMatches, PendingWellFormed
  <2>5. QED
    BY <2>3, <2>4
<1>4. CASE ExploreNothing
  <2>1. step' \in Steps /\ pc' \in {"idle", "explore"} /\ exit' \in {exit, "ok"}
    BY <1>4, NextStepType DEF ExploreNothing
  <2>2. QED
    BY <1>0, <1>4, <2>1
       DEF ExploreNothing, CondTypeOK, CacheDisjoint, Disjoint, InStep, ModeMatches,
           PendingWellFormed, WellFormed
<1>5. CASE ExploreRace
  BY <1>5, EndStep DEF ExploreRace
<1>6. CASE ExploreHard
  <2>0. PICK answer \in [NotDone -> {"unsat", "sat", "undetermined"}] :
          /\ strategy' = load_strategy(step, args) \cup build_strategy_rec(answer)
          /\ failures' = failures \cup NotProved(answer)
    BY <1>6 DEF ExploreHard
  <2> DEFINE Q == {q \in NotDone : answer[q] = "unsat"}
  <2>1. step \in Steps
    BY DEF CondTypeOK
  <2>2. load_strategy(step, args) \subseteq Blocks /\ WellFormed(step, load_strategy(step, args))
    BY <2>1, LoadType
  <2>3. \A p \in Q : /\ stepOf[p] = step /\ p \notin UNION load_strategy(step, args)
                     /\ p \in Names \ SKIPPED_PROPS
    BY DEF NotDone, missing_from, InStep
  <2>4. strategy' = load_strategy(step, args) \cup {{p} : p \in Q}
    BY <2>0 DEF build_strategy_rec
  <2>5. WellFormed(step, strategy')
    BY <2>2, <2>3, <2>4, GrownWellFormed
  <2>6. strategy' \subseteq Blocks
    BY <2>2, <2>3, <2>4, SingletonBlock
  <2>7. failures' \subseteq Names
    BY <2>0 DEF NotProved, NotDone, missing_from, InStep, CondTypeOK
  <2>8. /\ step' \in Steps /\ exit' \in {exit, "ok"}
        /\ pc' \in {"idle", "explore"} \/ (pc' = "store" /\ step' = step)
    BY <1>6, <2>1, NextStepType DEF ExploreHard
  <2>9. CondTypeOK'
    BY <1>6, <2>6, <2>7, <2>8 DEF ExploreHard, CondTypeOK
  <2>10. PendingWellFormed'
    <3>1. UNCHANGED <<stepOf, edited>>
      BY <1>6 DEF ExploreHard
    <3>2. pc' \in {"store", "dump"} => step' = step
      BY <2>8
    <3>3. QED
      BY <2>5, <3>1, <3>2 DEF PendingWellFormed, WellFormed, Disjoint, InStep
  <2>11. CacheDisjoint' /\ ModeMatches' /\ (selected \subseteq Names \ SKIPPED_PROPS)'
    BY <1>6, <2>8 DEF ExploreHard, CacheDisjoint, Disjoint, InStep, ModeMatches
  <2>12. QED
    BY <2>9, <2>10, <2>11
<1>7. CASE StoreOpen
  <2>1. /\ file' \in Files
        /\ \A s \in Steps : file'[s].blocks \in {file[s].blocks, {}}
    BY <1>7 DEF StoreOpen, CondTypeOK, Files, Unreadable
  <2>2. UNCHANGED <<stepOf, edited>>
    BY <1>7 DEF StoreOpen
  <2>3. CacheDisjoint'
    BY <1>0, <2>1, <2>2 DEF CacheDisjoint, Disjoint, InStep
  <2>4. PendingWellFormed'
    BY <1>0, <1>7, <2>2
       DEF StoreOpen, PendingWellFormed, WellFormed, Disjoint, InStep
  <2>5. QED
    BY <1>0, <1>7, <2>1, <2>3, <2>4 DEF StoreOpen, CondTypeOK, ModeMatches
<1>8. CASE StoreDump
  <2>1. /\ file' \in Files
        /\ \A s \in Steps : file'[s].blocks = IF s = step THEN strategy ELSE file[s].blocks
    BY <1>8 DEF StoreDump, CondTypeOK, Files, Written
  <2>2. CacheDisjoint'
    BY <1>8, <2>1 DEF StoreDump, CacheDisjoint, Disjoint, InStep, PendingWellFormed, WellFormed
  <2>3. step' \in Steps /\ pc' \in {"idle", "explore"} /\ exit' \in {exit, "ok"}
    BY <1>8, NextStepType DEF StoreDump
  <2>4. QED
    BY <1>0, <1>8, <2>1, <2>2, <2>3 DEF StoreDump, CondTypeOK, ModeMatches, PendingWellFormed, WellFormed
<1>9. CASE StoreFails
  <2>1. step' \in Steps /\ pc' \in {"idle", "explore"} /\ exit' \in {exit, "ok"}
    BY <1>9, NextStepType DEF StoreFails
  <2>2. QED
    BY <1>0, <1>9, <2>1
       DEF StoreFails, CondTypeOK, CacheDisjoint, Disjoint, InStep, ModeMatches,
           PendingWellFormed, WellFormed
<1>10. CASE ProveCollect
  <2>1. load_strategy(step, args) \subseteq Blocks /\ step \in Steps
    BY LoadType DEF CondTypeOK
  <2>2. all_strategies' \subseteq Steps \X Blocks
    BY <1>10, <2>1 DEF ProveCollect, CondTypeOK
  <2>3. step' \in Steps /\ pc' \in {"prove", "check"}
    BY <1>10, ConductorAssumption DEF ProveCollect, CondTypeOK, Steps
  <2>4. CacheDisjoint' /\ PendingWellFormed'
    BY <1>0, <1>10, <2>3
       DEF ProveCollect, CacheDisjoint, Disjoint, InStep, PendingWellFormed
  <2>5. QED
    BY <1>0, <1>10, <2>2, <2>3, <2>4 DEF ProveCollect, CondTypeOK, ModeMatches
<1>11. CASE ProveIncomplete
  BY <1>11, EndStep DEF ProveIncomplete
<1>12. CASE ProveRun
  BY <1>12, EndStep DEF ProveRun
<1>13. CASE InfoOrBmc
  BY <1>13, EndStep DEF InfoOrBmc
<1>14. CASE UNCHANGED condVars
  BY <1>0, <1>14 DEF condVars, CondTypeOK, CacheDisjoint, Disjoint, InStep, ModeMatches,
           PendingWellFormed, WellFormed
<1>15. QED
  BY <1>1, <1>2, <1>3, <1>4, <1>5, <1>6, <1>7, <1>8, <1>9, <1>10, <1>11, <1>12,
     <1>13, <1>14 DEF CondNext

(* No interrupt, failed store or partial run makes the cache ill-formed.   *)
LEMMA CacheInvariant == CondSpec => []CacheInv
BY CacheInit, CacheStep, PTL DEF CondSpec

(* The cache every later run reads is typed and its blocks are disjoint,   *)
(* whatever was interrupted, failed to be written or was run in part.      *)
THEOREM CacheAlwaysWellFormed == CondSpec => []CacheWellFormed
<1>1. CacheInv => CacheWellFormed
  BY DEF CacheInv, CacheWellFormed
<1>2. QED
  BY <1>1, CacheInvariant, PTL

-----------------------------------------------------------------------------
(* Soundness of the cache: only what an engine has shown is stored.        *)

PendingSound ==
    (~edited /\ pc \in {"store", "dump"}) => \A b \in strategy : Holds(step, b)

SoundInv == CacheSound /\ PendingSound

(* A verdict UNSAT means that the block holds.                             *)
LEMMA UnsatHolds ==
  ASSUME NEW s, NEW props, "unsat" \in Verdicts(s, props)
  PROVE  Holds(s, props)
BY DEF Verdicts

(* Each action keeps the cache sound; a step that changes valid is an edit. *)
LEMMA SoundStep == CacheInv /\ SoundInv /\ [CondNext]_condVars => SoundInv'
<1> SUFFICES ASSUME CacheInv, SoundInv, [CondNext]_condVars
             PROVE  SoundInv'
  OBVIOUS
<1>0. CacheSound /\ PendingSound /\ step \in Steps /\ file \in Files
  BY DEF SoundInv, CacheInv, CondTypeOK
<1>1. CASE EditDesign
  BY <1>1 DEF EditDesign, SoundInv, CacheSound, PendingSound
<1>2. ASSUME UNCHANGED <<valid, stepOf, edited, file>>, pc' \notin {"store", "dump"}
      PROVE  SoundInv'
  BY <1>0, <1>2 DEF SoundInv, CacheSound, PendingSound, Holds, Assumed, Kept, Names
<1>3. CASE ExploreHard
  <2>0. PICK answer \in [NotDone -> {"unsat", "sat", "undetermined"}] :
          /\ \A p \in NotDone : answer[p] \in Verdicts(step, {p})
          /\ strategy' = load_strategy(step, args) \cup build_strategy_rec(answer)
    BY <1>3 DEF ExploreHard
  <2>1. UNCHANGED <<valid, stepOf, edited, file>>
    BY <1>3 DEF ExploreHard
  <2>2. ASSUME ~edited, NEW b \in strategy'
        PROVE  Holds(step, b)
    <3>1. CASE b \in load_strategy(step, args)
      BY <1>0, <2>2, <3>1 DEF load_strategy, CacheSound
    <3>2. CASE b \in build_strategy_rec(answer)
      <4>1. PICK p \in NotDone : b = {p} /\ answer[p] = "unsat"
        BY <3>2 DEF build_strategy_rec
      <4>2. QED
        BY <2>0, <4>1, UnsatHolds
    <3>3. QED
      BY <2>0, <2>2, <3>1, <3>2
  <2>3. pc' \notin {"store", "dump"} \/ step' = step
    BY <1>3 DEF ExploreHard, NextStep
  <2>4. CacheSound'
    BY <1>0, <2>1 DEF CacheSound, Holds, Assumed, Kept, Names
  <2>5. PendingSound'
    <3> SUFFICES ASSUME ~edited', pc' \in {"store", "dump"}, NEW b \in strategy'
                 PROVE  Holds(step, b)'
      BY DEF PendingSound
    <3>1. Holds(step, b)
      BY <2>1, <2>2
    <3>2. step' = step /\ valid' = valid /\ stepOf' = stepOf
      BY <2>1, <2>3
    <3>3. QED
      BY <3>1, <3>2 DEF Holds, Assumed, Kept
  <2>6. QED
    BY <2>4, <2>5 DEF SoundInv
<1>4. CASE StoreOpen
  <2>1. \A s \in Steps : file'[s].blocks \in {file[s].blocks, {}}
    BY <1>0, <1>4 DEF StoreOpen, Files, Unreadable
  <2>2. UNCHANGED <<valid, stepOf, edited, step, strategy>> /\ pc = "store"
    BY <1>4 DEF StoreOpen
  <2>3. CacheSound'
    BY <1>0, <2>1, <2>2 DEF CacheSound, Holds, Assumed, Kept, Names
  <2>4. PendingSound'
    BY <1>0, <2>2 DEF PendingSound, Holds, Assumed, Kept, Names
  <2>5. QED
    BY <2>3, <2>4 DEF SoundInv
<1>5. CASE StoreDump
  <2>1. \A s \in Steps : file'[s].blocks = IF s = step THEN strategy ELSE file[s].blocks
    BY <1>0, <1>5 DEF StoreDump, Files, Written
  <2>2. UNCHANGED <<valid, stepOf, edited>> /\ pc = "dump" /\ pc' \notin {"store", "dump"}
    BY <1>5 DEF StoreDump, NextStep
  <2>3. ASSUME ~edited, NEW s \in Steps, NEW b \in file'[s].blocks
        PROVE  Holds(s, b)
    BY <1>0, <2>1, <2>2, <2>3 DEF CacheSound, PendingSound
  <2>4. CacheSound'
    BY <2>2, <2>3 DEF CacheSound, Holds, Assumed, Kept, Names
  <2>5. QED
    BY <2>2, <2>4 DEF SoundInv, PendingSound
<1>6. ASSUME NEW code, End(code)
      PROVE  SoundInv'
  BY <1>2, <1>6 DEF End
<1>7. ASSUME NEW a \in Args, Launch(a)
      PROVE  SoundInv'
  <2>1. a.mode \in {"explore", "prove", "info", "bmc"}
    BY CommandAssumption
  <2>2. QED
    BY <1>2, <1>7, <2>1 DEF Launch
<1>8. CASE ExploreNothing \/ StoreFails
  BY <1>2, <1>8 DEF ExploreNothing, StoreFails, NextStep
<1>9. CASE ProveCollect
  BY <1>2, <1>9 DEF ProveCollect
<1>10. CASE UNCHANGED condVars
  BY <1>0, <1>10 DEF condVars, SoundInv, CacheSound, PendingSound, Holds, Assumed, Kept, Names
<1>11. CASE Interrupt \/ ExploreRace \/ ProveIncomplete \/ ProveRun \/ InfoOrBmc
  BY <1>6, <1>11 DEF Interrupt, ExploreRace, ProveIncomplete, ProveRun, InfoOrBmc
<1>12. QED
  BY <1>1, <1>3, <1>4, <1>5, <1>7, <1>8, <1>9, <1>10, <1>11 DEF CondNext

(* As long as the design is not edited, every cached block holds whenever  *)
(* the asserts its step assumes hold, over any sequence of runs.           *)
THEOREM CacheAlwaysSound == CondSpec => []CacheSound
<1>1. CondInit => SoundInv
  BY DEF CondInit, SoundInv, CacheSound, PendingSound
<1>2. SoundInv => CacheSound
  BY DEF SoundInv
<1>3. QED
  BY <1>1, <1>2, SoundStep, CacheInvariant, PTL DEF CondSpec

-----------------------------------------------------------------------------
(* Soundness of prove: the steps are an induction over the assumptions.    *)

(* A run over all properties is about all that are not skipped.            *)
SelectedAll ==
    (pc # "idle" /\ args.properties = {} /\ ~args.missing) =>
        selected = Names \ SKIPPED_PROPS

ProveInv == SelectedAll /\ ProveSound

(* Blocks that hold under the assumptions of their steps, and between them *)
(* cover the properties, make all of them hold: the first step with one    *)
(* that does not would have been given nothing but what holds.             *)
LEMMA StepInduction ==
  ASSUME stepOf \in StepMaps, SKIPPED_PROPS \subseteq valid,
         Names \ SKIPPED_PROPS \subseteq CoveredProps, CoveredProps \ Proved \subseteq valid,
         \A st \in all_strategies : Holds(st[1], st[2])
  PROVE  Names \subseteq valid
<1> DEFINE Wrong == {stepOf[p] : p \in Names \ valid}
<1>1. SUFFICES ASSUME NEW q \in Names, q \notin valid PROVE FALSE
  OBVIOUS
<1>2. Wrong \in SUBSET Nat /\ Wrong # {}
  BY <1>1, StepOfType, ConductorAssumption DEF Steps
<1> HIDE DEF Wrong
<1>3. \E n \in Wrong : \A m \in Wrong : ~(m < n)
  <2>1. PICK n \in Wrong : \A m \in Wrong : ~(<<m, n>> \in OpToRel(<, Nat))
    BY <1>2, NatLessThanWellFounded, WFMin, Zenon
  <2>2. \A m \in Wrong : <<m, n>> \in OpToRel(<, Nat) <=> m < n
    BY <1>2 DEF OpToRel
  <2>3. QED
    BY <2>1, <2>2, Zenon
<1>4. PICK p \in Names \ valid : \A m \in Wrong : ~(m < stepOf[p])
  BY <1>3 DEF Wrong
<1>5. PICK st \in all_strategies : p \in Kept(st[1], st[2])
  BY <1>4 DEF Proved
<1>6. st[1] = stepOf[p]
  BY <1>5 DEF Kept
<1>7. Assumed(st[1]) \subseteq valid
  BY <1>4, <1>6 DEF Assumed, Wrong
<1>8. QED
  BY <1>4, <1>5, <1>7 DEF Holds

(* Each action keeps the promise of a prove run that ended with 0.         *)
LEMMA ProveStep == CacheInv /\ ProveInv /\ [CondNext]_condVars => ProveInv'
<1> SUFFICES ASSUME CacheInv, ProveInv, [CondNext]_condVars
             PROVE  ProveInv'
  OBVIOUS
<1>0. SelectedAll /\ ProveSound /\ ModeMatches /\ stepOf \in StepMaps
  BY DEF ProveInv, CacheInv, CondTypeOK
<1>1. ASSUME NEW a \in Args, Launch(a)
      PROVE  ProveInv'
  <2>1. exit' # "ok" /\ args' = a
    BY <1>1 DEF Launch
  <2>2. ASSUME pc' # "idle", a.properties = {}, ~a.missing
        PROVE  selected' = Names \ SKIPPED_PROPS
    BY <1>1, <2>2 DEF Launch, Selection
  <2>3. QED
    BY <2>1, <2>2 DEF ProveInv, SelectedAll, ProveSound, ProvedAll
<1>2. CASE EditDesign
  BY <1>2 DEF EditDesign, ProveInv, SelectedAll, ProveSound, ProvedAll
<1>3. ASSUME UNCHANGED <<args, selected>>, pc # "idle",
             pc' # "idle" \/ exit' # "ok" \/ args.mode # "prove"
      PROVE  ProveInv'
  BY <1>0, <1>3 DEF ProveInv, SelectedAll, ProveSound, ProvedAll
<1>4. CASE Interrupt
  BY <1>3, <1>4 DEF Interrupt, End
<1>5. CASE ExploreNothing \/ ExploreHard \/ StoreOpen \/ StoreDump \/ StoreFails
  <2>1. pc \in {"explore", "store", "dump"} /\ UNCHANGED <<args, selected>>
    BY <1>5 DEF ExploreNothing, ExploreHard, StoreOpen, StoreDump, StoreFails
  <2>2. args.mode = "explore" /\ pc # "idle"
    BY <1>0, <2>1 DEF ModeMatches
  <2>3. QED
    BY <1>3, <2>1, <2>2
<1>6. CASE ExploreRace
  BY <1>3, <1>6 DEF ExploreRace, End
<1>7. CASE ProveCollect
  BY <1>3, <1>7 DEF ProveCollect
<1>8. CASE ProveIncomplete
  BY <1>3, <1>8 DEF ProveIncomplete, End
<1>9. CASE InfoOrBmc
  BY <1>0, <1>3, <1>9 DEF InfoOrBmc, End, ModeMatches
<1>10. CASE ProveRun
  <2>1. /\ pc = "check" /\ (args.check_complete => Uncovered = {})
        /\ UNCHANGED <<valid, stepOf, args, selected, all_strategies>> /\ pc' = "idle"
    BY <1>10 DEF ProveRun, End
  <2>2. SelectedAll'
    BY <2>1 DEF SelectedAll
  <2>3. ASSUME args.check_complete, ~args.by_step, args.properties = {}, ~args.missing,
               exit' = "ok", SKIPPED_PROPS \subseteq valid, CoveredProps \ Proved \subseteq valid
        PROVE  Names \subseteq valid
    <3>1. PICK code \in [all_strategies -> {"unsat", "sat", "undetermined"}] :
            /\ \A st \in all_strategies : code[st] \in Verdicts(st[1], st[2])
            /\ End(IF \A st \in all_strategies : code[st] = "unsat" THEN "ok" ELSE "failed")
      BY <1>10, <2>3 DEF ProveRun, run_strategy
    <3>2. \A st \in all_strategies : code[st] = "unsat"
      BY <2>3, <3>1 DEF End
    <3>3. \A st \in all_strategies : Holds(st[1], st[2])
      BY <3>1, <3>2, UnsatHolds
    <3>4. selected = Names \ SKIPPED_PROPS
      BY <1>0, <2>1, <2>3 DEF SelectedAll
    <3>5. Names \ SKIPPED_PROPS \subseteq CoveredProps
      BY <2>1, <2>3, <3>4 DEF Uncovered
    <3>6. QED
      BY <1>0, <2>3, <3>3, <3>5, StepInduction
  <2>4. (CoveredProps \ Proved)' = CoveredProps \ Proved
    BY <2>1 DEF CoveredProps, Proved, Kept
  <2>5. ProveSound'
    BY <2>1, <2>3, <2>4 DEF ProveSound, ProvedAll
  <2>6. QED
    BY <2>2, <2>5 DEF ProveInv
<1>11. CASE UNCHANGED condVars
  <2>1. UNCHANGED <<valid, stepOf, args, selected, pc, exit, all_strategies>>
    BY <1>11 DEF condVars
  <2>2. (CoveredProps \ Proved)' = CoveredProps \ Proved
    BY <2>1 DEF CoveredProps, Proved, Kept
  <2>3. SelectedAll' /\ ProveSound'
    BY <1>0, <2>1, <2>2 DEF SelectedAll, ProveSound, ProvedAll
  <2>4. QED
    BY <2>3 DEF ProveInv
<1>12. QED
  BY <1>1, <1>2, <1>4, <1>5, <1>6, <1>7, <1>8, <1>9, <1>10, <1>11 DEF CondNext

(* When `prove --check-complete' over all properties ends with 0, all of   *)
(* them hold of the design as it is, however it was edited since the cache *)
(* was filled, if the skipped ones do and those an edit has moved out of   *)
(* the step their blocks are stored with, which nothing proves.            *)
THEOREM ProveAlwaysSound == CondSpec => []ProveSound
<1>1. CondInit => ProveInv
  BY DEF CondInit, ProveInv, SelectedAll, ProveSound, ProvedAll
<1>2. ProveInv => ProveSound
  BY DEF ProveInv
<1>3. QED
  BY <1>1, <1>2, ProveStep, CacheInvariant, PTL DEF CondSpec

-----------------------------------------------------------------------------
(* What explore tells its user.                                            *)

Accounted(p) ==
    \/ stepOf[p] < args.start
    \/ p \in failures \cup UNION file[stepOf[p]].blocks
    \/ stepOf[p] \in unsaved

(* The steps before this one are accounted for; so will this one be, once  *)
(* its strategy is stored.                                                 *)
AccountInv ==
    (pc \in {"explore", "store", "dump"} /\ ~args.no_store) =>
        /\ \A p \in selected : stepOf[p] < step => Accounted(p)
        /\ pc # "explore" => \A p \in selected :
                stepOf[p] = step => p \in failures \cup UNION strategy

(* When explore is done with a step, it and those before are accounted for. *)
LEMMA StepDone ==
  ASSUME CacheInv, AccountInv, ~args.no_store,
         ExploreNothing \/ StoreDump \/ StoreFails
  PROVE  \A p \in selected : stepOf[p] <= step => Accounted(p)'
<1> SUFFICES ASSUME NEW p \in selected, stepOf[p] <= step
             PROVE  Accounted(p)'
  OBVIOUS
<1>0. /\ step \in Steps /\ file \in Files /\ args \in Args /\ args.start \in Int
      /\ step \in Int /\ stepOf[p] \in Int /\ stepOf[p] \in Steps
  BY ConductorAssumption, CommandAssumption, StepOfType DEF CacheInv, CondTypeOK, Steps
<1>1. stepOf[p] < step \/ stepOf[p] = step
  BY <1>0
<1>2. CASE ExploreNothing
  <2>1. UNCHANGED <<stepOf, args, failures, file, unsaved>> /\ pc = "explore"
    BY <1>2 DEF ExploreNothing
  <2>2. CASE stepOf[p] < step
    BY <2>1, <2>2 DEF AccountInv, Accounted
  <2>3. CASE stepOf[p] = step /\ step < args.start
    BY <2>1, <2>3 DEF Accounted
  <2>4. CASE stepOf[p] = step /\ NotDone = {}
    <3>1. p \in UNION load_strategy(step, args)
      BY <2>4 DEF NotDone, missing_from, InStep
    <3>2. p \in UNION file[step].blocks
      BY <3>1 DEF load_strategy
    <3>3. QED
      BY <2>1, <2>4, <3>2 DEF Accounted
  <2>5. QED
    BY <1>1, <1>2, <2>2, <2>3, <2>4 DEF ExploreNothing
<1>3. CASE StoreDump
  <2>1. UNCHANGED <<stepOf, args, failures, unsaved>> /\ pc = "dump"
    BY <1>3 DEF StoreDump
  <2>2. \A s \in Steps : file'[s].blocks = IF s = step THEN strategy ELSE file[s].blocks
    BY <1>0, <1>3 DEF StoreDump, Files, Written
  <2>3. CASE stepOf[p] < step
    <3>1. file'[stepOf[p]].blocks = file[stepOf[p]].blocks
      BY <1>0, <2>2, <2>3
    <3>2. QED
      BY <2>1, <2>3, <3>1 DEF AccountInv, Accounted
  <2>4. CASE stepOf[p] = step
    <3>1. p \in failures \cup UNION strategy
      BY <2>1, <2>4 DEF AccountInv
    <3>2. file'[stepOf[p]].blocks = strategy
      BY <1>0, <2>2, <2>4
    <3>3. QED
      BY <2>1, <3>1, <3>2 DEF Accounted
  <2>5. QED
    BY <1>1, <2>3, <2>4
<1>4. CASE StoreFails
  <2>1. UNCHANGED <<stepOf, args, failures, file>> /\ pc \in {"store", "dump"}
        /\ unsaved' = unsaved \cup {step}
    BY <1>4 DEF StoreFails
  <2>2. QED
    BY <1>1, <2>1 DEF AccountInv, Accounted
<1>5. QED
  BY <1>2, <1>3, <1>4

(* Each action keeps the account, and the last step closes it.             *)
LEMMA AccountStep ==
  CacheInv /\ AccountInv /\ [CondNext]_condVars =>
    /\ AccountInv'
    /\ (pc \in {"explore", "store", "dump"} /\ pc' = "idle" /\ exit' = "ok" /\ ~args.no_store)
         => \A p \in selected : Accounted(p)'
<1> DEFINE exploring == pc \in {"explore", "store", "dump"}
<1> DEFINE closed == (exploring /\ pc' = "idle" /\ exit' = "ok" /\ ~args.no_store)
                       => \A p \in selected : Accounted(p)'
<1> SUFFICES ASSUME CacheInv, AccountInv, [CondNext]_condVars
             PROVE  AccountInv' /\ closed
  OBVIOUS
<1>0. /\ step \in Int /\ MaxStep \in Int /\ step <= MaxStep
      /\ \A p \in selected : stepOf[p] \in 0..MaxStep
  BY ConductorAssumption, StepOfType DEF CacheInv, CondTypeOK, Steps
<1>1. ASSUME pc' \notin {"explore", "store", "dump"}, exit' # "ok" \/ ~exploring \/ pc' = pc
      PROVE  AccountInv' /\ closed
  BY <1>1 DEF AccountInv
<1>2. ASSUME NEW a \in Args, Launch(a)
      PROVE  AccountInv' /\ closed
  <2>1. pc = "idle" /\ pc' \in {"idle", a.mode} /\ step' = 0
    BY <1>2 DEF Launch
  <2>2. a.mode \in {"explore", "prove", "info", "bmc"}
    BY CommandAssumption
  <2>3. stepOf' = stepOf /\ \A p \in selected' : stepOf[p] \in Nat
    BY <1>2, SelectionType, StepOfType, ConductorAssumption DEF Launch, CacheInv, CondTypeOK, Steps
  <2>4. AccountInv'
    BY <2>1, <2>2, <2>3 DEF AccountInv
  <2>5. QED
    BY <2>1, <2>4
<1>3. CASE ExploreNothing \/ StoreDump \/ StoreFails
  <2>1. UNCHANGED <<stepOf, args, selected>> /\ NextStep("explore") /\ exploring
    BY <1>3 DEF ExploreNothing, StoreDump, StoreFails
  <2>2. ~args.no_store => \A p \in selected : stepOf[p] <= step => Accounted(p)'
    BY <1>3, StepDone
  <2>3. CASE step < MaxStep
    <3>1. pc' = "explore" /\ step' = step + 1
      BY <2>1, <2>3 DEF NextStep
    <3>2. AccountInv'
      BY <1>0, <2>1, <2>2, <3>1 DEF AccountInv
    <3>3. QED
      BY <3>1, <3>2
  <2>4. CASE ~(step < MaxStep)
    <3>1. pc' = "idle" /\ \A p \in selected : stepOf[p] <= step
      BY <1>0, <2>1, <2>4 DEF NextStep
    <3>2. QED
      BY <2>1, <2>2, <3>1 DEF AccountInv
  <2>5. QED
    BY <2>3, <2>4
<1>4. CASE ExploreHard
  <2>1. UNCHANGED <<stepOf, file, args, selected, unsaved>> /\ pc = "explore"
    BY <1>4 DEF ExploreHard
  <2>2. CASE args.no_store
    BY <2>1, <2>2 DEF AccountInv
  <2>3. CASE ~args.no_store
    <3>1. pc' = "store" /\ step' = step
      BY <1>4, <2>3 DEF ExploreHard
    <3>2. PICK answer \in [NotDone -> {"unsat", "sat", "undetermined"}] :
            /\ strategy' = load_strategy(step, args) \cup build_strategy_rec(answer)
            /\ failures' = failures \cup NotProved(answer)
      BY <1>4 DEF ExploreHard
    <3>3. ASSUME NEW p \in selected, stepOf[p] < step
          PROVE  Accounted(p)'
      BY <2>1, <2>3, <3>2, <3>3 DEF AccountInv, Accounted
    <3>4. ASSUME NEW p \in selected, stepOf[p] = step
          PROVE  p \in failures' \cup UNION strategy'
      <4>1. CASE p \in UNION load_strategy(step, args)
        BY <3>2, <4>1
      <4>2. CASE p \notin UNION load_strategy(step, args)
        <5>1. p \in NotDone
          BY <3>4, <4>2 DEF NotDone, missing_from, InStep
        <5>2. CASE answer[p] = "unsat"
          <6>1. {p} \in build_strategy_rec(answer)
            BY <5>1, <5>2 DEF build_strategy_rec
          <6>2. QED
            BY <3>2, <6>1
        <5>3. CASE answer[p] # "unsat"
          BY <3>2, <5>1, <5>3 DEF NotProved
        <5>4. QED
          BY <5>2, <5>3
      <4>3. QED
        BY <4>1, <4>2
    <3>5. AccountInv'
      BY <2>1, <3>1, <3>3, <3>4 DEF AccountInv
    <3>6. QED
      BY <3>1, <3>5
  <2>4. QED
    BY <2>2, <2>3
<1>5. CASE StoreOpen
  <2>1. /\ pc = "store" /\ pc' = "dump"
        /\ UNCHANGED <<stepOf, args, selected, step, strategy, failures, unsaved>>
    BY <1>5 DEF StoreOpen
  <2>2. \A s \in Steps : s # step => file'[s] = file[s]
    BY <1>5 DEF StoreOpen, CacheInv, CondTypeOK, Files
  <2>3. ASSUME ~args.no_store, NEW p \in selected, stepOf[p] < step
        PROVE  Accounted(p)'
    <3>1. file'[stepOf[p]] = file[stepOf[p]]
      BY <1>0, <2>2, <2>3 DEF Steps
    <3>2. QED
      BY <2>1, <2>3, <3>1 DEF AccountInv, Accounted
  <2>4. QED
    BY <2>1, <2>3 DEF AccountInv
<1>6. CASE Interrupt \/ ExploreRace \/ ProveIncomplete
  BY <1>1, <1>6 DEF Interrupt, ExploreRace, ProveIncomplete, End
<1>7. CASE ProveRun \/ InfoOrBmc
  BY <1>1, <1>7 DEF ProveRun, InfoOrBmc, End
<1>8. CASE ProveCollect \/ EditDesign
  BY <1>1, <1>8 DEF ProveCollect, EditDesign
<1>9. CASE UNCHANGED condVars
  <2>1. UNCHANGED <<pc, stepOf, args, selected, step, strategy, failures, unsaved, file>>
    BY <1>9 DEF condVars
  <2>2. AccountInv'
    BY <2>1 DEF AccountInv, Accounted
  <2>3. QED
    BY <2>1, <2>2
<1>10. QED
  BY <1>2, <1>3, <1>4, <1>5, <1>6, <1>7, <1>8, <1>9 DEF CondNext

(* An explore run that ends by itself has cached, reported or failed to    *)
(* store every property it was asked about, however many steps there are.  *)
THEOREM ExploreAlwaysAccounts == CondSpec => ExploreAccounts
<1>1. CondInit => AccountInv
  BY DEF CondInit, AccountInv
<1>2. CacheInv /\ AccountInv /\ [CondNext]_condVars => AccountInv'
  BY AccountStep
<1>3. CacheInv /\ AccountInv /\ [CondNext]_condVars =>
        [(pc \in {"explore", "store", "dump"} /\ pc' = "idle" /\ exit' = "ok" /\ ~args.no_store) =>
           \A p \in selected : \/ stepOf[p] < args.start
                               \/ p \in failures' \cup UNION file'[stepOf[p]].blocks
                               \/ stepOf[p] \in unsaved']_condVars
  <2> SUFFICES ASSUME CacheInv, AccountInv, [CondNext]_condVars, ~(UNCHANGED condVars),
                      pc \in {"explore", "store", "dump"}, pc' = "idle", exit' = "ok",
                      ~args.no_store, NEW p \in selected
               PROVE  \/ stepOf[p] < args.start
                      \/ p \in failures' \cup UNION file'[stepOf[p]].blocks
                      \/ stepOf[p] \in unsaved'
    OBVIOUS
  <2>1. Accounted(p)'
    BY AccountStep
  <2>2. args' = args /\ stepOf' = stepOf
    BY DEF CondNext, Launch, Interrupt, EditDesign, ExploreNothing, ExploreRace, ExploreHard,
           StoreOpen, StoreDump, StoreFails, ProveCollect, ProveIncomplete, ProveRun,
           InfoOrBmc, End, condVars
  <2>3. QED
    BY <2>1, <2>2 DEF Accounted
<1>4. QED
  BY <1>1, <1>2, <1>3, CacheInvariant, PTL DEF CondSpec, ExploreAccounts
=============================================================================
