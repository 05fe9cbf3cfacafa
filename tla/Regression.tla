----------------------------- MODULE Regression -----------------------------
(***************************************************************************)
(* The UVM regression (dv/uvm/core_ibex): a parallel make runs one Python  *)
(* script per job.  The jobs share metadata.pickle, which some update      *)
(* under a lock (LockedMetadata) and others read without it, and each test *)
(* has a pickle of its own with its result.  Make may be interrupted and   *)
(* started again in the same output directory, and the design edited in    *)
(* between.  Pickles are written in place: opening one truncates it.       *)
(***************************************************************************)
EXTENDS Naturals, FiniteSets

CONSTANTS Tests,      \* test.seed pairs of the regression
          Directed,     \* those with a source of their own
          Outcomes,     \* ways a simulation may go, of AllOutcomes
          NoTest,       \* stands in a job that belongs to no test
          MaxMakes      \* bound: times make is started in the directory

AllOutcomes == {"pass", "fail", "uvm_timeout", "killed", "no_trace", "no_result",
                "fail_no_error_line"}

ASSUME RegressionAssumption ==
    /\ Directed \subseteq Tests /\ NoTest \notin Tests
    /\ Outcomes \subseteq AllOutcomes /\ MaxMakes \in Nat

\* The jobs that update the metadata under its lock, and those of a test.
LockedKinds == {"render_config", "build_instr_gen", "compile_tb", "get_fcov",
                "merge_cov", "collect_results"}
TestKinds == {"run_instr_gen", "compile_test", "run_rtl", "check_logs"}
\* Those of a test that load the metadata, without the lock.
Readers == {"run_instr_gen", "compile_test", "run_rtl"}

Jobs == (LockedKinds \X {NoTest}) \cup (TestKinds \X Tests)
NoJob == <<"none", NoTest>>

VARIABLES makes,    \* times make was started
          make,     \* "off", "creating", "running" or "failing"
          pc,       \* where each job of this make is
          lock,     \* who holds the lock of metadata.pickle
          md,       \* metadata.pickle: its state and whose fields it has
          mem,      \* the fields in the copy a locked job has loaded
          trr,      \* the pickle of each test
          built,    \* locked jobs whose stamp is up to date
          asm, bin, log,   \* tests whose test.S, test.bin, rtl_sim.log are
          due,      \* tests whose log was made by this make, not yet checked
          sim,      \* how the simulation behind the log went
          resim,    \* tests that were simulated more than once
          report    \* regr.log

jobVars == <<pc, lock, mem>>
vars == <<makes, make, jobVars, md, trr, built, asm, bin, log, due, sim, resim, report>>

None == "None"
NewTrr == [state |-> "ok", passed |-> None, failure_mode |-> None]

TypeOK ==
    /\ makes \in 0..MaxMakes
    /\ make \in {"off", "creating", "running", "failing"}
    /\ pc \in [Jobs -> {"idle", "locking", "body", "export", "work", "command", "done", "failed"}]
    /\ lock \in Jobs \cup {NoJob}
    /\ \A j \in Jobs : pc[j] \in {"body", "export"} <=> lock = j
    /\ md \in [state : {"absent", "ok", "torn"}, fields : SUBSET LockedKinds]
    /\ mem \in [Jobs -> SUBSET LockedKinds]
    /\ trr \in [Tests -> [state : {"absent", "ok", "torn"},
                          passed : {None, "True", "False"},
                          failure_mode : {None, "NONE", "TIMEOUT", "FILE_ERROR", "LOG_ERROR"}]]
    /\ built \subseteq LockedKinds
    /\ asm \subseteq Tests /\ bin \subseteq Tests /\ log \subseteq Tests
    /\ due \subseteq log
    /\ sim \in [Tests -> Outcomes \cup {"none"}] /\ resim \subseteq Tests
    /\ report \in [Tests -> {"none", "PASS", "FAILED"}]

-----------------------------------------------------------------------------
(* make run: metadata.py --op create_metadata, then the jobs                *)

\* Metadata that is already there is kept, whatever state it is in.
StartMake ==
    /\ make = "off" /\ makes < MaxMakes
    /\ makes' = makes + 1
    /\ make' = IF md.state = "absent" THEN "creating" ELSE "running"
    /\ report' = [t \in Tests |-> "none"]
    /\ pc' = [j \in Jobs |-> "idle"]
    /\ UNCHANGED <<lock, mem, md, trr, built, asm, bin, log, due, sim, resim>>

\* The results of the tests are exported first, the metadata last.
CreateTest(t) ==
    /\ make = "creating" /\ trr[t] # NewTrr
    /\ trr' = [trr EXCEPT ![t] = NewTrr]
    /\ UNCHANGED <<makes, make, jobVars, md, built, asm, bin, log, due, sim, resim, report>>

CreateOpen ==
    /\ make = "creating" /\ md.state = "absent"
    /\ \A t \in Tests : trr[t] = NewTrr
    /\ md' = [state |-> "torn", fields |-> {}]
    /\ UNCHANGED <<makes, make, jobVars, trr, built, asm, bin, log, due, sim, resim, report>>

CreateDump ==
    /\ make = "creating" /\ md.state = "torn"
    /\ md' = [state |-> "ok", fields |-> {}]
    /\ make' = "running"
    /\ UNCHANGED <<makes, jobVars, trr, built, asm, bin, log, due, sim, resim, report>>

-----------------------------------------------------------------------------
(* The rules of ibex_sim.mk, riscvdv.mk and wrapper.mk: when a job may run  *)

\* Mutant: the logs are there, checked or not.
AllSimulated == log = Tests

AllChecked == log = Tests /\ due = {}

Prerequisites(j) ==
    LET t == j[2]
    IN  CASE j[1] = "render_config" -> TRUE
          [] j[1] = "build_instr_gen" -> "render_config" \in built
          [] j[1] = "compile_tb" -> TRUE
          [] j[1] = "run_instr_gen" -> t \notin Directed /\ "build_instr_gen" \in built
          [] j[1] = "compile_test" ->
                t \in Directed \cup asm \/ pc[<<"run_instr_gen", t>>] = "done"
          [] j[1] = "run_rtl" -> t \in bin /\ "compile_tb" \in built
          [] j[1] = "check_logs" -> t \in due
          [] j[1] = "get_fcov" -> AllChecked
          [] j[1] = "merge_cov" -> AllChecked /\ "get_fcov" \in built
          [] j[1] = "collect_results" -> AllChecked /\ "merge_cov" \in built

UpToDate(j) ==
    CASE j[1] \in LockedKinds -> j[1] \in built
      [] j[1] = "run_instr_gen" -> j[2] \in asm
      [] j[1] = "compile_test" -> j[2] \in bin
      [] j[1] = "run_rtl" -> j[2] \in log
      [] OTHER -> FALSE

Ready(j) ==
    /\ make = "running" /\ pc[j] = "idle"
    /\ Prerequisites(j) /\ ~UpToDate(j)

To(j, place) == pc' = [pc EXCEPT ![j] = place]

\* A job that fails stops make from starting others.
Fail(j) == To(j, "failed") /\ make' = "failing"

-----------------------------------------------------------------------------
(* Jobs that hold the lock: with LockedMetadata(...) as md: ...             *)

StartLocked(j) ==
    /\ j[1] \in LockedKinds /\ Ready(j)
    /\ To(j, "locking")
    /\ UNCHANGED <<makes, make, lock, mem, md, trr, built, asm, bin, log, due, sim, resim, report>>

\* Mutant: the lock is not waited for.
EnterUnlocked(j) ==
    /\ pc[j] = "locking"
    /\ IF md.state = "ok"
       THEN /\ lock' = j
            /\ mem' = [mem EXCEPT ![j] = md.fields \cup {j[1]}]
            /\ To(j, "body") /\ UNCHANGED make
       ELSE Fail(j) /\ UNCHANGED <<lock, mem>>
    /\ UNCHANGED <<makes, md, trr, built, asm, bin, log, due, sim, resim, report>>

\* Mutant: a file that cannot be loaded is tried again.
EnterRetries(j) ==
    /\ pc[j] = "locking" /\ lock = NoJob /\ md.state = "ok"
    /\ lock' = j
    /\ mem' = [mem EXCEPT ![j] = md.fields \cup {j[1]}]
    /\ To(j, "body")
    /\ UNCHANGED <<makes, make, md, trr, built, asm, bin, log, due, sim, resim, report>>

\* __enter__: wait for the lock, load what the file holds then.
Enter(j) ==
    /\ pc[j] = "locking" /\ lock = NoJob
    /\ IF md.state = "ok"
       THEN /\ lock' = j
            /\ mem' = [mem EXCEPT ![j] = md.fields \cup {j[1]}]
            /\ To(j, "body") /\ UNCHANGED make
       ELSE Fail(j) /\ UNCHANGED <<lock, mem>>
    /\ UNCHANGED <<makes, md, trr, built, asm, bin, log, due, sim, resim, report>>

\* The alarm rings after five seconds of waiting for the lock.
EnterTimeout(j) ==
    /\ pc[j] = "locking" /\ lock # NoJob
    /\ Fail(j)
    /\ UNCHANGED <<makes, lock, mem, md, trr, built, asm, bin, log, due, sim, resim, report>>

\* collect_results reads every test's pickle inside the with block; a pickle
\* that cannot be loaded raises something other than RuntimeError.
Collects(j) == j[1] = "collect_results" /\ \A t \in Tests : trr[t].state = "ok"

\* __exit__: export, also when the block raised, then unlock.
ExitOpen(j) ==
    /\ pc[j] = "body"
    /\ md' = [md EXCEPT !.state = "torn"]
    /\ report' = IF Collects(j)
                 THEN [t \in Tests |-> IF trr[t].passed = "True" THEN "PASS" ELSE "FAILED"]
                 ELSE report
    /\ To(j, "export")
    /\ UNCHANGED <<makes, make, lock, mem, trr, built, asm, bin, log, due, sim, resim>>

\* The block may have raised (a tool it asks for is missing).
ExitDump(j) ==
    /\ pc[j] = "export"
    /\ md' = [state |-> "ok", fields |-> mem[j]]
    /\ lock' = NoJob /\ mem' = [mem EXCEPT ![j] = {}]
    /\ \/ To(j, "command") /\ UNCHANGED make
       \/ Fail(j)
    /\ UNCHANGED <<makes, trr, built, asm, bin, log, due, sim, resim, report>>

\* What follows the with block: the build, coverage or report commands.
CommandOk(j) ==
    /\ pc[j] = "command"
    /\ j[1] = "collect_results" => \A t \in Tests : report[t] = "PASS"
    /\ built' = built \cup {j[1]}
    /\ To(j, "done")
    /\ UNCHANGED <<makes, make, lock, mem, md, trr, asm, bin, log, due, sim, resim, report>>

CommandFails(j) ==
    /\ pc[j] = "command"
    /\ j[1] # "render_config"
    /\ j[1] = "collect_results" => \E t \in Tests : report[t] # "PASS"
    /\ Fail(j)
    /\ UNCHANGED <<makes, lock, mem, md, trr, built, asm, bin, log, due, sim, resim, report>>

-----------------------------------------------------------------------------
(* Jobs of one test                                                         *)

\* construct_from_metadata_dir: the metadata, for the jobs that need it, and
\* the test's pickle, both without a lock.
StartTest(j) ==
    /\ j[1] \in TestKinds /\ Ready(j)
    /\ IF (j[1] \in Readers => md.state = "ok") /\ trr[j[2]].state = "ok"
       THEN To(j, "work") /\ UNCHANGED make
       ELSE Fail(j)
    /\ UNCHANGED <<makes, lock, mem, md, trr, built, asm, bin, log, due, sim, resim, report>>

\* The generator may fail: the job still ends with 0, but leaves no test.S.
run_instr_gen(t) ==
    LET j == <<"run_instr_gen", t>>
    IN  /\ pc[j] = "work"
        /\ \/ asm' = asm \cup {t} /\ To(j, "done") /\ UNCHANGED make
           \/ UNCHANGED asm /\ To(j, "done") /\ UNCHANGED make
           \/ UNCHANGED asm /\ Fail(j)
        /\ UNCHANGED <<makes, lock, mem, md, trr, built, bin, log, due, sim, resim, report>>

compile_test(t) ==
    LET j == <<"compile_test", t>>
    IN  /\ pc[j] = "work"
        /\ \/ /\ t \in Directed \cup asm
              /\ bin' = bin \cup {t} /\ To(j, "done") /\ UNCHANGED make
           \/ UNCHANGED bin /\ Fail(j)
        /\ UNCHANGED <<makes, lock, mem, md, trr, built, asm, log, due, sim, resim, report>>

\* The simulation ends in some way; one killed for time is marked in the pickle.
run_rtl(t, outcome) ==
    LET j == <<"run_rtl", t>>
    IN  /\ pc[j] = "work"
        /\ sim' = [sim EXCEPT ![t] = outcome]
        /\ resim' = IF sim[t] = "none" THEN resim ELSE resim \cup {t}
        /\ trr' = IF outcome = "killed"
                  THEN [trr EXCEPT ![t].failure_mode = "TIMEOUT"] ELSE trr
        /\ log' = log \cup {t} /\ due' = due \cup {t}
        /\ To(j, "done")
        /\ UNCHANGED <<makes, make, lock, mem, md, built, asm, bin, report>>

\* Mutant: errors in the log do not count.
ComparedNoErrors(r, outcome) ==
    CASE r.failure_mode = "TIMEOUT" -> [r EXCEPT !.passed = "False"]
      [] r.failure_mode # "TIMEOUT" /\ outcome \in {"no_trace", "killed"} ->
            [r EXCEPT !.passed = "False", !.failure_mode = "FILE_ERROR"]
      [] OTHER -> [r EXCEPT !.passed = "True"]

\* compare_test_run: what it makes of the pickle, given how the simulation went.
Compared(r, outcome) ==
    CASE r.failure_mode = "TIMEOUT" -> [r EXCEPT !.passed = "False"]
      [] r.failure_mode # "TIMEOUT" /\ outcome \in {"no_trace", "killed"} ->
            [r EXCEPT !.passed = "False", !.failure_mode = "FILE_ERROR"]
      [] r.failure_mode # "TIMEOUT" /\ outcome = "fail" ->
            [r EXCEPT !.failure_mode = "LOG_ERROR"]
      [] r.failure_mode # "TIMEOUT" /\ outcome = "uvm_timeout" ->
            [r EXCEPT !.failure_mode = "TIMEOUT"]
      [] r.failure_mode # "TIMEOUT" /\ outcome = "no_result" ->
            [r EXCEPT !.failure_mode = "NONE"]
      [] OTHER -> [r EXCEPT !.passed = "True"]

\* A log with the result FAILED and no error before it makes the script raise.
check_logs(t) ==
    LET j == <<"check_logs", t>>
    IN  /\ pc[j] = "work"
        /\ IF sim[t] = "fail_no_error_line" /\ trr[t].failure_mode # "TIMEOUT"
           THEN Fail(j) /\ UNCHANGED <<trr, due>>
           ELSE /\ trr' = [trr EXCEPT ![t] = Compared(trr[t], sim[t])]
                /\ due' = due \ {t}
                /\ To(j, "done") /\ UNCHANGED make
        /\ UNCHANGED <<makes, lock, mem, md, built, asm, bin, log, sim, resim, report>>

-----------------------------------------------------------------------------
(* Ending, interrupting and starting again                                  *)

Busy(j) == pc[j] \in {"locking", "body", "export", "work", "command"}

\* run_rtl exports trr.yaml after the log is written, so to the next make the
\* log has been checked.
MakeEnds ==
    /\ make \in {"running", "failing"}
    /\ \A j \in Jobs : ~Busy(j) /\ ~Ready(j)
    /\ make' = "off" /\ due' = {}
    /\ UNCHANGED <<makes, jobVars, md, trr, built, asm, bin, log, sim, resim, report>>

\* Every job dies where it is and the lock goes with its holder.  A pickle that
\* was being written is torn; make removes what a job had half made.
Interrupt ==
    /\ make # "off"
    /\ make' = "off" /\ lock' = NoJob /\ due' = {}
    /\ pc' = [j \in Jobs |-> "idle"] /\ mem' = [j \in Jobs |-> {}]
    /\ \E torn \in SUBSET {t \in Tests : \E k \in TestKinds : pc[<<k, t>>] = "work"} :
         trr' = [t \in Tests |-> IF t \in torn THEN [trr[t] EXCEPT !.state = "torn"] ELSE trr[t]]
    /\ UNCHANGED <<makes, md, built, asm, bin, log, sim, resim, report>>

\* A changed design makes the testbench and everything after it out of date.
EditRtl ==
    /\ make = "off" /\ log # {}
    /\ built' = built \ {"compile_tb", "get_fcov", "merge_cov", "collect_results"}
    /\ log' = {} /\ due' = {}
    /\ UNCHANGED <<makes, make, jobVars, md, trr, asm, bin, sim, resim, report>>

-----------------------------------------------------------------------------
Init ==
    /\ makes = 0
    /\ make = "off" /\ pc = [j \in Jobs |-> "idle"] /\ lock = NoJob
    /\ md = [state |-> "absent", fields |-> {}] /\ mem = [j \in Jobs |-> {}]
    /\ trr = [t \in Tests |-> [NewTrr EXCEPT !.state = "absent"]]
    /\ built = {} /\ asm = {} /\ bin = {} /\ log = {} /\ due = {}
    /\ sim = [t \in Tests |-> "none"] /\ resim = {}
    /\ report = [t \in Tests |-> "none"]

Locked(j) == \/ StartLocked(j) \/ Enter(j) \/ EnterTimeout(j) \/ ExitOpen(j)
             \/ ExitDump(j) \/ CommandOk(j) \/ CommandFails(j)

OfTest(t) == \/ CreateTest(t)
             \/ run_instr_gen(t) \/ compile_test(t) \/ check_logs(t)
             \/ \E outcome \in Outcomes : run_rtl(t, outcome)

Next ==
    \/ StartMake \/ CreateOpen \/ CreateDump
    \/ \E j \in Jobs : Locked(j) \/ StartTest(j)
    \/ \E t \in Tests : OfTest(t)
    \/ MakeEnds \/ Interrupt \/ EditRtl

Spec == Init /\ [][Next]_vars

\* The scripts and make go on; starting make and editing is up to the user.
FairSpec ==
    /\ Spec
    /\ WF_vars(CreateOpen) /\ WF_vars(CreateDump) /\ WF_vars(MakeEnds)
    /\ \A j \in Jobs : WF_vars(Locked(j)) /\ WF_vars(StartTest(j))
    /\ \A t \in Tests : WF_vars(OfTest(t))

-----------------------------------------------------------------------------
(* Properties *)

\* If there is metadata, every test it lists has a result file: creation may be
\* interrupted anywhere and is then either not begun or complete.
MetadataComplete ==
    md.state = "ok" => \A t \in Tests : trr[t].state # "absent"

\* Locked updates are never lost: what a finished job recorded in the metadata
\* is still there, whichever jobs updated it at the same time.
NoLostUpdate == md.state = "ok" => built \subseteq md.fields

\* The shared metadata is consistent with the result files and with the jobs
\* that are done, and the lock is held by the one job that is inside it.
MetadataConsistent == TypeOK /\ MetadataComplete /\ NoLostUpdate

\* For a test that was simulated once, PASS in the report means that its log
\* was checked and is free of errors.
FirstResultTruthful ==
    \A t \in Tests \ resim : report[t] = "PASS" => sim[t] = "pass"

\* A failure is never hidden by the jobs after it: when the report is written,
\* every test was simulated against the current testbench, and make is not
\* about to claim success while a test failed.
ReportComplete ==
    [][(report' # report /\ make # "off") =>
          /\ log = Tests /\ "compile_tb" \in built
          /\ \A j \in Jobs : j[1] \in TestKinds => pc[j] \in {"idle", "done"}]_vars

\* Make always comes to an end: no job waits for the lock, or for another job,
\* for ever.
MakeTerminates == (make # "off") ~> (make = "off")

\* "Pass/fail criteria is determined by any errors found" (check_logs.py):
\* whatever was run before in the same directory, PASS in the report means
\* that the last simulation of the test passed.
ReportTruthful ==
    \A t \in Tests : (report[t] = "PASS" /\ make # "off") => sim[t] = "pass"
=============================================================================
