-------------------------- MODULE RegressionProofs --------------------------
(***************************************************************************)
(* The metadata that parallel jobs share and the report they end in, for   *)
(* any number of tests, makes, interrupts and edits.                       *)
(***************************************************************************)
EXTENDS Regression, TLAPS

(* Before there is metadata, and while it is created, no job has run.      *)
Untouched == (md.state = "absent" \/ make = "creating") =>
                /\ built = {}
                /\ \A j \in Jobs : pc[j] = "idle"

(* Between a job's update and its stamp the update is in the file, and a   *)
(* job inside the lock has read all that is in it.                         *)
Recorded ==
    /\ built \subseteq md.fields
    /\ \A j \in Jobs : pc[j] = "command" => j[1] \in md.fields
    /\ \A j \in Jobs : pc[j] \in {"body", "export"} => md.fields \cup {j[1]} \subseteq mem[j]

ResultsExist == md.state # "absent" => \A t \in Tests : trr[t].state # "absent"

(* Only jobs of the regression as a whole take the lock.                   *)
LockersKnown ==
    \A j \in Jobs : pc[j] \in {"locking", "body", "export", "command"} => j[1] \in LockedKinds

(* Make is not at work without metadata, and no job outlives it.            *)
Quiet == /\ make = "off" => \A j \in Jobs : ~Busy(j)
         /\ md.state = "absent" => make \in {"off", "creating"}

MdInv == TypeOK /\ Untouched /\ Recorded /\ ResultsExist /\ LockersKnown /\ Quiet

(* A job is of one kind and belongs to one test or none.                   *)
LEMMA JobsType ==
  /\ NoJob \notin Jobs
  /\ \A j \in Jobs : j[1] \in LockedKinds \cup TestKinds
BY RegressionAssumption DEF Jobs, NoJob, LockedKinds, TestKinds

LEMMA MdInit == Init => MdInv
<1> SUFFICES ASSUME Init PROVE MdInv
  OBVIOUS
<1>1. TypeOK
  <2>1. lock \in Jobs \cup {NoJob} /\ \A j \in Jobs : pc[j] \in {"body", "export"} <=> lock = j
    BY JobsType DEF Init
  <2>2. trr \in [Tests -> [state : {"absent", "ok", "torn"},
                          passed : {None, "True", "False"},
                          failure_mode : {None, "NONE", "TIMEOUT", "FILE_ERROR", "LOG_ERROR"}]]
    BY DEF Init, NewTrr
  <2>3. makes \in 0..MaxMakes
    BY RegressionAssumption DEF Init
  <2>4. QED
    BY <2>1, <2>2, <2>3 DEF Init, TypeOK
<1>2. QED
  BY <1>1 DEF Init, MdInv, Untouched, Recorded, ResultsExist, LockersKnown, Quiet, Busy

(* The pickles of the tests.                                                *)
Result == [state : {"absent", "ok", "torn"},
           passed : {None, "True", "False"},
           failure_mode : {None, "NONE", "TIMEOUT", "FILE_ERROR", "LOG_ERROR"}]
Results == [Tests -> Result]

(* Checking a log does not change whether the pickle can be loaded.         *)
LEMMA ComparedType ==
  ASSUME NEW r \in Result, NEW outcome
  PROVE  Compared(r, outcome) \in Result /\ Compared(r, outcome).state = r.state
BY DEF Compared, Result

(* A job of a test that ends leaves the metadata and its lock alone.        *)
LEMMA TestJobEnds ==
  ASSUME MdInv, NEW t \in Tests, NEW kind \in TestKinds, pc[<<kind, t>>] = "work",
         (To(<<kind, t>>, "done") /\ UNCHANGED make) \/ Fail(<<kind, t>>),
         UNCHANGED <<makes, lock, mem, md, built, report>>,
         trr' \in Results, \A u \in Tests : trr'[u].state = trr[u].state,
         asm' \subseteq Tests, bin' \subseteq Tests, log' \subseteq Tests, due' \subseteq log',
         sim' \in [Tests -> Outcomes \cup {"none"}], resim' \subseteq Tests
  PROVE  MdInv'
<1> DEFINE j == <<kind, t>>
<1>1. j \in Jobs
  BY DEF Jobs
<1> HIDE DEF j
<1>2. (To(j, "done") /\ UNCHANGED make) \/ Fail(j)
  BY DEF j
<1>3. pc[j] = "work"
  BY DEF j
<1>4. make # "creating" /\ md.state # "absent"
  BY <1>1, <1>3 DEF MdInv, Untouched
<1>5. TypeOK'
  <2>1. /\ pc' \in [Jobs -> {"idle", "locking", "body", "export", "work", "command",
                               "done", "failed"}]
        /\ \A k \in Jobs : pc'[k] \in {"body", "export"} <=> lock = k
    BY <1>1, <1>2, <1>3 DEF MdInv, TypeOK, To, Fail
  <2>2. make' \in {"off", "creating", "running", "failing"}
    BY <1>2 DEF MdInv, TypeOK, Fail
  <2>3. QED
    BY <2>1, <2>2 DEF MdInv, TypeOK, Results, Result
<1>6. Untouched' /\ ResultsExist' /\ Quiet'
  BY <1>1, <1>2, <1>3, <1>4 DEF MdInv, TypeOK, Untouched, ResultsExist, Quiet, Busy, To, Fail
<1>7. Recorded' /\ LockersKnown'
  BY <1>1, <1>2, <1>3, SMTT(30) DEF MdInv, TypeOK, Recorded, LockersKnown, To, Fail
<1>8. QED
  BY <1>5, <1>6, <1>7 DEF MdInv

(* A step of the user, of make or of the creation of the metadata.          *)
LEMMA MakeStep ==
  ASSUME MdInv, StartMake \/ CreateOpen \/ CreateDump \/ MakeEnds \/ Interrupt \/ EditRtl
  PROVE  MdInv'
<1> USE JobsType DEF MdInv, TypeOK, Untouched, Recorded, ResultsExist, LockersKnown, Quiet, Busy
<1>1. CASE StartMake
  <2>1. makes' \in 0..MaxMakes
    BY <1>1, RegressionAssumption DEF StartMake
  <2>2. lock = NoJob
    BY <1>1 DEF StartMake
  <2>3. TypeOK'
    BY <1>1, <2>1, <2>2 DEF StartMake
  <2>4. QED
    BY <1>1, <2>3 DEF StartMake
<1>2. CASE CreateOpen
  BY <1>2 DEF CreateOpen, jobVars, NewTrr
<1>3. CASE CreateDump
  BY <1>3 DEF CreateDump, jobVars
<1>4. CASE MakeEnds
  BY <1>4 DEF MakeEnds, jobVars
<1>5. CASE Interrupt
  <2>1. PICK torn \in SUBSET Tests :
          trr' = [t \in Tests |-> IF t \in torn THEN [trr[t] EXCEPT !.state = "torn"] ELSE trr[t]]
    BY <1>5 DEF Interrupt
  <2>2. trr' \in Results /\ (ResultsExist => ResultsExist')
    <3>1. \A t \in Tests : [trr[t] EXCEPT !.state = "torn"] \in Result
      BY DEF Result
    <3>2. \A t \in Tests : trr[t] \in Result /\ [trr[t] EXCEPT !.state = "torn"].state = "torn"
      BY DEF Result
    <3>3. trr' \in Results
      BY <2>1, <3>1, <3>2 DEF Results
    <3>4. \A t \in Tests : trr'[t].state \in {"torn", trr[t].state}
      BY <2>1, <3>2
    <3>5. QED
      BY <1>5, <3>3, <3>4 DEF Interrupt
  <2>3. TypeOK'
    BY <1>5, <2>2 DEF Interrupt, Results, Result
  <2>4. QED
    BY <1>5, <2>2, <2>3 DEF Interrupt
<1>6. CASE EditRtl
  BY <1>6 DEF EditRtl, jobVars
<1>7. QED
  BY <1>1, <1>2, <1>3, <1>4, <1>5, <1>6

(* A step of a job that updates the metadata.                               *)
LEMMA LockedStep ==
  ASSUME MdInv, NEW j \in Jobs, Locked(j)
  PROVE  MdInv'
<1> USE JobsType DEF MdInv, TypeOK, Untouched, Recorded, ResultsExist, LockersKnown, Quiet, Busy
<1>1. CASE StartLocked(j)
  BY <1>1 DEF StartLocked, To, Ready
<1>2. CASE Enter(j)
  <2>1. CASE md.state = "ok"
    <3>1. TypeOK'
      BY <1>2, <2>1, SMTT(30) DEF Enter, To
    <3>2. /\ pc' = [pc EXCEPT ![j] = "body"]
          /\ mem' = [mem EXCEPT ![j] = md.fields \cup {j[1]}]
          /\ UNCHANGED <<make, md, built, trr>> /\ lock' = j /\ pc[j] = "locking"
      BY <1>2, <2>1 DEF Enter, To
    <3>3. Recorded'
      BY <3>2
    <3>4. Untouched' /\ ResultsExist' /\ LockersKnown' /\ Quiet'
      BY <2>1, <3>2
    <3>5. QED
      BY <3>1, <3>3, <3>4
  <2>2. CASE md.state # "ok"
    BY <1>2, <2>2 DEF Enter, To, Fail
  <2>3. QED
    BY <2>1, <2>2
<1>3. CASE EnterTimeout(j)
  BY <1>3 DEF EnterTimeout, To, Fail
<1>4. CASE ExitOpen(j)
  BY <1>4 DEF ExitOpen, To
<1>5. CASE ExitDump(j)
  BY <1>5 DEF ExitDump, To, Fail
<1>6. CASE CommandOk(j)
  BY <1>6 DEF CommandOk, To
<1>7. CASE CommandFails(j)
  BY <1>7 DEF CommandFails, To, Fail
<1>8. QED
  BY <1>1, <1>2, <1>3, <1>4, <1>5, <1>6, <1>7 DEF Locked

(* A step of a job of a test, which only reads the metadata.                *)
LEMMA TestStep ==
  ASSUME MdInv, (\E j \in Jobs : StartTest(j)) \/ (\E t \in Tests : OfTest(t))
  PROVE  MdInv'
<1> USE JobsType DEF MdInv, TypeOK, Untouched, Recorded, ResultsExist, LockersKnown, Quiet, Busy
<1>1. CASE \E j \in Jobs : StartTest(j)
  BY <1>1 DEF StartTest, To, Ready, Fail
<1>2. ASSUME NEW t \in Tests, CreateTest(t) PROVE MdInv'
  BY <1>2 DEF CreateTest, NewTrr, jobVars
<1>3. trr \in Results
  BY DEF Results, Result
<1>4. ASSUME NEW t \in Tests, run_instr_gen(t) PROVE MdInv'
  <2>1. "run_instr_gen" \in TestKinds
    BY DEF TestKinds
  <2>2. asm' \subseteq Tests
    BY <1>4 DEF run_instr_gen
  <2>3. QED
    BY <1>3, <1>4, <2>1, <2>2, TestJobEnds DEF run_instr_gen
<1>5. ASSUME NEW t \in Tests, compile_test(t) PROVE MdInv'
  <2>1. "compile_test" \in TestKinds
    BY DEF TestKinds
  <2>2. bin' \subseteq Tests
    BY <1>5 DEF compile_test
  <2>3. QED
    BY <1>3, <1>5, <2>1, <2>2, TestJobEnds DEF compile_test
<1>6. ASSUME NEW t \in Tests, check_logs(t) PROVE MdInv'
  <2>1. "check_logs" \in TestKinds
    BY DEF TestKinds
  <2>2. trr' \in Results /\ \A u \in Tests : trr'[u].state = trr[u].state
    BY <1>3, <1>6, ComparedType DEF check_logs, Results
  <2>3. due' \subseteq log'
    BY <1>6 DEF check_logs
  <2>4. QED
    BY <1>6, <2>1, <2>2, <2>3, TestJobEnds DEF check_logs
<1>7. ASSUME NEW t \in Tests, NEW outcome \in Outcomes, run_rtl(t, outcome) PROVE MdInv'
  <2>1. "run_rtl" \in TestKinds
    BY DEF TestKinds
  <2>2. trr' \in Results /\ \A u \in Tests : trr'[u].state = trr[u].state
    BY <1>3, <1>7 DEF run_rtl, Results, Result
  <2>3. /\ log' \subseteq Tests /\ due' \subseteq log' /\ resim' \subseteq Tests
        /\ sim' \in [Tests -> Outcomes \cup {"none"}]
    BY <1>7 DEF run_rtl
  <2>4. UNCHANGED <<makes, lock, mem, md, built, report, make, asm, bin>>
    BY <1>7 DEF run_rtl
  <2>5. pc[<<"run_rtl", t>>] = "work" /\ To(<<"run_rtl", t>>, "done")
    BY <1>7 DEF run_rtl
  <2>6. QED
    BY <2>1, <2>2, <2>3, <2>4, <2>5, TestJobEnds
<1>8. QED
  BY <1>1, <1>2, <1>4, <1>5, <1>6, <1>7 DEF OfTest

LEMMA MdStep == MdInv /\ [Next]_vars => MdInv'
<1> SUFFICES ASSUME MdInv, [Next]_vars PROVE MdInv'
  OBVIOUS
<1>1. CASE StartMake \/ CreateOpen \/ CreateDump \/ MakeEnds \/ Interrupt \/ EditRtl
  BY <1>1, MakeStep
<1>2. CASE \E j \in Jobs : Locked(j)
  BY <1>2, LockedStep
<1>3. CASE (\E j \in Jobs : StartTest(j)) \/ (\E t \in Tests : OfTest(t))
  BY <1>3, TestStep
<1>4. CASE UNCHANGED vars
  BY <1>4 DEF vars, jobVars, MdInv, TypeOK, Untouched, Recorded, ResultsExist, LockersKnown, Quiet, Busy
<1>5. QED
  BY <1>1, <1>2, <1>3, <1>4 DEF Next

(* However many jobs update metadata.pickle at once, wherever make is      *)
(* interrupted and however often it is started again: one job holds the    *)
(* lock, no finished job's update is lost, and metadata that is there has  *)
(* all its result files.                                                    *)
THEOREM MetadataAlwaysConsistent == Spec => []MetadataConsistent
<1>1. MdInv => MetadataConsistent
  BY DEF MdInv, MetadataConsistent, MetadataComplete, NoLostUpdate, Recorded, ResultsExist
<1>2. QED
  BY <1>1, MdInit, MdStep, PTL DEF Spec

-----------------------------------------------------------------------------
(* What make has built, and what a job at work is there to build.           *)
Chain ==
    /\ log \subseteq bin /\ bin \subseteq asm \cup Directed
    /\ log # {} => "compile_tb" \in built

AtWork ==
    \A j \in Jobs : pc[j] = "work" =>
        /\ j[1] \in TestKinds
        /\ j[1] = "run_instr_gen" => j[2] \notin asm \cup Directed
        /\ j[1] = "compile_test" => j[2] \notin bin
        /\ j[1] = "run_rtl" => j[2] \in bin \ log /\ "compile_tb" \in built
        /\ j[1] = "check_logs" => j[2] \in due

(* A failed job keeps make from starting others.                            *)
FailedStops == \A j \in Jobs : pc[j] = "failed" => make # "running"

(* The results are collected when every test is simulated and checked.      *)
Collecting ==
    \A j \in Jobs : (j[1] = "collect_results" /\ pc[j] \in {"locking", "body"}) =>
        /\ log = Tests /\ due = {}
        /\ \A k \in Jobs : k[1] \in TestKinds => pc[k] \in {"idle", "done"}

ReportInv == MdInv /\ Chain /\ AtWork /\ FailedStops /\ Collecting

LEMMA JobNames ==
  /\ \A j \in Jobs : j = <<j[1], j[2]>>
  /\ \A j \in Jobs : j[1] \in TestKinds <=> j[1] \notin LockedKinds
  /\ \A j \in Jobs : j[1] \in TestKinds => j[2] \in Tests
  /\ \A k \in TestKinds, t \in Tests : <<k, t>> \in Jobs
BY DEF Jobs, LockedKinds, TestKinds

LEMMA ReportInit == Init => ReportInv
BY MdInit DEF Init, ReportInv, Chain, AtWork, FailedStops, Collecting

LEMMA ReportMake ==
  ASSUME ReportInv, StartMake \/ CreateOpen \/ CreateDump \/ MakeEnds \/ Interrupt \/ EditRtl
  PROVE  Chain' /\ AtWork' /\ FailedStops' /\ Collecting'
<1> USE DEF ReportInv, Chain, AtWork, FailedStops, Collecting
<1>1. CASE StartMake
  BY <1>1 DEF StartMake
<1>2. CASE CreateOpen
  BY <1>2 DEF CreateOpen, jobVars
<1>3. CASE CreateDump
  BY <1>3 DEF CreateDump, jobVars, MdInv, Untouched
<1>4. CASE MakeEnds
  BY <1>4 DEF MakeEnds, jobVars, Busy
<1>5. CASE Interrupt
  BY <1>5 DEF Interrupt
<1>6. CASE EditRtl
  BY <1>6 DEF EditRtl, jobVars, MdInv, Quiet, Busy
<1>7. QED
  BY <1>1, <1>2, <1>3, <1>4, <1>5, <1>6

LEMMA ReportLocked ==
  ASSUME ReportInv, NEW j \in Jobs, Locked(j)
  PROVE  Chain' /\ AtWork' /\ FailedStops' /\ Collecting'
<1> USE JobNames DEF ReportInv, Chain, AtWork, FailedStops, Collecting
<1>0. pc \in [Jobs -> {"idle", "locking", "body", "export", "work", "command", "done", "failed"}]
  BY DEF MdInv, TypeOK
<1>1. CASE StartLocked(j)
  <2>1. Chain' /\ AtWork' /\ FailedStops'
    BY <1>0, <1>1 DEF StartLocked, To, Ready
  <2>2. CASE j[1] = "collect_results"
    <3>1. log = Tests /\ due = {} /\ make = "running"
      BY <1>1, <2>2 DEF StartLocked, Ready, Prerequisites, AllChecked
    <3>2. ASSUME NEW k \in Jobs, k[1] \in TestKinds PROVE pc[k] \in {"idle", "work", "done"}
      BY <1>0, <3>1, <3>2 DEF MdInv, LockersKnown, TypeOK
    <3>3. ASSUME NEW k \in Jobs, k[1] \in TestKinds PROVE pc[k] # "work"
      BY <1>0, <3>1, <3>3 DEF TestKinds
    <3>4. QED
      BY <1>0, <1>1, <3>1, <3>2, <3>3 DEF StartLocked, To
  <2>3. CASE j[1] # "collect_results"
    BY <1>0, <1>1, <2>3 DEF StartLocked, To
  <2>4. QED
    BY <2>1, <2>2, <2>3
<1>2. CASE Enter(j)
  BY <1>0, <1>2 DEF Enter, To, Fail, MdInv, LockersKnown
<1>3. CASE EnterTimeout(j)
  BY <1>0, <1>3 DEF EnterTimeout, To, Fail, MdInv, LockersKnown
<1>4. CASE ExitOpen(j)
  BY <1>0, <1>4 DEF ExitOpen, To, MdInv, LockersKnown
<1>5. CASE ExitDump(j)
  BY <1>0, <1>5 DEF ExitDump, To, Fail, MdInv, LockersKnown
<1>6. CASE CommandOk(j)
  BY <1>0, <1>6 DEF CommandOk, To, MdInv, LockersKnown
<1>7. CASE CommandFails(j)
  BY <1>0, <1>7 DEF CommandFails, To, Fail, MdInv, LockersKnown
<1>8. QED
  BY <1>1, <1>2, <1>3, <1>4, <1>5, <1>6, <1>7 DEF Locked

LEMMA ReportTest ==
  ASSUME ReportInv, (\E j \in Jobs : StartTest(j)) \/ (\E t \in Tests : OfTest(t))
  PROVE  Chain' /\ AtWork' /\ FailedStops' /\ Collecting'
<1> USE JobNames DEF ReportInv, Chain, AtWork, FailedStops, Collecting
<1>0. pc \in [Jobs -> {"idle", "locking", "body", "export", "work", "command", "done", "failed"}]
  BY DEF MdInv, TypeOK
<1>1. ASSUME NEW j \in Jobs, StartTest(j) PROVE Chain' /\ AtWork' /\ FailedStops' /\ Collecting'
  <2>1. j[1] \in TestKinds /\ make = "running" /\ Prerequisites(j) /\ ~UpToDate(j)
    BY <1>1 DEF StartTest, Ready
  <2>2. /\ j[1] = "run_instr_gen" => j[2] \notin asm \cup Directed
        /\ j[1] = "compile_test" => j[2] \notin bin
        /\ j[1] = "run_rtl" => j[2] \in bin \ log /\ "compile_tb" \in built
        /\ j[1] = "check_logs" => j[2] \in due
    BY <2>1 DEF Prerequisites, UpToDate, LockedKinds, TestKinds
  <2>3. Chain' /\ AtWork' /\ FailedStops'
    BY <1>0, <1>1, <2>1, <2>2 DEF StartTest, To, Fail
  <2>4. log # Tests \/ due # {}
    BY <2>1, <2>2 DEF TestKinds
  <2>5. QED
    BY <1>0, <1>1, <2>1, <2>3, <2>4 DEF StartTest, To, Fail
<1>2. ASSUME NEW t \in Tests, CreateTest(t) PROVE Chain' /\ AtWork' /\ FailedStops' /\ Collecting'
  BY <1>2 DEF CreateTest, jobVars
<1>3. ASSUME NEW t \in Tests, run_instr_gen(t) PROVE Chain' /\ AtWork' /\ FailedStops' /\ Collecting'
  BY <1>0, <1>3 DEF run_instr_gen, To, Fail, TestKinds
<1>4. ASSUME NEW t \in Tests, compile_test(t) PROVE Chain' /\ AtWork' /\ FailedStops' /\ Collecting'
  BY <1>0, <1>4 DEF compile_test, To, Fail, TestKinds
<1>5. ASSUME NEW t \in Tests, check_logs(t) PROVE Chain' /\ AtWork' /\ FailedStops' /\ Collecting'
  BY <1>0, <1>5 DEF check_logs, To, Fail, TestKinds
<1>6. ASSUME NEW t \in Tests, NEW outcome \in Outcomes, run_rtl(t, outcome)
      PROVE  Chain' /\ AtWork' /\ FailedStops' /\ Collecting'
  BY <1>0, <1>6 DEF run_rtl, To, TestKinds
<1>7. QED
  BY <1>1, <1>2, <1>3, <1>4, <1>5, <1>6 DEF OfTest

LEMMA ReportStep == ReportInv /\ [Next]_vars => ReportInv'
<1> SUFFICES ASSUME ReportInv, [Next]_vars PROVE ReportInv'
  OBVIOUS
<1>0. MdInv'
  BY MdStep DEF ReportInv
<1>1. CASE StartMake \/ CreateOpen \/ CreateDump \/ MakeEnds \/ Interrupt \/ EditRtl
  BY <1>0, <1>1, ReportMake DEF ReportInv
<1>2. CASE \E j \in Jobs : Locked(j)
  BY <1>0, <1>2, ReportLocked DEF ReportInv
<1>3. CASE (\E j \in Jobs : StartTest(j)) \/ (\E t \in Tests : OfTest(t))
  BY <1>0, <1>3, ReportTest DEF ReportInv
<1>4. CASE UNCHANGED vars
  BY <1>0, <1>4 DEF vars, jobVars, ReportInv, Chain, AtWork, FailedStops, Collecting
<1>5. QED
  BY <1>1, <1>2, <1>3, <1>4 DEF Next

(* However the jobs interleave, fail or are interrupted, regr.log is only   *)
(* written when every test has been simulated on the current testbench and  *)
(* no job of a test is under way or has failed.                             *)
THEOREM ReportAlwaysComplete == Spec => ReportComplete
<1> DEFINE Written ==
      (report' # report /\ make # "off") =>
          /\ log = Tests /\ "compile_tb" \in built
          /\ \A j \in Jobs : j[1] \in TestKinds => pc[j] \in {"idle", "done"}
<1>1. ReportInv /\ [Next]_vars => [Written]_vars
  <2> SUFFICES ASSUME ReportInv, Next, report' # report, make # "off"
               PROVE  /\ log = Tests /\ "compile_tb" \in built
                      /\ \A j \in Jobs : j[1] \in TestKinds => pc[j] \in {"idle", "done"}
    OBVIOUS
  <2>1. ~StartMake /\ ~CreateOpen /\ ~CreateDump /\ ~MakeEnds /\ ~Interrupt /\ ~EditRtl
    BY DEF StartMake, CreateOpen, CreateDump, MakeEnds, Interrupt, EditRtl
  <2>2. (\A j \in Jobs : ~StartTest(j)) /\ (\A t \in Tests : ~OfTest(t))
    BY DEF StartTest, OfTest, CreateTest, run_instr_gen, compile_test, check_logs, run_rtl
  <2>3. PICK j \in Jobs : Locked(j)
    BY <2>1, <2>2 DEF Next
  <2>4. ExitOpen(j)
    BY <2>3 DEF Locked, StartLocked, Enter, EnterTimeout, ExitDump, CommandOk, CommandFails
  <2>5. Collects(j) /\ report' = [t \in Tests |-> IF trr[t].passed = "True" THEN "PASS" ELSE "FAILED"]
    BY <2>4 DEF ExitOpen
  <2>6. j[1] = "collect_results" /\ pc[j] = "body"
    BY <2>4, <2>5 DEF ExitOpen, Collects
  <2>7. Tests # {}
    BY <2>5 DEF ReportInv, MdInv, TypeOK
  <2>8. QED
    BY <2>6, <2>7 DEF ReportInv, Collecting, Chain
<1>2. QED
  BY <1>1, ReportInit, ReportStep, PTL DEF Spec, ReportComplete

-----------------------------------------------------------------------------
(* A pickle that says a test passed, and a report made of it, speak of the  *)
(* one simulation the test had.                                             *)
PassInv ==
    /\ \A t \in log : sim[t] # "none"
    /\ \A t \in Tests \ resim : trr[t].passed = "True" => sim[t] = "pass"
    /\ FirstResultTruthful

LEMMA PassInit == Init => PassInv
BY DEF Init, PassInv, FirstResultTruthful, NewTrr, None

(* Checking a log turns a result into a pass only after a clean simulation. *)
LEMMA ComparedPass ==
  ASSUME NEW r \in Result, NEW outcome \in AllOutcomes,
         outcome # "fail_no_error_line" \/ r.failure_mode = "TIMEOUT",
         Compared(r, outcome).passed = "True"
  PROVE  r.passed = "True" \/ outcome = "pass"
<1>1. CASE outcome = "pass"
  BY <1>1
<1>2. CASE r.failure_mode = "TIMEOUT"
  BY <1>2 DEF Compared, Result
<1>3. CASE outcome # "pass" /\ r.failure_mode # "TIMEOUT"
  <2>1. outcome \in {"no_trace", "killed", "fail", "uvm_timeout", "no_result"}
    BY <1>3 DEF AllOutcomes
  <2>2. CASE outcome \in {"no_trace", "killed"}
    BY <1>3, <2>2 DEF Compared, Result
  <2>3. CASE outcome \in {"fail", "uvm_timeout", "no_result"}
    BY <1>3, <2>3 DEF Compared, Result
  <2>4. QED
    BY <2>1, <2>2, <2>3
<1>4. QED
  BY <1>1, <1>2, <1>3

LEMMA PassStep == ReportInv /\ PassInv /\ [Next]_vars => PassInv'
<1> SUFFICES ASSUME ReportInv, PassInv, [Next]_vars PROVE PassInv'
  OBVIOUS
<1> USE DEF PassInv, FirstResultTruthful
<1>0. TypeOK /\ trr \in Results
  BY DEF ReportInv, MdInv, TypeOK, Results, Result
<1>1. CASE StartMake \/ CreateOpen \/ CreateDump \/ MakeEnds \/ EditRtl \/ UNCHANGED vars
  BY <1>1 DEF StartMake, CreateOpen, CreateDump, MakeEnds, EditRtl, vars, jobVars
<1>2. CASE Interrupt
  <2>1. \A t \in Tests : trr'[t].passed = trr[t].passed
    BY <1>0, <1>2 DEF Interrupt, Results, Result
  <2>2. QED
    BY <1>2, <2>1 DEF Interrupt
<1>3. ASSUME NEW j \in Jobs, Locked(j) \/ StartTest(j) PROVE PassInv'
  <2>1. CASE ExitOpen(j)
    BY <2>1 DEF ExitOpen
  <2>2. CASE ~ExitOpen(j)
    <3>1. UNCHANGED <<trr, log, sim, resim, report>>
      BY <1>3, <2>2 DEF Locked, StartLocked, Enter, EnterTimeout, ExitDump, CommandOk,
                        CommandFails, StartTest
    <3>2. QED
      BY <3>1
  <2>3. QED
    BY <2>1, <2>2
<1>4. ASSUME NEW t \in Tests, CreateTest(t) \/ run_instr_gen(t) \/ compile_test(t) PROVE PassInv'
  BY <1>0, <1>4 DEF CreateTest, run_instr_gen, compile_test, NewTrr, None, Results
<1>5. ASSUME NEW t \in Tests, check_logs(t) PROVE PassInv'
  <2>1. t \in due /\ sim[t] # "none" /\ sim[t] \in AllOutcomes
    <3>1. <<"check_logs", t>> \in Jobs /\ pc[<<"check_logs", t>>] = "work"
      BY <1>5, JobNames DEF check_logs, TestKinds
    <3>2. t \in due
      BY <3>1 DEF ReportInv, AtWork
    <3>3. QED
      BY <1>0, <3>2, RegressionAssumption DEF TypeOK
  <2>2. \A u \in Tests \ {t} : trr'[u] = trr[u]
    BY <1>0, <1>5 DEF check_logs, Results
  <2>3. trr'[t].passed = "True" => trr[t].passed = "True" \/ sim[t] = "pass"
    <3>1. trr[t] \in Result /\ t \in DOMAIN trr
      BY <1>0 DEF Results
    <3>2. CASE sim[t] = "fail_no_error_line" /\ trr[t].failure_mode # "TIMEOUT"
      BY <1>5, <3>2 DEF check_logs
    <3>3. CASE ~(sim[t] = "fail_no_error_line" /\ trr[t].failure_mode # "TIMEOUT")
      <4>1. trr'[t] = Compared(trr[t], sim[t])
        BY <1>5, <3>1, <3>3 DEF check_logs
      <4>2. QED
        BY <2>1, <3>1, <3>3, <4>1, ComparedPass
    <3>4. QED
      BY <3>2, <3>3
  <2>4. QED
    BY <1>5, <2>2, <2>3 DEF check_logs
<1>6. ASSUME NEW t \in Tests, NEW outcome \in Outcomes, run_rtl(t, outcome) PROVE PassInv'
  <2>1. \A u \in Tests : trr'[u].passed = trr[u].passed
    BY <1>0, <1>6 DEF run_rtl, Results, Result
  <2>2. /\ \A u \in Tests \ {t} : sim'[u] = sim[u]
        /\ sim'[t] = outcome /\ log' = log \cup {t} /\ report' = report
        /\ resim' = IF sim[t] = "none" THEN resim ELSE resim \cup {t}
    BY <1>0, <1>6 DEF run_rtl, TypeOK
  <2>3. outcome # "none"
    BY RegressionAssumption DEF AllOutcomes
  <2>4. log \subseteq Tests
    BY <1>0 DEF TypeOK
  <2>5. QED
    BY <2>1, <2>2, <2>3, <2>4
<1>7. QED
  BY <1>1, <1>2, <1>3, <1>4, <1>5, <1>6 DEF Next, OfTest

(* Whatever the simulations do and in whatever order they are run, checked  *)
(* and reported, a test that was simulated once and is reported as PASS did *)
(* pass.                                                                    *)
THEOREM FirstResultsTruthful == Spec => []FirstResultTruthful
<1>1. PassInv => FirstResultTruthful
  BY DEF PassInv
<1>2. QED
  BY <1>1, PassInit, PassStep, ReportInit, ReportStep, PTL DEF Spec

=============================================================================
