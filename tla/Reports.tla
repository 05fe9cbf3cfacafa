------------------------------ MODULE Reports ------------------------------
(***************************************************************************)
(* collect_results.py and report_lib: the results of a regression, and the *)
(* coverage xcelium reports, become six files, one after the other.  A step *)
(* that raises leaves the file it had opened empty and ends the script.    *)
(***************************************************************************)
EXTENDS Integers, Sequences, SequencesExt, FiniteSets, FiniteSetsExt

CONSTANTS
    ReportTests,  \* names of tests
    MaxRuns,      \* bound: runs of a regression
    CovReports    \* what the coverage tool may have left, see below

\* A coverage report has log: whether merging ran; readable: whether both text
\* files have a table; rows: metric of ibex_top -> <<covered, total>>; and
\* groups: module -> <<>> or <<covergroup average>>.
ASSUME ReportsAssumption == MaxRuns \in Nat \ {0}

VARIABLES
    results,           \* the result pickles in the order of tests_pickle_files
    simulator_, cov_report, svg_present,
    passing_tests, failing_tests,
    test_summary_dict, cov_summary_dict,
    files,             \* report -> its contents
    rstep              \* next step of main, "returned", "raised" or, by a pickle, "unread"

repVars == <<results, simulator_, cov_report, svg_present, passing_tests, failing_tests,
             test_summary_dict, cov_summary_dict, files, rstep>>
inputs == <<results, simulator_, cov_report, svg_present>>

Metrics == {"block", "branch", "statement", "expression", "toggle", "fsm", "assertion"}
COVERGROUP_IGNORE == {"push_pull_agent_pkg"}
Absent == <<>>

-----------------------------------------------------------------------------
(* main: the pickles *)

\* Whether construct_from_pickle returns.
Loads(trr) == trr.outcome # "unreadable"

Collect ==
    /\ rstep = "collect"
    /\ \E n \in {Len(passing_tests) + Len(failing_tests) + 1} :
         IF n > Len(results)
         THEN rstep' = "junit" /\ UNCHANGED <<passing_tests, failing_tests>>
         ELSE /\ Loads(results[n])
              /\ IF results[n].outcome = "pass"
                 THEN /\ passing_tests' = Append(passing_tests, results[n])
                      /\ UNCHANGED failing_tests
                 ELSE /\ failing_tests' = Append(failing_tests, results[n])
                      /\ UNCHANGED passing_tests
              /\ UNCHANGED rstep
    /\ UNCHANGED <<inputs, test_summary_dict, cov_summary_dict, files>>

\* A pickle that is missing or torn ends the script before any report: opening
\* and unpickling raise OSError, EOFError or UnpicklingError, which nothing
\* catches, and the handler of RuntimeError raises TypeError itself, because
\* TestRunResult has no field called name.
CollectBroken ==
    /\ rstep = "collect"
    /\ \E n \in {Len(passing_tests) + Len(failing_tests) + 1} :
         n <= Len(results) /\ ~Loads(results[n])
    /\ rstep' = "unread"
    /\ UNCHANGED <<inputs, passing_tests, failing_tests, test_summary_dict, cov_summary_dict,
                   files>>

all_tests == passing_tests \o failing_tests

-----------------------------------------------------------------------------
(* junit_xml.py and text.py *)

Passed(trr) == trr.outcome = "pass"

\* A suite per test name with a case per run, and a suite per test name with
\* one case that fails if a run failed.
JunitCases == {[test |-> r.test, seed |-> r.seed, failed |-> ~Passed(r)] : r \in ToSet(all_tests)}
JunitMerged ==
    [t \in {r.test : r \in ToSet(all_tests)} |->
        \E r \in ToSet(all_tests) : r.test = t /\ ~Passed(r)]

\* Mutant: the text report comes after the coverage summary.
output_run_results_junit_xml_TextLater ==
    /\ rstep = "junit"
    /\ files' = [files EXCEPT !.junit = <<JunitCases, JunitMerged>>]
    /\ rstep' = "cov"
    /\ UNCHANGED <<inputs, passing_tests, failing_tests, test_summary_dict, cov_summary_dict>>

output_run_results_junit_xml ==
    /\ rstep = "junit"
    /\ files' = [files EXCEPT !.junit = <<JunitCases, JunitMerged>>]
    /\ rstep' = "text"
    /\ UNCHANGED <<inputs, passing_tests, failing_tests, test_summary_dict, cov_summary_dict>>

\* TEST.SEED -> PASS, FAILED or FAILED {T}, as main collected it.
SummaryLine(r) == <<r.test, r.seed, IF Passed(r) THEN "PASS"
                                    ELSE IF r.outcome = "timeout" THEN "FAILED {T}" ELSE "FAILED">>

gen_summary_line == <<Len(passing_tests), Len(failing_tests)>>

create_test_summary_dict(tests) ==
    LET runs(t, ok) == Cardinality({r \in ToSet(tests) : r.test = t /\ Passed(r) = ok})
    IN  [t \in {r.test : r \in ToSet(tests)} |-> [passing |-> runs(t, TRUE), failing |-> runs(t, FALSE)]]

\* regr.log, and the summary the later reports are made from.
output_results_text ==
    /\ rstep = "text"
    /\ files' = [files EXCEPT !.text = <<gen_summary_line, {SummaryLine(r) : r \in ToSet(results)}>>]
    /\ test_summary_dict' = create_test_summary_dict(all_tests)
    /\ rstep' = "cov"
    /\ UNCHANGED <<inputs, passing_tests, failing_tests, cov_summary_dict>>

-----------------------------------------------------------------------------
(* util.py: coverage *)

\* Total and number of the covergroup averages; Absent is Python's None.
calc_cg_average ==
    LET groups == {m \in DOMAIN cov_report.groups \ COVERGROUP_IGNORE :
                       cov_report.groups[m] # Absent}
    IN  IF groups = {} THEN Absent
        ELSE <<MapThenSumSet(LAMBDA m : cov_report.groups[m][1], groups), Cardinality(groups)>>

\* add_cov_to_summary divides by the number of items: zero of them raises.
create_cov_summary_dict ==
    LET zero == \E m \in DOMAIN cov_report.rows : cov_report.rows[m][2] = 0
        covered == [m \in DOMAIN cov_report.rows \cup {"covergroup"} |->
                       IF m = "covergroup" THEN calc_cg_average ELSE cov_report.rows[m]]
    IN  /\ rstep = "cov"
        /\ \/ /\ simulator_ # "xlm" \/ ~cov_report.log
              /\ rstep' = "html" /\ UNCHANGED cov_summary_dict
           \/ /\ simulator_ = "xlm" /\ cov_report.log
              /\ IF cov_report.readable /\ ~zero
                 THEN cov_summary_dict' = covered /\ rstep' = "html"
                 ELSE UNCHANGED cov_summary_dict /\ rstep' = "raised"
        /\ UNCHANGED <<inputs, passing_tests, failing_tests, test_summary_dict, files>>

\* Formatting a metric that is missing, or a covergroup average of None, raises.
Printable(needed) ==
    \/ cov_summary_dict = Absent
    \/ /\ needed \cup {"covergroup"} \subseteq DOMAIN cov_summary_dict
       /\ cov_summary_dict["covergroup"] # Absent

-----------------------------------------------------------------------------
(* html.py, dvsim_json.py, svg.py *)

TotalOf(column) ==
    MapThenSumSet(LAMBDA t : test_summary_dict[t][column], DOMAIN test_summary_dict)
Totals == <<TotalOf("passing"), TotalOf("passing") + TotalOf("failing")>>

\* One file: opened, and written unless something raises.
Report(name, needed, contents, then) ==
    /\ files' = [files EXCEPT ![name] = IF Printable(needed) THEN contents ELSE <<"empty">>]
    /\ rstep' = IF Printable(needed) THEN then ELSE "raised"
    /\ UNCHANGED <<inputs, passing_tests, failing_tests, test_summary_dict, cov_summary_dict>>

output_results_html ==
    /\ rstep = "html"
    /\ Report("html", Metrics, <<Totals, {r \in ToSet(all_tests) : ~Passed(r)}>>, "json")

output_results_dvsim_json ==
    /\ rstep = "json"
    /\ Report("json", {}, [t \in DOMAIN test_summary_dict |->
                             <<test_summary_dict[t].passing,
                               test_summary_dict[t].passing + test_summary_dict[t].failing>>],
              IF svg_present THEN "svg" ELSE "returned")

output_results_svg ==
    /\ rstep = "svg"
    /\ Report("svg", {"block", "branch", "statement", "expression", "fsm"}, Totals, "returned")

\* What the script returns to make.
ReturnCode == IF failing_tests # <<>> THEN 1 ELSE 0

-----------------------------------------------------------------------------
RepInit ==
    /\ \E n \in 1..MaxRuns :
         \E t \in [1..n -> ReportTests], o \in [1..n -> {"pass", "fail", "timeout", "unreadable"}] :
            results = [i \in 1..n |-> [test |-> t[i], seed |-> i, outcome |-> o[i]]]
    /\ simulator_ \in {"xlm", "vcs"} /\ cov_report \in CovReports /\ svg_present \in BOOLEAN
    /\ passing_tests = <<>> /\ failing_tests = <<>>
    /\ test_summary_dict = <<>> /\ cov_summary_dict = Absent
    /\ files = [f \in {"junit", "text", "html", "json", "svg"} |-> <<>>]
    /\ rstep = "collect"

RepNext == \/ Collect \/ CollectBroken \/ output_run_results_junit_xml \/ output_results_text
           \/ create_cov_summary_dict \/ output_results_html \/ output_results_dvsim_json
           \/ output_results_svg

RepSpec == RepInit /\ [][RepNext]_repVars

-----------------------------------------------------------------------------
(* Properties *)

\* The five reports are computed along different ways (lists, per-test sums, a
\* dictionary of lines) and tell the same story: when the script returns, each
\* gives the number of runs that passed and failed in the pickles, and its
\* return code is 0 exactly when none failed.
ReportsAgree ==
    rstep = "returned" =>
        LET passed == Cardinality({i \in DOMAIN results : Passed(results[i])})
            total == Len(results)
        IN  /\ files.text[1] = <<passed, total - passed>>
            /\ Cardinality(files.text[2]) = total
            /\ Cardinality({c \in files.junit[1] : ~c.failed}) = passed
            /\ Cardinality(files.junit[1]) = total
            /\ files.html[1] = <<passed, total>>
            /\ Cardinality(files.html[2]) = total - passed
            /\ svg_present => files.svg = files.html[1]
            /\ <<MapThenSumSet(LAMBDA t : files.json[t][1], DOMAIN files.json),
                 MapThenSumSet(LAMBDA t : files.json[t][2], DOMAIN files.json)>> = files.html[1]
            /\ ReturnCode = 0 <=> \A t \in DOMAIN files.junit[2] : ~files.junit[2][t]

\* Coverage may be missing, unreadable, empty or have no covergroups: whenever
\* the script ends after the loop over the pickles, regr.log and the JUnit files
\* are there with every run.
LogSurvivesCoverage ==
    rstep \in {"returned", "raised"} =>
        /\ files.text # <<>> /\ files.text[2] = {SummaryLine(r) : r \in ToSet(results)}
        /\ files.junit # <<>> /\ Cardinality(files.junit[1]) = Len(results)

\* A run whose pickle does not load is never left out of a report silently:
\* with one of them, anywhere in the list, the script writes no report at all
\* and raises, and it raises there for no other reason.
BrokenPickleStops ==
    /\ (\E i \in DOMAIN results : ~Loads(results[i])) =>
          /\ rstep \in {"collect", "unread"}
          /\ \A f \in DOMAIN files : files[f] = <<>>
    /\ rstep = "unread" => \E i \in DOMAIN results : ~Loads(results[i])

\* Every report that is written is complete and all of them agree, whatever is
\* wrong with the coverage data that only some of them need or with a pickle.
ReportsFaithful == ReportsAgree /\ LogSurvivesCoverage /\ BrokenPickleStops
=============================================================================
