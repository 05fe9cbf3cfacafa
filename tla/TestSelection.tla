--------------------------- MODULE TestSelection ---------------------------
(***************************************************************************)
(* Which tests a regression runs (dv/uvm/core_ibex): gen_testlist.py       *)
(* writes directed_testlist.yaml, metadata.py --op create_metadata parses  *)
(* its arguments, matches them against the two test lists, filters by the  *)
(* Ibex configuration and makes one result pickle per TEST.SEED, and       *)
(* metadata.py --op print_field tells make the TEST.SEEDs to run.          *)
(***************************************************************************)
EXTENDS Integers, Sequences, SequencesExt, FiniteSets

CONSTANTS
    RiscvdvTests,    \* testlist.yaml: a sequence of entries
    HandwrittenTests,\* directed tests the generator carries in its own text
    SuiteTests,      \* suite -> directed tests found in it
    OldLists,        \* directed_testlist.yaml as it may be found
    OnDisk,          \* directed tests whose files exist
    ConfigParams,    \* parameter -> its value in the chosen configuration
    TestArgs, IterationArgs, SeedArgs,   \* arguments create_metadata is given
    SuiteArgs                            \* arguments gen_testlist is given

NoTest == "None"
NoIterations == <<>>
Suites == <<"riscv-tests", "riscv-arch-tests", "epmp-tests">>

\* Names of the tests of a directed list.
DirectedNames(list) == {e.test : e \in ToSet(list)} \ {NoTest}
UniqueTests(list) ==
    \A i, j \in 1..Len(list) : list[i].test = list[j].test /\ list[i].test # NoTest => i = j

ASSUME TestSelectionAssumption == DOMAIN SuiteTests = ToSet(Suites)

ASSUME SelectionTypes ==
    /\ RiscvdvTests \in Seq([test : STRING, iterations : Int,
                             rtl_params : Seq([p : STRING, vals : SUBSET Int])])
    /\ HandwrittenTests \in Seq(STRING)
    /\ \A s \in ToSet(Suites) : SuiteTests[s] \in Seq(STRING)
    /\ \A old \in OldLists : old \in Seq([config : STRING, test : STRING])
    /\ \A it \in IterationArgs : it \in Seq(Int)
    /\ SeedArgs \subseteq Int

\* No name is used for two tests, in whichever lists, as in the repository.
ASSUME NamesUnique ==
    LET riscvdv == {e.test : e \in ToSet(RiscvdvTests)}
        sources == {HandwrittenTests} \cup {SuiteTests[s] : s \in ToSet(Suites)}
    IN  /\ \A i, j \in 1..Len(RiscvdvTests) :
              RiscvdvTests[i].test = RiscvdvTests[j].test => i = j
        /\ \A t \in sources : IsInjective(t) /\ ToSet(t) \cap (riscvdv \cup {NoTest}) = {}
        /\ \A s \in ToSet(Suites) : ToSet(HandwrittenTests) \cap ToSet(SuiteTests[s]) = {}
        /\ \A s, t \in ToSet(Suites) :
              s # t => ToSet(SuiteTests[s]) \cap ToSet(SuiteTests[t]) = {}
        /\ \A old \in OldLists : UniqueTests(old) /\ DirectedNames(old) \cap riscvdv = {}

VARIABLES
    suites,   \* --add_tests of gen_testlist
    yaml,     \* directed_testlist.yaml, in order: configs and tests
    sel_args,     \* of create_metadata
    sel_step,     \* where the two scripts are
    matched,  \* [riscvdv, directed]: the entries that match
    tests_and_counts,
    tests_pickle_files,
    printed   \* field name -> what print_field printed

selVars == <<suites, yaml, sel_args, sel_step, matched, tests_and_counts,
             tests_pickle_files, printed>>

\* The elements of a list that are in S, in their order.
Those(list, S) ==
    FlattenSeq([i \in 1..Len(list) |-> IF list[i] \in S THEN <<list[i]>> ELSE <<>>])

-----------------------------------------------------------------------------
(* gen_testlist.py                                                         *)

ConfigEntry(s) == [config |-> s, test |-> NoTest]
DirectedEntry(t, s) == [config |-> s, test |-> t]

\* The old list is truncated before anything is written.
GenTruncate ==
    /\ sel_step = "gen"
    /\ yaml' = <<>> /\ sel_step' = "configs"
    /\ UNCHANGED <<suites, sel_args, matched, tests_and_counts, tests_pickle_files, printed>>

add_configs_and_handwritten_directed_tests ==
    /\ sel_step = "configs"
    /\ yaml' = yaml \o [i \in 1..Len(Suites) |-> ConfigEntry(Suites[i])]
                    \o [i \in 1..Len(HandwrittenTests) |->
                          DirectedEntry(HandwrittenTests[i], "riscv-tests")]
    /\ sel_step' = Suites[1]
    /\ UNCHANGED <<suites, sel_args, matched, tests_and_counts, tests_pickle_files, printed>>

\* 'all' only when it is the whole argument.
append_directed_testlist ==
    \E i \in 1..Len(Suites) :
        /\ sel_step = Suites[i]
        /\ yaml' = IF Suites[i] \in ToSet(suites) \/ suites = <<"all">>
                   THEN yaml \o [k \in 1..Len(SuiteTests[Suites[i]]) |->
                                   DirectedEntry(SuiteTests[Suites[i]][k], Suites[i])]
                   ELSE yaml
        /\ sel_step' = IF i = Len(Suites) THEN "args" ELSE Suites[i + 1]
        /\ UNCHANGED <<suites, sel_args, matched, tests_and_counts, tests_pickle_files, printed>>

-----------------------------------------------------------------------------
(* directed_test_schema.py: import_model                                    *)

\* Each test joined with the first config of its name; all of riscv-tests,
\* riscv-arch-tests and epmp-tests ask for PMPEnable and one iteration.
DirectedModel ==
    LET tests == Those(yaml, {e \in ToSet(yaml) : e.test # NoTest})
    IN  [i \in 1..Len(tests) |->
            [test |-> tests[i].test, iterations |-> 1,
             rtl_params |-> <<[p |-> "PMPEnable", vals |-> {1}]>>]]

ModelValid ==
    \A e \in ToSet(yaml) : e.test # NoTest =>
        /\ \E c \in ToSet(yaml) : c.test = NoTest /\ c.config = e.config
        /\ e.test \in OnDisk

-----------------------------------------------------------------------------
(* metadata.py: arguments and matching                                      *)

Raise == sel_step' = "error"

\* arg_list_initializer and _get_ibex_metadata: an empty ITERATIONS is None.
arg_list_initializer ==
    /\ sel_step = "args"
    /\ IF (sel_args.iterations # NoIterations /\ sel_args.iterations[1] <= 0) \/ sel_args.seed < 0
       THEN Raise ELSE sel_step' = "match"
    /\ UNCHANGED <<suites, yaml, sel_args, matched, tests_and_counts, tests_pickle_files, printed>>

Iterations(e) == IF sel_args.iterations # NoIterations THEN sel_args.iterations[1] ELSE e.iterations

WithIterations(hits) ==
    [i \in 1..Len(hits) |-> [hits[i] EXCEPT !.iterations = Iterations(hits[i])]]

\* The name handed to riscv-dv: 'all' when one of the comma separated names
\* says so.
process_riscvdv_testlist ==
    LET all == sel_args.test \cap {"all", "all_riscvdv"} # {}
    IN  WithIterations(Those(RiscvdvTests,
            {e \in ToSet(RiscvdvTests) : (all \/ e.test \in sel_args.test) /\ e.iterations > 0}))

process_directed_testlist ==
    WithIterations(Those(DirectedModel,
        {e \in ToSet(DirectedModel) :
            sel_args.test \cap {"all_directed", e.test} # {} /\ Iterations(e) > 0}))

Match ==
    /\ sel_step = "match"
    /\ \E r \in {process_riscvdv_testlist}, d \in {process_directed_testlist} :
         /\ matched' = [riscvdv |-> r, directed |-> d]
         /\ IF ModelValid /\ (r # <<>> \/ d # <<>>) THEN sel_step' = "filter" ELSE Raise
    /\ UNCHANGED <<suites, yaml, sel_args, tests_and_counts, tests_pickle_files, printed>>

-----------------------------------------------------------------------------
(* ibex_cmd.filter_tests_by_config                                          *)

\* Mutant: a test is kept whatever its parameters.
ParamAcceptsAny(p) == TRUE

ParamAccepts(p) == ConfigParams[p.p] \in p.vals

\* What the loop over one test's parameters appends: the test once for every
\* parameter before the first that does not match.
Accepted(e) ==
    LET n == Len(e.rtl_params)
        good(i) == \A k \in 1..i : ParamAccepts(e.rtl_params[k])
    IN  IF n = 0 THEN <<e>>
        ELSE [i \in 1..Cardinality({k \in 1..n : good(k)}) |-> e]

filter_tests_by_config(list) == FlattenSeq([i \in 1..Len(list) |-> Accepted(list[i])])

UnknownParam(list) ==
    \E e \in ToSet(list) :
        \E p \in ToSet(e.rtl_params) : p.p \notin DOMAIN ConfigParams

Typed(list, type) == [i \in 1..Len(list) |-> <<list[i].test, list[i].iterations, type>>]

get_tests_and_counts ==
    Typed(filter_tests_by_config(matched.riscvdv), "RISCVDV")
    \o Typed(filter_tests_by_config(matched.directed), "DIRECTED")

Filter ==
    /\ sel_step = "filter"
    /\ IF UnknownParam(matched.riscvdv \o matched.directed)
       THEN Raise /\ UNCHANGED tests_and_counts
       ELSE /\ tests_and_counts' = get_tests_and_counts
            /\ IF tests_and_counts' = <<>> THEN Raise ELSE sel_step' = "create"
    /\ UNCHANGED <<suites, yaml, sel_args, matched, tests_pickle_files, printed>>

-----------------------------------------------------------------------------
(* One result per TEST.SEED, and the lists make asks for                    *)

\* TEST.SEED for the seeds args.seed .. args.seed + count - 1.
TestDotSeeds(tcs) ==
    FlattenSeq([i \in 1..Len(tcs) |->
                   [k \in 1..tcs[i][2] |-> <<tcs[i][1], sel_args.seed + k - 1>>]])

CreateTests ==
    /\ sel_step = "create"
    /\ tests_pickle_files' = TestDotSeeds(tests_and_counts)
    /\ sel_step' = "created"
    /\ UNCHANGED <<suites, yaml, sel_args, matched, tests_and_counts, printed>>

Tds(type) ==
    TestDotSeeds(Those(tests_and_counts, {tc \in ToSet(tests_and_counts) : tc[3] = type}))

PrintField ==
    /\ sel_step = "created"
    /\ printed' = [riscvdv_tds |-> Tds("RISCVDV"), directed_tds |-> Tds("DIRECTED")]
    /\ sel_step' = "printed"
    /\ UNCHANGED <<suites, yaml, sel_args, matched, tests_and_counts, tests_pickle_files>>

-----------------------------------------------------------------------------
SelInit ==
    /\ suites \in SuiteArgs
    /\ sel_args \in [test : TestArgs, iterations : IterationArgs, seed : SeedArgs]
    /\ yaml \in OldLists /\ sel_step \in {"gen", "args"}
    /\ matched = [riscvdv |-> <<>>, directed |-> <<>>]
    /\ tests_and_counts = <<>> /\ tests_pickle_files = <<>>
    /\ printed = [riscvdv_tds |-> <<>>, directed_tds |-> <<>>]

SelNext ==
    \/ GenTruncate \/ add_configs_and_handwritten_directed_tests
    \/ append_directed_testlist \/ arg_list_initializer \/ Match \/ Filter
    \/ CreateTests \/ PrintField

SelSpec == SelInit /\ [][SelNext]_selVars

-----------------------------------------------------------------------------
(* Properties *)

\* As in testlist.yaml, no test asks for more than one parameter.
OneParameter == \A e \in ToSet(RiscvdvTests) : Len(e.rtl_params) <= 1

\* Make runs every test of the regression once, as one kind: the TEST.SEEDs
\* printed for make are those with a result pickle, and no pickle is shared.
SelectedOnce ==
    (OneParameter /\ sel_step = "printed") =>
        /\ \A i, j \in DOMAIN tests_pickle_files :
              tests_pickle_files[i] = tests_pickle_files[j] => i = j
        /\ tests_pickle_files = printed.riscvdv_tds \o printed.directed_tds
        /\ ToSet(printed.riscvdv_tds) \cap ToSet(printed.directed_tds) = {}

\* What was asked for by name or by a special name, is in a list and can run on
\* the configuration.
Supported(e) ==
    \A i \in DOMAIN e.rtl_params : ConfigParams[e.rtl_params[i].p] \in e.rtl_params[i].vals
Asked(e, special) == e.test \in sel_args.test \/ sel_args.test \cap special # {}
AskedRiscvdv ==
    {<<e.test, Iterations(e), "RISCVDV">> :
        e \in {x \in ToSet(RiscvdvTests) : /\ Asked(x, {"all", "all_riscvdv"}) /\ Supported(x)
                                          /\ x.iterations > 0}}
AskedDirected ==
    {<<e.test, Iterations(e), "DIRECTED">> :
        e \in {x \in ToSet(DirectedModel) : Asked(x, {"all_directed"}) /\ Supported(x)}}
SelectedAs(type) == {tc \in ToSet(tests_and_counts) : tc[3] = type}

\* The tests of a regression are the ones that were asked for, exist in a list
\* and can run on the configuration, each as often as asked; with none there is
\* no metadata.  That no other riscv-dv test is selected is claimed for lists in
\* which a test has one parameter at most: filter_tests_by_config appends a test
\* once for every parameter before the first that does not match, so one with two
\* parameters can be kept although the second does not match, or kept twice.
\* That no other directed test is selected is not claimed for the special name
\* "all": see AllMeansEvery.
SelectionExact ==
    sel_step \in {"created", "printed"} =>
        /\ AskedRiscvdv \subseteq SelectedAs("RISCVDV")
        /\ OneParameter => SelectedAs("RISCVDV") \subseteq AskedRiscvdv
        /\ AskedDirected \subseteq SelectedAs("DIRECTED")
        /\ "all" \notin sel_args.test => SelectedAs("DIRECTED") \subseteq AskedDirected
        /\ tests_pickle_files # <<>>

\* What make runs is what was asked for: the right tests, each the right number
\* of times, with a pickle of its own, whatever the old list and the arguments.
SelectionCorrect == SelectedOnce /\ SelectionExact

\* "Use the special name "all" to run all the tests." (get_tests_and_counts): with
\* it every directed test the configuration supports is selected too.  It does
\* not hold: process_directed_testlist knows "all_directed" only.
AllMeansEvery ==
    (sel_step \in {"created", "printed"} /\ "all" \in sel_args.test) =>
        \A x \in ToSet(DirectedModel) : Supported(x) =>
            <<x.test, Iterations(x), "DIRECTED">> \in ToSet(tests_and_counts)
=============================================================================
