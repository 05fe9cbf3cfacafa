----------------------------- MODULE MCScripts -----------------------------
(***************************************************************************)
(* The sequential scripts, one at a time: `tool` is the one that runs, the *)
(* variables of the others keep one value.  They share no state, so this   *)
(* explores each of them completely.                                       *)
(***************************************************************************)
EXTENDS TestSelection, ToolRequirements, IbexConfig, SimLog, Sv2vInPlace, Reports

VARIABLE tool
scriptVars == <<tool, selVars, toolVars, cfgVars, logVars, sv2vVars, repVars>>

\* TestSelection
TestEntry(t, n, ps) == [test |-> t, iterations |-> n, rtl_params |-> ps]
MCRiscvdvTests == <<TestEntry("arith", 2, <<>>),
                    TestEntry("pmp", 1, <<[p |-> "PMPEnable", vals |-> {1}]>>),
                    TestEntry("bitmanip", 1, <<[p |-> "RV32B", vals |-> {2, 3}]>>),
                    TestEntry("off", 0, <<>>)>>
MCSuiteTests == [s \in {"riscv-tests", "riscv-arch-tests", "epmp-tests"} |->
                    CASE s = "riscv-tests" -> <<"rv_add", "rv_csr">>
                      [] s = "riscv-arch-tests" -> <<"arch_add">>
                      [] s = "epmp-tests" -> <<"epmp_0">>]
MCConfigParams == [PMPEnable |-> 1, RV32B |-> 1]
MCOldLists == {<<>>, <<[config |-> "riscv-tests", test |-> "None"],
                        [config |-> "riscv-tests", test |-> "empty"]>>,
               <<[config |-> "gone", test |-> "empty"]>>}
MCTestArgs == {{"all"}, {"all_riscvdv", "rv_add"}, {"all_directed"}, {"arith", "epmp_0"},
               {"bitmanip"}, {"pmp", "empty"}, {"off"}, {"all_directed", "all"}}
MCIterationArgs == {<<>>, <<0>>, <<1>>, <<3>>}
MCSuiteArgs == {<<"all">>, <<"riscv-tests">>, <<"epmp-tests", "riscv-arch-tests">>,
                <<"epmp_tests">>}
MCOnDisk == {"empty", "rv_add", "rv_csr", "arch_add", "epmp_0"}
MCHandwritten == <<"empty">>
SeedSet == {-1, 0, 5}

\* ToolRequirements: tool_requirements.py; VCS versions are 2020.03-SP2 (the
\* minimum), its neighbours, other months with and without a service pack, and
\* other years.
MCToolOrder == <<"verilator", "edalize", "vcs", "vivado">>
MCToolClass == [verilator |-> "verilator", edalize |-> "pymodule",
                vcs |-> "vcs", vivado |-> "plain"]
Vcs(yr, m, s, p) == [year |-> yr, month |-> m, sp |-> s, patch |-> p]
MCMinVersion == [verilator |-> 4210, edalize |-> 20, vcs |-> Vcs(2020, 3, 2, 0), vivado |-> 20202]
VcsVersions == {Vcs(2019, 12, 2, 5), Vcs(2020, 3, 0, 0), Vcs(2020, 3, 1, 9), Vcs(2020, 3, 2, 0),
                Vcs(2020, 3, 2, 1), Vcs(2020, 1, 3, 0), Vcs(2020, 1, 10, 0), Vcs(2020, 12, 0, 0), Vcs(2020, 12, 2, 0), Vcs(2021, 9, 0, 0)}
Found(kinds, versions, v) == [kind : {"version"}, version : versions]
                             \cup [kind : kinds, version : {v}]
MCInstalls ==
    {[verilator |-> a, edalize |-> b, vcs |-> c, vivado |-> d] :
        a \in Found({"absent", "garbled"}, {4210, 4100}, 0),
        b \in Found({"absent"}, {20, 19}, 0),
        c \in Found({"absent", "garbled"}, VcsVersions, Vcs(0, 0, 0, 0)),
        d \in Found({"absent"}, {20202}, 0)}
MCRawFiles ==
    {[verilator |-> "string", edalize |-> e, vcs |-> c, vivado |-> "dict_as_needed"] :
        e \in {"string", "dict", "unknown_key"}, c \in {"dict", "dict_as_needed", "no_min_version"}}
MCNamedArgs == {{}, {"vcs"}, {"vcs", "vivado"}, {"dsim"}}

\* IbexConfig: a flag, a number and two enumerations stand for their kinds.
MCKnownFields == [RV32E |-> "bool", MHPMCounterNum |-> "int", RV32M |-> "str", RV32B |-> "str"]
Yaml(e, n, m, b) == [RV32E |-> e, MHPMCounterNum |-> n, RV32M |-> m, RV32B |-> b]
GoodYaml == {Yaml(<<"bool", e>>, <<"int", 10>>, <<"str", m>>, <<"str", b>>) :
                e \in 0..1, m \in 0..3, b \in 0..4}
OddYaml == {Yaml(<<"int", 1>>, <<"bool", 1>>, <<"str", 1>>, <<"str", 1>>),
            Yaml(<<"int", 2>>, <<"int", 10>>, <<"str", 1>>, <<"str", 1>>),
            Yaml(<<"bool", 1>>, <<"int", 10>>, <<"int", 1>>, <<"str", 1>>),
            [RV32E |-> <<"bool", 1>>],
            [RV32E |-> <<"bool", 1>>, Extra |-> <<"int", 1>>]}
MCYmlFiles == {[opentitan |-> c] : c \in GoodYaml \cup OddYaml}
              \cup {[opentitan |-> Yaml(<<"bool", 0>>, <<"int", 10>>, <<"str", 1>>, <<"str", 2>>),
                     small |-> c] : c \in OddYaml}
              \cup {[small |-> Yaml(<<"bool", 0>>, <<"int", 0>>, <<"str", 1>>, <<"str", 0>>)]}
\* Simulator commands of rtl_simulation.yaml.
MCCmdTemplates ==
    {[needs |-> {"sim_opts", "wave_opts", "cov_opts", "tb_dir", "IBEX_ROOT"},
      opts |-> [wave_opts |-> {"test_dir"}, cov_opts |-> {"dir_shared_cov"}],
      enabled |-> on, given |-> given, env |-> {"IBEX_ROOT"}, set |-> env] :
        on \in SUBSET {"wave_opts", "cov_opts"},
        given \in {{"sim_opts", "tb_dir", "test_dir", "dir_shared_cov"}, {"sim_opts", "tb_dir"},
                   {"tb_dir", "test_dir", "dir_shared_cov"}},
        env \in {{}, {"IBEX_ROOT"}}}

\* Sv2vInPlace
MCFileLists == {<<"a.sv", "b.sv", "h.svh">>, <<"a.sv", "p_pkg.sv", "h.svh", "b.sv">>,
                <<"a.sv", "a.sv">>, <<>>, <<"h.svh", "readme", "b.sv">>}

\* Reports: full coverage, missing metrics, an empty metric, no covergroups,
\* only ignored ones, an unreadable table, no report.
CovRows(ms) == [m \in ms |-> <<3, 4>>]
AllMetrics == {"block", "branch", "statement", "expression", "toggle", "fsm", "assertion"}
Cov(log_, readable, rows, groups) ==
    [log |-> log_, readable |-> readable, rows |-> rows, groups |-> groups]
MCCovReports ==
    {Cov(TRUE, TRUE, CovRows(AllMetrics), [cs_bind |-> <<70>>, push_pull_agent_pkg |-> <<5>>]),
     Cov(TRUE, TRUE, CovRows(AllMetrics \ {"fsm"}), [cs_bind |-> <<70>>]),
     Cov(TRUE, TRUE, [CovRows(AllMetrics) EXCEPT !["toggle"] = <<0, 0>>], [cs_bind |-> <<70>>]),
     Cov(TRUE, TRUE, CovRows(AllMetrics), [cs_bind |-> <<>>]),
     Cov(TRUE, TRUE, CovRows(AllMetrics), [push_pull_agent_pkg |-> <<5>>]),
     Cov(TRUE, FALSE, CovRows(AllMetrics), [cs_bind |-> <<70>>]),
     Cov(FALSE, TRUE, CovRows(AllMetrics), [cs_bind |-> <<70>>])}

-----------------------------------------------------------------------------
\* What the variables of a script that is not running are.
SelIdle == /\ suites = <<>> /\ yaml = <<>> /\ sel_args = <<>> /\ sel_step = "idle"
           /\ matched = <<>> /\ tests_and_counts = <<>> /\ tests_pickle_files = <<>>
           /\ printed = <<>>
ToolIdle == /\ raw = <<>> /\ installed = <<>> /\ named = {} /\ reqs = <<>> /\ nth = 0
            /\ pending = {} /\ missing = {} /\ outcome = "idle"
CfgIdle == /\ yml = <<>> /\ config = <<>> /\ compile_opts = {} /\ sim_opts = {}
           /\ simulator = "none" /\ isa = <<>> /\ cmd = <<>> /\ phase = "idle"
LogIdle == /\ trace = <<>> /\ csv = <<>> /\ log = <<>> /\ seen = <<>> /\ verdict = <<>>
           /\ reading = "idle"
Sv2vIdle == /\ paths = <<>> /\ sv_paths = <<>> /\ svh_paths = <<>> /\ pkg_paths = <<>>
            /\ content = <<>> /\ tmp = <<>> /\ stage = "idle" /\ next = 0
RepIdle == /\ results = <<>> /\ simulator_ = "none" /\ cov_report = <<>> /\ svg_present = FALSE
           /\ passing_tests = <<>> /\ failing_tests = <<>> /\ test_summary_dict = <<>>
           /\ cov_summary_dict = <<>> /\ files = <<>> /\ rstep = "idle"

MCInit ==
    /\ tool \in {"select", "tools", "config", "log", "sv2v", "report"}
    /\ IF tool = "select" THEN SelInit ELSE SelIdle
    /\ IF tool = "tools" THEN ToolInit ELSE ToolIdle
    /\ IF tool = "config" THEN CfgInit ELSE CfgIdle
    /\ IF tool = "log" THEN LogInit ELSE LogIdle
    /\ IF tool = "sv2v" THEN Sv2vInit ELSE Sv2vIdle
    /\ IF tool = "report" THEN RepInit ELSE RepIdle

MCNext ==
    \/ /\ tool = "select" /\ SelNext
       /\ UNCHANGED <<tool, toolVars, cfgVars, logVars, sv2vVars, repVars>>
    \/ /\ tool = "tools" /\ ToolNext
       /\ UNCHANGED <<tool, selVars, cfgVars, logVars, sv2vVars, repVars>>
    \/ /\ tool = "config" /\ CfgNext
       /\ UNCHANGED <<tool, selVars, toolVars, logVars, sv2vVars, repVars>>
    \/ /\ tool = "log" /\ LogNext
       /\ UNCHANGED <<tool, selVars, toolVars, cfgVars, sv2vVars, repVars>>
    \/ /\ tool = "sv2v" /\ Sv2vNext
       /\ UNCHANGED <<tool, selVars, toolVars, cfgVars, logVars, repVars>>
    \/ /\ tool = "report" /\ RepNext
       /\ UNCHANGED <<tool, selVars, toolVars, cfgVars, logVars, sv2vVars>>

MCSpec == MCInit /\ [][MCNext]_scriptVars
=============================================================================
