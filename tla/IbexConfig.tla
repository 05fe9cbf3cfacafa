----------------------------- MODULE IbexConfig -----------------------------
(***************************************************************************)
(* util/ibex_config.py and ibex_cmd.py: reading a named configuration from *)
(* ibex_configs.yaml, turning it into simulator options in the compile and *)
(* the simulate stage, and into the ISA strings for toolchain and ISS; and *)
(* riscvdv_interface.get_tool_cmds, which puts options into the command    *)
(* templates of rtl_simulation.yaml.                                       *)
(***************************************************************************)
EXTENDS Integers, Sequences, SequencesExt, FiniteSets

CONSTANTS
    KnownFields,  \* field -> "bool", "int" or "str": Config.known_fields
    YmlFiles,     \* configuration files: config name -> field -> YAML value
    ConfigName,   \* the configuration asked for
    CmdTemplates  \* entries of rtl_simulation.yaml, see CmdTemplate below

VARIABLES yml, config, compile_opts, sim_opts, simulator, isa, cmd, phase

cfgVars == <<yml, config, compile_opts, sim_opts, simulator, isa, cmd, phase>>

\* YAML values are tagged: <<"bool", 0 or 1>>, <<"int", n>>, <<"str", n>>.
NoConfig == <<>>
Fields == DOMAIN KnownFields

YamlValue == ({"bool"} \X (0..1)) \cup ({"int", "str"} \X Int)

ASSUME IbexConfigAssumption ==
    /\ \A f \in Fields : KnownFields[f] \in {"bool", "int", "str"}
    /\ \A y \in YmlFiles : \A c \in DOMAIN y : \A f \in DOMAIN y[c] : y[c][f] \in YamlValue

\* Only options of the entry are enabled; the callers substitute other names
\* than those, and the texts of the options do not name options.
ASSUME CmdTemplateAssumption ==
    \A t \in CmdTemplates :
        /\ t.enabled \subseteq DOMAIN t.opts
        /\ DOMAIN t.opts \cap t.given = {}
        /\ \A n \in DOMAIN t.opts : t.opts[n] \cap DOMAIN t.opts = {}

-----------------------------------------------------------------------------
(* Config, Configs, parse_config                                            *)

\* A boolean may be written 0 or 1; a boolean is an integer to Python.
read_bool(v) == v[1] = "bool" \/ (v[1] = "int" /\ v[2] \in 0..1)
read_int(v) == v[1] \in {"bool", "int"}
read_str(v) == v[1] = "str"

ValueOk(f, v) == CASE KnownFields[f] = "bool" -> read_bool(v)
                   [] KnownFields[f] = "int" -> read_int(v)
                   [] KnownFields[f] = "str" -> read_str(v)

ConfigOk(c) == DOMAIN c = Fields /\ \A f \in Fields : ValueOk(f, c[f])

\* One malformed configuration makes the whole file unreadable.
parse_config ==
    /\ phase = "parse"
    /\ IF (\A c \in DOMAIN yml : ConfigOk(yml[c])) /\ ConfigName \in DOMAIN yml
       THEN config' = yml[ConfigName] /\ phase' = "compile"
       ELSE config' = NoConfig /\ phase' = "error"
    /\ UNCHANGED <<yml, compile_opts, sim_opts, simulator, isa, cmd>>

-----------------------------------------------------------------------------
(* SimOpts.output and _get_x_opts                                           *)

\* simulator -> <<needs_compile_opts, needs_sim_opts>>
SIM_CFGS == [vcs |-> <<TRUE, FALSE>>, riviera |-> <<TRUE, TRUE>>,
             questa |-> <<TRUE, TRUE>>, xlm |-> <<TRUE, FALSE>>, dsim |-> <<TRUE, FALSE>>]

\* The outputters of main: <<simulator, stage or "both">> -> what they set,
\* strings as defines and the rest as parameters.
Outputters ==
    [o \in {<<"vcs", "both">>, <<"xlm", "both">>, <<"dsim", "both">>,
            <<"riviera", "compile">>, <<"riviera", "sim">>,
            <<"questa", "compile">>, <<"questa", "sim">>} |->
        CASE o[2] = "both" -> {"define", "parameter"}
          [] o[2] = "compile" -> {"define"}
          [] o[2] = "sim" -> {"parameter"}]

Way(f) == IF KnownFields[f] = "str" THEN "define" ELSE "parameter"

\* The options an outputter gives, as the set of fields it sets and how.
Output(o) == {[fld |-> f, way |-> Way(f), val |-> config[f][2]] :
                 f \in {g \in Fields : Way(g) \in Outputters[o]}}

\* Mutant: the stage is not looked at.
GetXOptsNoStage(sim, stage) ==
    LET which == SIM_CFGS[sim][1] /\ SIM_CFGS[sim][2]
    IN  Output(<<sim, IF which THEN "compile" ELSE "both">>)

_get_x_opts(sim, stage) ==
    LET needs == IF stage = "compile" THEN SIM_CFGS[sim][1] ELSE SIM_CFGS[sim][2]
        which == SIM_CFGS[sim][1] /\ SIM_CFGS[sim][2]
    IN  IF needs THEN Output(<<sim, IF which THEN stage ELSE "both">>) ELSE {}

get_compile_opts ==
    /\ phase = "compile"
    /\ \E sim \in DOMAIN SIM_CFGS : simulator' = sim /\ compile_opts' = _get_x_opts(sim, "compile")
    /\ phase' = "sim"
    /\ UNCHANGED <<yml, config, sim_opts, isa, cmd>>

get_sim_opts ==
    /\ phase = "sim"
    /\ sim_opts' = _get_x_opts(simulator, "sim")
    /\ phase' = "isa"
    /\ UNCHANGED <<yml, config, compile_opts, simulator, isa, cmd>>

-----------------------------------------------------------------------------
(* get_isas_for_config: RV32M 0 is None; RV32B 0 None, 1 Balanced,          *)
(* 2 OTEarlGrey, 3 Full, anything else unknown                              *)

Bitmanip == <<{"Zba", "Zbb", "Zbs", "XZbf", "XZbt"},
              {"Zba", "Zbb", "Zbc", "Zbs", "XZbf", "XZbp", "XZbr", "XZbt"},
              {"Zba", "Zbb", "Zbc", "Zbs", "XZbe", "XZbf", "XZbp", "XZbr", "XZbt"}>>

ToolchainExt(b) == IF b # 0 THEN {"b"} ELSE {}

get_isas_for_config ==
    /\ phase = "isa"
    /\ \E b \in {config["RV32B"][2]} :
         LET base == {IF config["RV32E"][2] = 1 THEN "e" ELSE "i", "c"}
                     \cup (IF config["RV32M"][2] # 0 THEN {"m"} ELSE {})
         IN  IF b \in 0..3
             THEN /\ isa' = [toolchain |-> base \cup ToolchainExt(b),
                             iss |-> base \cup (IF b # 0 THEN Bitmanip[b] ELSE {})]
                  /\ phase' = "cmd"
             ELSE UNCHANGED isa /\ phase' = "error"
    /\ UNCHANGED <<yml, config, compile_opts, sim_opts, simulator, cmd>>

-----------------------------------------------------------------------------
(* get_tool_cmds: a command is the set of placeholders in it and the set of *)
(* texts put in; the text of an option may have placeholders of its own     *)

\* CmdTemplate: [needs: placeholders of the command, opts: option ->
\* placeholders in its text, enabled: options the user enables, given:
\* placeholders the caller substitutes, env: list of environment variables,
\* set: those that are set].
Subst(c, texts) ==
    [holes |-> (c.holes \ DOMAIN texts) \cup UNION {texts[n] : n \in DOMAIN texts \cap c.holes},
     texts |-> c.texts \cup (DOMAIN texts \cap c.holes)]

PlainTexts(names) == [n \in names |-> {}]
Enabled(t) == [n \in t.enabled |-> t.opts[n]]
Template(t) == [holes |-> t.needs, texts |-> {}]
Result(t, c) == [ok |-> t.env \subseteq t.set /\ c.holes = {}, texts |-> c.texts]

\* Mutant: options come after the caller's substitutions.
GetToolCmdsLateOptions(t) ==
    LET c1 == Subst(Template(t), PlainTexts(t.given))
        c2 == Subst(c1, Enabled(t))
        c3 == [c2 EXCEPT !.holes = @ \ DOMAIN t.opts]
    IN  Result(t, Subst(c3, PlainTexts(t.env)))

GetToolCmds(t) ==
    LET c1 == Subst(Template(t), Enabled(t))
        c2 == [c1 EXCEPT !.holes = @ \ DOMAIN t.opts]
        c3 == Subst(c2, PlainTexts(t.given))
    IN  Result(t, Subst(c3, PlainTexts(t.env)))

get_tool_cmds ==
    /\ phase = "cmd"
    /\ \E t \in CmdTemplates :
         cmd' = [template |-> t, result |-> GetToolCmds(t)]
    /\ phase' = "done"
    /\ UNCHANGED <<yml, config, compile_opts, sim_opts, simulator, isa>>

-----------------------------------------------------------------------------
CfgInit ==
    /\ yml \in YmlFiles /\ config = NoConfig /\ phase = "parse"
    /\ compile_opts = {} /\ sim_opts = {} /\ simulator = "none"
    /\ isa = [toolchain |-> {}, iss |-> {}] /\ cmd = <<>>

CfgNext == \/ parse_config \/ get_compile_opts \/ get_sim_opts
           \/ get_isas_for_config \/ get_tool_cmds

CfgSpec == CfgInit /\ [][CfgNext]_cfgVars

-----------------------------------------------------------------------------
(* Properties *)

\* Whatever the simulator, its two stages between them set every field of the
\* configuration, none of them twice, and every boolean to 0 or 1.
EveryFieldSetOnce ==
    phase \in {"isa", "cmd", "done"} =>
        /\ {o.fld : o \in compile_opts \cup sim_opts} = Fields
        /\ {o.fld : o \in compile_opts} \cap {o.fld : o \in sim_opts} = {}
        /\ \A o \in compile_opts \cup sim_opts :
              KnownFields[o.fld] = "bool" => o.val \in 0..1

\* The compiler is allowed bit manipulation exactly when the ISS executes some,
\* and each richer setting of RV32B adds to the ISS's instructions.
IsasAgree ==
    phase \in {"cmd", "done"} =>
        /\ "b" \in isa.toolchain <=> \E x \in isa.iss : x \notin {"i", "e", "m", "c"}
        /\ \A i, j \in 1..3 : i <= j => Bitmanip[i] \subseteq Bitmanip[j]

\* A configuration means the same to all tools that get it along different
\* ways: the simulator's two stages, the compiler and the ISS.
ConfigReachesTools == EveryFieldSetOnce /\ IsasAgree

\* A command that is returned has the text of every enabled option it has room
\* for, and it is only refused when a placeholder has no source or a listed
\* environment variable is not set: the order of the substitutions loses none.
CommandsComplete ==
    phase = "done" =>
        LET t == cmd.template
            sources == DOMAIN t.opts \cup t.given \cup t.env
            inner == UNION {t.opts[n] : n \in t.enabled \cap t.needs}
        IN  /\ cmd.result.ok <=> t.needs \cup inner \subseteq sources /\ t.env \subseteq t.set
            /\ cmd.result.ok => (t.needs \cup inner) \cap (t.enabled \cup t.given)
                                   \subseteq cmd.result.texts
=============================================================================
