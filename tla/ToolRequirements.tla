-------------------------- MODULE ToolRequirements --------------------------
(***************************************************************************)
(* util/check_tool_requirements.py: reads the requirements file and checks *)
(* the installed version of every tool that is always needed or named on   *)
(* the command line.  Versions other than VCS's are numbers here; VCS's    *)
(* are [year, month, sp, patch] and go through VcsToolReq.to_semver.       *)
(***************************************************************************)
EXTENDS Integers, Sequences, SequencesExt, FiniteSets

CONSTANTS
    ToolOrder,    \* the tools in the order of the file
    ToolClass,    \* tool -> "plain", "verilator", "pymodule" or "vcs"
    MinVersion,   \* tool -> version
    RawFiles,     \* requirement files: tool -> how its entry is written
    Installs,     \* functions: tool -> what is installed, [kind, version]
    NamedArgs     \* sets of tools given on the command line

\* A tool is there with a version, not there, or prints no version.
ASSUME ToolRequirementsAssumption ==
    \A f \in Installs, t \in ToSet(ToolOrder) :
        f[t].kind \in {"version", "absent", "garbled"}

\* A version without service pack or patch has 0 there; to_semver rules out
\* patches above 99, MaxSp bounds the service packs.
MaxSp == 99
VcsVersion == [year : Nat, month : Nat, sp : 0..MaxSp, patch : 0..99]
ASSUME VcsAssumption ==
    /\ ToolOrder \in Seq(ToSet(ToolOrder))
    /\ \A t \in ToSet(ToolOrder) : ToolClass[t] = "vcs" =>
          /\ MinVersion[t] \in VcsVersion
          /\ \A f \in Installs : f[t].version \in VcsVersion

VARIABLES raw, installed, named, reqs, nth, pending, missing, outcome

toolVars == <<raw, installed, named, reqs, nth, pending, missing, outcome>>

-----------------------------------------------------------------------------
(* read_tool_requirements, dict_to_tool_req                                 *)

\* A string is short for a dict; a dict needs min_version, may have as_needed
\* and nothing else.
ValidShapes == {"string", "dict", "dict_as_needed"}

read_tool_requirements ==
    /\ outcome = "reading"
    /\ IF \A t \in ToSet(ToolOrder) : raw[t] \in ValidShapes
       THEN /\ reqs' = [t \in ToSet(ToolOrder) |-> raw[t] = "dict_as_needed"]
            /\ outcome' = "checking"
       ELSE outcome' = "exit 1" /\ UNCHANGED reqs
    /\ UNCHANGED <<raw, installed, named, nth, pending, missing>>

-----------------------------------------------------------------------------
(* ToolReq.check                                                            *)

Digits(n) == IF n < 10 THEN 1 ELSE IF n < 100 THEN 2 ELSE IF n < 1000 THEN 3 ELSE 4

comb(v) == v.sp * 100 + v.patch

\* Mutant: service packs are not counted.
to_semver_NoSp(v) ==
    <<v.year, v.month * 10 ^ Digits(v.patch) + v.patch>>

\* VcsToolReq.to_semver: the digits of sp * 100 + patch are written directly
\* after those of the month, and the whole is the second component.
to_semver(v) == <<v.year, v.month * 10 ^ Digits(comb(v)) + comb(v)>>

Older(a, b) == a[1] < b[1] \/ (a[1] = b[1] /\ a[2] < b[2])

\* get_version raises nothing but RuntimeError, except for a Python module that
\* is not installed and for verilator output with no second word.
Crashes(t, found) ==
    \/ ToolClass[t] = "pymodule" /\ found.kind = "absent"
    \/ ToolClass[t] = "verilator" /\ found.kind = "garbled"

Check(t, found) ==
    /\ found.kind = "version"
    /\ IF ToolClass[t] = "vcs"
       THEN ~Older(to_semver(found.version), to_semver(MinVersion[t]))
       ELSE found.version >= MinVersion[t]

-----------------------------------------------------------------------------
(* main                                                                     *)

Skipped(t) == reqs[t] /\ t \notin pending

CheckNext ==
    /\ outcome = "checking" /\ nth <= Len(ToolOrder)
    /\ \E t \in {ToolOrder[nth]} :
         IF Skipped(t)
         THEN UNCHANGED <<pending, missing, outcome>>
         ELSE /\ pending' = pending \ {t}
              /\ IF Crashes(t, installed[t])
                 THEN outcome' = "traceback" /\ UNCHANGED missing
                 ELSE /\ missing' = IF Check(t, installed[t])
                                    THEN missing ELSE missing \cup {t}
                      /\ UNCHANGED outcome
    /\ nth' = nth + 1
    /\ UNCHANGED <<raw, installed, named, reqs>>

Conclude ==
    /\ outcome = "checking" /\ nth > Len(ToolOrder)
    /\ outcome' = IF missing = {} /\ pending = {} THEN "exit 0" ELSE "exit 1"
    /\ UNCHANGED <<raw, installed, named, reqs, nth, pending, missing>>

-----------------------------------------------------------------------------
ToolInit ==
    /\ raw \in RawFiles
    /\ installed \in Installs
    /\ named \in NamedArgs /\ pending = named
    /\ reqs = [t \in ToSet(ToolOrder) |-> FALSE]
    /\ nth = 1 /\ missing = {} /\ outcome = "reading"

ToolNext == read_tool_requirements \/ CheckNext \/ Conclude

ToolSpec == ToolInit /\ [][ToolNext]_toolVars

-----------------------------------------------------------------------------
(* Properties *)

\* The order of versions: of VCS by year, month, service pack and patch.
Recent(t) ==
    LET f == installed[t].version
        m == MinVersion[t]
    IN  /\ installed[t].kind = "version"
        /\ IF ToolClass[t] # "vcs" THEN f >= m
           ELSE \/ f.year > m.year
                \/ f.year = m.year /\ f.month > m.month
                \/ f.year = m.year /\ f.month = m.month /\ comb(f) >= comb(m)

\* A tool that is not needed on demand only, or was named.
Needed(t) == raw[t] # "dict_as_needed" \/ t \in named

\* Of two VCS versions of one year, the one with the later month has at least as
\* many digits after the month.  Then to_semver keeps their order; otherwise it
\* may not: it makes 2020.12 smaller, and 2020.01-SP10 greater, than 2020.03-SP2.
DigitsFollowMonth(f, m) ==
    f.year = m.year =>
        \/ f.month = m.month
        \/ f.month > m.month /\ Digits(comb(f)) >= Digits(comb(m))
        \/ f.month < m.month /\ Digits(comb(f)) <= Digits(comb(m))

\* The tools whose check the following makes a claim about.
Comparable(t) ==
    ToolClass[t] = "vcs" => DigitsFollowMonth(installed[t].version, MinVersion[t])

\* Success means that every name is known and that every tool that is always
\* needed or was named is there and recent enough, if it is comparable.
ToolsPresent ==
    outcome = "exit 0" =>
        /\ named \subseteq ToSet(ToolOrder)
        /\ \A t \in ToSet(ToolOrder) : Needed(t) /\ Comparable(t) => Recent(t)

\* A tool that is reported was asked for, and is absent or old if it is
\* comparable; a check that fails without a traceback reports a tool, a name
\* that is not in the file, or a malformed file.
FailureExplained ==
    /\ \A t \in missing : Needed(t) /\ (Comparable(t) => ~Recent(t))
    /\ outcome = "exit 1" =>
          \/ \E t \in ToSet(ToolOrder) : raw[t] \notin ValidShapes
          \/ named \ ToSet(ToolOrder) # {}
          \/ missing # {}

\* The exit code of main and the tools it reports can be trusted in both
\* directions, for every mix of tools that are absent, old, garbled or needed
\* only on demand, as far as to_semver keeps the order of VCS versions.
CheckTruthful == ToolsPresent /\ FailureExplained

\* "[...] which should work as long as the patch version isn't greater than 99"
\* (to_semver): a VCS with such a patch that is recent enough is not reported.
\* It does not hold: 2020.12 becomes 2020.120, less than 2020.3200.
RecentVcsAccepted ==
    \A t \in missing : ToolClass[t] = "vcs" => ~Recent(t)
=============================================================================
