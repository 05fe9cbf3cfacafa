------------------------------- MODULE SimLog -------------------------------
(***************************************************************************)
(* ibex_log_to_trace_csv.py: one pass over the instruction trace of a      *)
(* simulation, which becomes a CSV, and one over its UVM log, which decides *)
(* whether the test passed.  Files are read line by line; a line is what   *)
(* the scripts' patterns find in it.                                       *)
(***************************************************************************)
EXTENDS Integers, Sequences, SequencesExt, FiniteSets

CONSTANTS
    MaxLines,     \* bound: lines of a log or a trace
    PcValues,     \* program counters and branch targets in a trace
    ImmWidth      \* bits of an offset

ASSUME SimLogAssumption == ImmWidth \in Nat /\ PcValues \subseteq 0..(2 ^ ImmWidth - 1)

\* "timeout" is an error line about the wall-clock timeout; "failed" may have
\* the error on its own line.
LogKinds == {"text", "error", "timeout", "passed", "failed", "error_failed"}
\* A trace line: junk (no match: a header, an instruction without operands), an
\* ecall, a branch with pc and target, or another instruction.
TraceLine == [kind : {"junk", "ecall", "other"}, pc : {0}, imm : {0}]
             \cup [kind : {"branch"}, pc : PcValues, imm : PcValues]

VARIABLES trace, csv, log, seen, verdict, reading

logVars == <<trace, csv, log, seen, verdict, reading>>

-----------------------------------------------------------------------------
(* _process_ibex_sim_log_fd and process_ibex_sim_log                        *)

\* Mutant: the offset is taken modulo half its range.
OffsetNarrow(at, imm) == (imm - at) % 2 ^ (ImmWidth - 1)

\* process_imm: the target becomes an offset, in two's complement.
Offset(at, imm) == (imm - at) % 2 ^ ImmWidth

CsvEntry(l) == IF l.kind = "branch" THEN <<l.pc, Offset(l.pc, l.imm)>> ELSE <<l.pc, 0>>

TraceStep ==
    /\ reading = "trace" /\ Len(trace) < MaxLines
    /\ \E l \in TraceLine :
         /\ trace' = Append(trace, l)
         /\ csv' = IF l.kind \in {"branch", "other"} THEN Append(csv, CsvEntry(l)) ELSE csv
         /\ reading' = IF l.kind = "ecall" THEN "traced" ELSE reading
    /\ UNCHANGED <<log, seen, verdict>>

\* A missing trace, or one without instructions, ends the check: FILE_ERROR.
TraceEnds ==
    /\ reading \in {"trace", "traced"}
    /\ IF csv = <<>>
       THEN /\ reading' = "done"
            /\ verdict' = [passed |-> FALSE, mode |-> "FILE_ERROR"]
       ELSE reading' = "log" /\ UNCHANGED verdict
    /\ UNCHANGED <<trace, csv, log, seen>>

-----------------------------------------------------------------------------
(* check_ibex_uvm_log                                                       *)

Stops(kind) == kind \in {"failed", "error_failed"}

IsError(kind) == kind \in {"error", "timeout", "error_failed"}

LogStep ==
    /\ reading = "log" /\ Len(log) < MaxLines
    /\ \E kind \in LogKinds :
         LET error == IsError(kind) /\ ~seen.result
         IN  /\ log' = Append(log, kind)
             /\ seen' = [result |-> seen.result \/ kind \in {"passed", "failed", "error_failed"},
                         passed |-> seen.passed \/ kind = "passed",
                         failed |-> seen.failed \/ error \/ Stops(kind),
                         error_line |-> IF error THEN kind ELSE seen.error_line]
             /\ reading' = IF Stops(kind) THEN "logged" ELSE reading
    /\ UNCHANGED <<trace, csv, verdict>>

\* Mutant of LogEnds: PASSED wins over what went before.
LogEndsPassedWins ==
    /\ reading \in {"log", "logged"} /\ reading' = "done"
    /\ verdict' = [passed |-> seen.passed, mode |-> IF seen.failed THEN "LOG_ERROR" ELSE "NONE"]
    /\ UNCHANGED <<trace, csv, log, seen>>

\* A FAILED without an error line before it: the search for the timeout text
\* in no line raises TypeError.
LogEnds ==
    /\ reading \in {"log", "logged"}
    /\ reading' = "done"
    /\ verdict' =
         CASE ~seen.failed -> [passed |-> seen.passed, mode |-> "NONE"]
           [] seen.failed /\ seen.error_line = "none" -> [passed |-> FALSE, mode |-> "TypeError"]
           [] seen.failed /\ seen.error_line = "timeout" -> [passed |-> FALSE, mode |-> "TIMEOUT"]
           [] OTHER -> [passed |-> FALSE, mode |-> "LOG_ERROR"]
    /\ UNCHANGED <<trace, csv, log, seen>>

-----------------------------------------------------------------------------
LogInit ==
    /\ trace = <<>> /\ csv = <<>> /\ log = <<>> /\ reading = "trace"
    /\ seen = [result |-> FALSE, passed |-> FALSE, failed |-> FALSE, error_line |-> "none"]
    /\ verdict = [passed |-> FALSE, mode |-> "None"]

LogNext == TraceStep \/ TraceEnds \/ LogStep \/ LogEnds

LogSpec == LogInit /\ [][LogNext]_logVars

-----------------------------------------------------------------------------
(* Properties *)

\* A test passes exactly when its trace has instructions and its log says
\* PASSED, never says FAILED, and has no error before the first result (the
\* summary after it quotes the word).
ErrorFree ==
    \A i \in DOMAIN log : IsError(log[i]) =>
        \E k \in 1..(i - 1) : log[k] \in {"passed", "failed", "error_failed"}
VerdictMatchesLog ==
    reading = "done" =>
        (verdict.passed <=> /\ csv # <<>> /\ "passed" \in ToSet(log) /\ ErrorFree
                            /\ {"failed", "error_failed"} \cap ToSet(log) = {})

\* A failure is blamed on the last error before the first result, on the timeout
\* if that line is the timeout's; a log that just stops is blamed on nothing.
\* Of a FAILED without such an error nothing is claimed: see FailureReported.
ErrorsSeen ==
    {i \in DOMAIN log : /\ IsError(log[i])
                        /\ \A k \in 1..(i - 1) : log[k] \notin {"passed", "failed", "error_failed"}}
BlameCorrect ==
    (reading = "done" /\ csv # <<>> /\ ~verdict.passed) =>
        /\ ErrorsSeen # {} =>
              \E i \in ErrorsSeen :
                  /\ \A k \in ErrorsSeen : k <= i
                  /\ verdict.mode = IF log[i] = "timeout" THEN "TIMEOUT" ELSE "LOG_ERROR"
        /\ ToSet(log) \subseteq {"text"} => verdict.mode = "NONE"

\* In whatever order errors, a timeout and results come in the log, a test
\* passes only if it should, and a failure with an error line is blamed on it.
VerdictCorrect == VerdictMatchesLog /\ BlameCorrect

\* "[...] reports failure if an explicit error or failure is seen in the log"
\* (check_ibex_uvm_log): a log with FAILED gets a failure mode.  It does not hold
\* when no error line comes before the FAILED: the function raises TypeError.
FailureReported ==
    (reading = "done" /\ \E i \in DOMAIN log : Stops(log[i])) =>
        verdict.mode \in {"LOG_ERROR", "TIMEOUT"}

\* The CSV has one entry per instruction before the first ecall, in order, and
\* from the entry of a branch its target can be computed.
Instructions(n) == {i \in 1..n : trace[i].kind \in {"branch", "other"}}
CsvFaithful ==
    /\ Len(csv) = Cardinality(Instructions(Len(trace)))
    /\ \A i \in DOMAIN trace : trace[i].kind = "branch" =>
          \E e \in {csv[Cardinality(Instructions(i))]} :
              (e[1] + e[2]) % 2 ^ ImmWidth = trace[i].imm
    /\ \A i \in DOMAIN trace : trace[i].kind = "ecall" => i = Len(trace)
=============================================================================
