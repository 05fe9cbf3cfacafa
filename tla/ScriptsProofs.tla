---------------------------- MODULE ScriptsProofs ----------------------------
(***************************************************************************)
(* What the sequential scripts of the flow promise, for every input.       *)
(***************************************************************************)
EXTENDS SimLog, ToolRequirements, IbexConfig, Sv2vInPlace, TestSelection, Reports,
        FiniteSetTheorems, WellFoundedInduction, NaturalsInduction, SequenceTheorems, TLAPS

-----------------------------------------------------------------------------
(* SimLog: check_ibex_uvm_log reads the log once, from the front, and keeps *)
(* four values; what they say about the lines read so far.                  *)

ResultKinds == {"passed", "failed", "error_failed"}

\* The lines of l that are errors with no result before them.
Blamed(l) ==
    {i \in 1..Len(l) : /\ IsError(l[i])
                       /\ \A k \in 1..(i - 1) : l[k] \notin ResultKinds}

SeenType ==
    [result : BOOLEAN, passed : BOOLEAN, failed : BOOLEAN, error_line : LogKinds \cup {"none"}]

ResultSeen(l, s) == s.result <=> \E i \in 1..Len(l) : l[i] \in ResultKinds
PassedSeen(l, s) == s.passed <=> \E i \in 1..Len(l) : l[i] = "passed"
FailedSeen(l, s) == s.failed <=> Blamed(l) # {} \/ \E i \in 1..Len(l) : Stops(l[i])
ErrorSeen(l, s) ==
    \/ Blamed(l) = {} /\ s.error_line = "none"
    \/ \E i \in Blamed(l) : s.error_line = l[i] /\ \A k \in Blamed(l) : k <= i

Read(l, s) == /\ l \in Seq(LogKinds) /\ s \in SeenType
              /\ ResultSeen(l, s) /\ PassedSeen(l, s) /\ FailedSeen(l, s) /\ ErrorSeen(l, s)

\* What LogEnds makes of them.
Judged(s) ==
    CASE ~s.failed -> [passed |-> s.passed, mode |-> "NONE"]
      [] s.failed /\ s.error_line = "none" -> [passed |-> FALSE, mode |-> "TypeError"]
      [] s.failed /\ s.error_line = "timeout" -> [passed |-> FALSE, mode |-> "TIMEOUT"]
      [] OTHER -> [passed |-> FALSE, mode |-> "LOG_ERROR"]

LogInv ==
    /\ Read(log, seen)
    /\ \A i \in 1..Len(log) : Stops(log[i]) => i = Len(log) /\ reading # "log"
    /\ reading \in {"trace", "traced", "log", "logged", "done"}
    /\ reading \in {"log", "logged"} => csv # <<>>
    /\ reading = "done" => IF csv = <<>> THEN ~verdict.passed ELSE verdict = Judged(seen)
    /\ reading \in {"trace", "traced"} => log = <<>>

\* The lines of a log and of the same log with one line more.
LEMMA OneMoreLine ==
    ASSUME NEW l \in Seq(LogKinds), NEW k \in LogKinds
    PROVE  /\ Append(l, k) \in Seq(LogKinds) /\ Len(Append(l, k)) = Len(l) + 1 /\ Len(l) \in Nat
           /\ \A i \in 1..Len(l) : Append(l, k)[i] = l[i] /\ l[i] \in LogKinds
           /\ Append(l, k)[Len(l) + 1] = k
OBVIOUS

\* A line more is blamed if it is an error and no result came before it.
LEMMA BlamedAppend ==
    ASSUME NEW l \in Seq(LogKinds), NEW k \in LogKinds
    PROVE  Blamed(Append(l, k)) =
             Blamed(l) \cup {i \in {Len(l) + 1} : IsError(k)
                               /\ \A j \in 1..Len(l) : l[j] \notin ResultKinds}
<1> DEFINE m == Append(l, k)
           n == Len(l)
<1>1. /\ Len(m) = n + 1 /\ n \in Nat
      /\ \A i \in 1..n : m[i] = l[i]
      /\ m[n + 1] = k
  BY OneMoreLine
<1> HIDE DEF m
<1>2. ASSUME NEW i \in 1..n
      PROVE  i \in Blamed(m) <=> i \in Blamed(l)
  <2>1. /\ i \in 1..Len(m) /\ m[i] = l[i]
        /\ \A j \in 1..(i - 1) : m[j] = l[j]
    BY <1>1
  <2>2. QED
    BY <2>1 DEF Blamed
<1>3. n + 1 \in Blamed(m) <=> IsError(k) /\ \A j \in 1..n : l[j] \notin ResultKinds
  <2>1. n + 1 \in 1..Len(m) /\ 1..(n + 1 - 1) = 1..n
    BY <1>1
  <2>2. QED
    BY <1>1, <2>1 DEF Blamed
<1>4. /\ \A i \in Blamed(m) : i \in 1..n \/ i = n + 1
      /\ \A i \in Blamed(l) : i \in 1..n
      /\ n + 1 \notin 1..n
  BY <1>1 DEF Blamed
<1>5. QED
  BY <1>2, <1>3, <1>4 DEF m

\* What LogStep does to the four values.
Advance(s, k) ==
    LET error == IsError(k) /\ ~s.result
    IN  [result |-> s.result \/ k \in {"passed", "failed", "error_failed"},
         passed |-> s.passed \/ k = "passed",
         failed |-> s.failed \/ error \/ Stops(k),
         error_line |-> IF error THEN k ELSE s.error_line]

\* Reading one line keeps the four values true to the lines read.
LEMMA ReadStep ==
    ASSUME NEW l, NEW s, NEW k \in LogKinds, Read(l, s)
    PROVE  Read(Append(l, k), Advance(s, k))
<1> DEFINE m == Append(l, k)
           n == Len(l)
           t == Advance(s, k)
           error == IsError(k) /\ ~s.result
<1>1. /\ l \in Seq(LogKinds) /\ s \in SeenType
      /\ ResultSeen(l, s) /\ PassedSeen(l, s) /\ FailedSeen(l, s) /\ ErrorSeen(l, s)
  BY DEF Read
<1>2. /\ m \in Seq(LogKinds) /\ Len(m) = n + 1 /\ n \in Nat
      /\ \A i \in 1..n : m[i] = l[i]
      /\ m[n + 1] = k
  BY <1>1, OneMoreLine
<1>3. /\ t.result = (s.result \/ k \in ResultKinds)
      /\ t.passed = (s.passed \/ k = "passed")
      /\ t.failed = (s.failed \/ error \/ Stops(k))
      /\ t.error_line = IF error THEN k ELSE s.error_line
  BY DEF Advance, ResultKinds
<1>4. t \in SeenType
  <2>1. /\ s.result \in BOOLEAN /\ s.passed \in BOOLEAN /\ s.failed \in BOOLEAN
        /\ s.error_line \in LogKinds \cup {"none"}
    BY <1>1 DEF SeenType
  <2>2. (IF error THEN k ELSE s.error_line) \in LogKinds \cup {"none"}
    BY <2>1
  <2>3. QED
    BY <2>1, <2>2 DEF SeenType, Advance
<1>5. error <=> IsError(k) /\ \A j \in 1..n : l[j] \notin ResultKinds
  BY <1>1 DEF ResultSeen
<1>6. /\ error => Blamed(m) = Blamed(l) \cup {n + 1}
      /\ ~error => Blamed(m) = Blamed(l)
  <2>1. Blamed(m) = Blamed(l) \cup {i \in {n + 1} : IsError(k)
                                     /\ \A j \in 1..n : l[j] \notin ResultKinds}
    BY <1>1, BlamedAppend
  <2>2. QED
    BY <2>1, <1>5
<1>7. \A i \in Blamed(l) : i \in 1..n
  BY DEF Blamed
<1> HIDE DEF m, t
<1>8. 1..Len(m) = 1..n \cup {n + 1}
  BY <1>2
<1>9. ResultSeen(m, t)
  BY <1>1, <1>2, <1>3, <1>8 DEF ResultSeen
<1>10. PassedSeen(m, t)
  BY <1>1, <1>2, <1>3, <1>8 DEF PassedSeen
<1>11. FailedSeen(m, t)
  <2>1. (\E i \in 1..Len(m) : Stops(m[i])) <=> (\E i \in 1..n : Stops(l[i])) \/ Stops(k)
    BY <1>2, <1>8
  <2>2. Blamed(m) # {} <=> Blamed(l) # {} \/ error
    BY <1>6
  <2>3. QED
    BY <1>1, <1>3, <2>1, <2>2 DEF FailedSeen
<1>12. ErrorSeen(m, t)
  <2>1. CASE error
    <3>1. /\ n + 1 \in Blamed(m) /\ t.error_line = m[n + 1]
          /\ \A i \in Blamed(m) : i <= n + 1
      BY <2>1, <1>2, <1>3, <1>6, <1>7
    <3>2. QED
      BY <3>1 DEF ErrorSeen
  <2>2. CASE ~error
    <3>1. Blamed(m) = Blamed(l) /\ t.error_line = s.error_line
      BY <2>2, <1>3, <1>6
    <3>2. \A i \in Blamed(l) : m[i] = l[i]
      BY <1>2, <1>7
    <3>3. QED
      BY <3>1, <3>2, <1>1 DEF ErrorSeen
  <2>3. QED
    BY <2>1, <2>2
<1>13. QED
  BY <1>2, <1>4, <1>9, <1>10, <1>11, <1>12 DEF Read, m, t

\* The values the check begins with are true to the empty log.
LEMMA ReadNothing ==
    Read(<<>>, [result |-> FALSE, passed |-> FALSE, failed |-> FALSE, error_line |-> "none"])
<1>1. Len(<<>>) = 0 /\ 1..0 = {} /\ <<>> \in Seq(LogKinds)
  OBVIOUS
<1>2. Blamed(<<>>) = {}
  BY <1>1 DEF Blamed
<1>3. QED
  BY <1>1, <1>2 DEF Read, ResultSeen, PassedSeen, FailedSeen, ErrorSeen, SeenType

\* Every step of the two passes keeps LogInv.
LEMMA LogInvStep == LogInv /\ [LogNext]_logVars => LogInv'
<1> SUFFICES ASSUME LogInv, [LogNext]_logVars
             PROVE  LogInv'
  OBVIOUS
<1>1. CASE TraceStep
  <2>1. /\ log' = log /\ seen' = seen /\ verdict' = verdict
        /\ reading = "trace" /\ reading' \in {"trace", "traced"}
    BY <1>1 DEF TraceStep
  <2>2. QED
    BY <2>1 DEF LogInv
<1>2. CASE TraceEnds
  <2>1. /\ log' = log /\ seen' = seen /\ csv' = csv /\ log = <<>>
    BY <1>2 DEF TraceEnds, LogInv
  <2>2. \/ csv = <<>> /\ reading' = "done" /\ verdict'.passed = FALSE
        \/ csv # <<>> /\ reading' = "log"
    BY <1>2 DEF TraceEnds
  <2>3. Len(log) = 0
    BY <2>1
  <2>4. QED
    BY <2>1, <2>2, <2>3 DEF LogInv
<1>3. CASE LogStep
  <2>1. PICK k \in LogKinds :
          /\ log' = Append(log, k) /\ seen' = Advance(seen, k)
          /\ reading' = IF Stops(k) THEN "logged" ELSE reading
    BY <1>3 DEF LogStep, Advance
  <2>2. reading = "log" /\ csv' = csv /\ verdict' = verdict
    BY <1>3 DEF LogStep
  <2>3. Read(log', seen')
    BY <2>1, ReadStep DEF LogInv
  <2>4. log \in Seq(LogKinds) /\ \A i \in 1..Len(log) : ~Stops(log[i])
    BY <2>2 DEF LogInv, Read
  <2>5. /\ Len(log') = Len(log) + 1 /\ Len(log) \in Nat
        /\ \A i \in 1..Len(log) : log'[i] = log[i]
        /\ log'[Len(log) + 1] = k
    BY <2>1, <2>4, OneMoreLine
  <2>6. ASSUME NEW i \in 1..Len(log'), Stops(log'[i])
        PROVE  i = Len(log') /\ reading' # "log"
    <3>1. i = Len(log) + 1
      BY <2>4, <2>5, <2>6
    <3>2. QED
      BY <3>1, <2>1, <2>5, <2>6
  <2>7. reading' \in {"log", "logged"}
    BY <2>1, <2>2
  <2>8. QED
    BY <2>2, <2>3, <2>6, <2>7 DEF LogInv
<1>4. CASE LogEnds
  <2>1. /\ log' = log /\ seen' = seen /\ csv' = csv /\ reading' = "done"
        /\ verdict' = Judged(seen) /\ reading \in {"log", "logged"}
    BY <1>4 DEF LogEnds, Judged
  <2>2. QED
    BY <2>1 DEF LogInv
<1>5. CASE UNCHANGED logVars
  BY <1>5 DEF logVars, LogInv
<1>6. QED
  BY <1>1, <1>2, <1>3, <1>4, <1>5 DEF LogNext

\* The verdict on a log whose four values are true to it.
LEMMA LogInvVerdict == LogInv => VerdictCorrect
<1> SUFFICES ASSUME LogInv
             PROVE  VerdictCorrect
  OBVIOUS
<1> DEFINE n == Len(log)
<1>1. /\ log \in Seq(LogKinds) /\ seen \in SeenType
      /\ ResultSeen(log, seen) /\ PassedSeen(log, seen)
      /\ FailedSeen(log, seen) /\ ErrorSeen(log, seen)
  BY DEF LogInv, Read
<1>2. DOMAIN log = 1..n /\ n \in Nat
  BY <1>1
<1>3. ToSet(log) = {log[i] : i \in 1..n}
  BY <1>2 DEF ToSet
<1>4. ErrorsSeen = Blamed(log)
  BY <1>2 DEF ErrorsSeen, Blamed, ResultKinds
<1>5. ErrorFree <=> Blamed(log) = {}
  BY <1>2 DEF ErrorFree, Blamed, ResultKinds
<1>6. "passed" \in ToSet(log) <=> seen.passed
  BY <1>1, <1>3 DEF PassedSeen
<1>7. {"failed", "error_failed"} \cap ToSet(log) = {} <=> \A i \in 1..n : ~Stops(log[i])
  BY <1>3 DEF Stops
<1>8. seen.passed \in BOOLEAN /\ seen.failed \in BOOLEAN
  BY <1>1 DEF SeenType
<1>9. ~seen.failed <=> Blamed(log) = {} /\ \A i \in 1..n : ~Stops(log[i])
  BY <1>1 DEF FailedSeen
<1>10. Judged(seen).passed <=> ~seen.failed /\ seen.passed
  BY <1>8 DEF Judged
<1>11. VerdictMatchesLog
  BY <1>5, <1>6, <1>7, <1>9, <1>10 DEF VerdictMatchesLog, LogInv
<1>12. ASSUME reading = "done", csv # <<>>, ~verdict.passed
       PROVE  /\ ErrorsSeen # {} =>
                    \E i \in ErrorsSeen :
                        /\ \A k \in ErrorsSeen : k <= i
                        /\ verdict.mode = IF log[i] = "timeout" THEN "TIMEOUT" ELSE "LOG_ERROR"
              /\ ToSet(log) \subseteq {"text"} => verdict.mode = "NONE"
  <2>1. verdict = Judged(seen)
    BY <1>12 DEF LogInv
  <2>2. CASE ~seen.failed
    <3>1. verdict.mode = "NONE"
      BY <2>1, <2>2 DEF Judged
    <3>2. ErrorsSeen = {}
      BY <1>4, <1>9, <2>2
    <3>3. QED
      BY <3>1, <3>2
  <2>3. CASE seen.failed /\ seen.error_line = "none"
    <3>1. Blamed(log) = {}
      <4>1. \A i \in Blamed(log) : IsError(log[i])
        BY DEF Blamed
      <4>2. QED
        BY <4>1, <1>1, <2>3 DEF ErrorSeen, IsError
    <3>2. PICK i \in 1..n : Stops(log[i])
      BY <3>1, <2>3, <1>9
    <3>3. log[i] \in ToSet(log) /\ log[i] # "text"
      BY <3>2, <1>3 DEF Stops
    <3>4. QED
      BY <3>1, <3>3, <1>4
  <2>4. CASE seen.failed /\ seen.error_line # "none"
    <3>1. PICK i \in Blamed(log) : seen.error_line = log[i] /\ \A k \in Blamed(log) : k <= i
      BY <2>4, <1>1 DEF ErrorSeen
    <3>2. verdict.mode = IF seen.error_line = "timeout" THEN "TIMEOUT" ELSE "LOG_ERROR"
      BY <2>1, <2>4 DEF Judged
    <3>3. i \in 1..n /\ IsError(log[i])
      BY <3>1 DEF Blamed
    <3>4. log[i] \in ToSet(log) /\ log[i] # "text"
      BY <3>3, <1>3 DEF IsError
    <3>5. QED
      BY <3>1, <3>2, <3>4, <1>4
  <2>5. QED
    BY <2>2, <2>3, <2>4
<1>13. QED
  BY <1>11, <1>12 DEF VerdictCorrect, BlameCorrect

\* For logs of every length and mix of lines: check_ibex_uvm_log lets a test
\* pass only if its log says so and has no error that counts, and blames a
\* failure that has an error line on the right one.
THEOREM LogVerdictCorrect == LogSpec => []VerdictCorrect
<1>1. LogInit => LogInv
  <2> SUFFICES ASSUME LogInit
               PROVE  LogInv
    OBVIOUS
  <2>1. Read(log, seen)
    BY ReadNothing DEF LogInit
  <2>2. log = <<>> /\ Len(log) = 0 /\ reading = "trace"
    BY DEF LogInit
  <2>3. QED
    BY <2>1, <2>2 DEF LogInv
<1>2. QED
  BY <1>1, LogInvStep, LogInvVerdict, PTL DEF LogSpec

-----------------------------------------------------------------------------
(* SimLog: the CSV                                                          *)

\* In two's complement an offset leads from the pc back to the target.
LEMMA OffsetLeadsBack ==
    ASSUME NEW pc \in PcValues, NEW imm \in PcValues
    PROVE  /\ Offset(pc, imm) \in Int /\ pc \in Int
           /\ (pc + Offset(pc, imm)) % 2 ^ ImmWidth = imm
<1>1. PICK m : m = 2 ^ ImmWidth
  OBVIOUS
<1>2. m \in Int
  BY <1>1, SimLogAssumption
<1>3. pc \in 0..(m - 1) /\ imm \in 0..(m - 1)
  BY <1>1, SimLogAssumption
<1>4. m \in Nat \ {0}
  BY <1>2, <1>3
<1>5. Offset(pc, imm) = (imm - pc) % m
  BY <1>1 DEF Offset
<1>6. (imm - pc) % m = IF imm >= pc THEN imm - pc ELSE imm - pc + m
  BY <1>3, <1>4
<1>7. imm % m = imm /\ (imm + m) % m = imm
  BY <1>3, <1>4
<1>8. pc + Offset(pc, imm) = IF imm >= pc THEN imm ELSE imm + m
  BY <1>3, <1>4, <1>5, <1>6
<1>9. QED
  BY <1>1, <1>3, <1>4, <1>5, <1>6, <1>7, <1>8

CsvKinds == {"branch", "other"}

\* The instructions among the first n lines of t.
Taken(t, n) == {i \in 1..n : t[i].kind \in CsvKinds}

\* The entry of every branch in c leads to its target.
LeadsBack(t, c) ==
    \A i \in 1..Len(t) : t[i].kind = "branch" =>
        \E e \in {c[Cardinality(Taken(t, i))]} : (e[1] + e[2]) % 2 ^ ImmWidth = t[i].imm

CsvInv ==
    /\ trace \in Seq(TraceLine) /\ csv \in Seq(Int \X Int)
    /\ Len(csv) = Cardinality(Taken(trace, Len(trace)))
    /\ LeadsBack(trace, csv)
    /\ \A i \in 1..Len(trace) : trace[i].kind = "ecall" => i = Len(trace) /\ reading # "trace"

\* The instructions of a trace, and of the same trace with a line more.
LEMMA TakenAppend ==
    ASSUME NEW t \in Seq(TraceLine), NEW l \in TraceLine
    PROVE  /\ \A n \in 0..Len(t) : /\ Taken(Append(t, l), n) = Taken(t, n)
                                   /\ IsFiniteSet(Taken(t, n))
                                   /\ Cardinality(Taken(t, n)) \in 0..Cardinality(Taken(t, Len(t)))
                                   /\ n # 0 /\ t[n].kind \in CsvKinds => Cardinality(Taken(t, n)) # 0
           /\ Cardinality(Taken(t, Len(t))) \in Nat
           /\ Cardinality(Taken(Append(t, l), Len(t) + 1)) =
                Cardinality(Taken(t, Len(t))) + IF l.kind \in CsvKinds THEN 1 ELSE 0
<1> DEFINE u == Append(t, l)
           m == Len(t)
<1>1. /\ Len(u) = m + 1 /\ m \in Nat /\ u[m + 1] = l
      /\ \A i \in 1..m : u[i] = t[i]
  OBVIOUS
<1> HIDE DEF u
<1>2. ASSUME NEW n \in 0..m
      PROVE  IsFiniteSet(Taken(t, n)) /\ Cardinality(Taken(t, n)) \in Nat
  <2>1. IsFiniteSet(1..n)
    BY <1>1, FS_Interval
  <2>2. Taken(t, n) \subseteq 1..n
    BY DEF Taken
  <2>3. IsFiniteSet(Taken(t, n))
    BY <2>1, <2>2, FS_Subset
  <2>4. QED
    BY <2>3, FS_CardinalityType
<1>3. m \in 0..m
  BY <1>1
<1>4. ASSUME NEW n \in 0..m
      PROVE  /\ Taken(u, n) = Taken(t, n)
             /\ Cardinality(Taken(t, n)) \in 0..Cardinality(Taken(t, m))
             /\ n # 0 /\ t[n].kind \in CsvKinds => Cardinality(Taken(t, n)) # 0
  <2>1. \A i \in 1..n : i \in 1..m /\ u[i] = t[i]
    BY <1>1
  <2>2. Taken(u, n) = Taken(t, n)
    BY <2>1 DEF Taken
  <2>3. Taken(t, n) \subseteq Taken(t, m)
    BY <2>1 DEF Taken
  <2>4. Cardinality(Taken(t, n)) <= Cardinality(Taken(t, m))
    BY <2>3, <1>2, <1>3, FS_Subset
  <2>5. n # 0 /\ t[n].kind \in CsvKinds => n \in Taken(t, n)
    BY <1>1 DEF Taken
  <2>6. Cardinality(Taken(t, n)) = 0 => Taken(t, n) = {}
    BY <1>2, FS_EmptySet
  <2>7. QED
    BY <2>2, <2>4, <2>5, <2>6, <1>2, <1>3
<1>5. Cardinality(Taken(u, m + 1)) = Cardinality(Taken(t, m)) + IF l.kind \in CsvKinds THEN 1 ELSE 0
  <2>1. 1..(m + 1) = 1..m \cup {m + 1} /\ m + 1 \notin 1..m
    BY <1>1
  <2>2. Taken(u, m + 1) = IF l.kind \in CsvKinds THEN Taken(t, m) \cup {m + 1} ELSE Taken(t, m)
    BY <2>1, <1>1 DEF Taken
  <2>3. m + 1 \notin Taken(t, m)
    BY <2>1 DEF Taken
  <2>4. Cardinality(Taken(t, m) \cup {m + 1}) = Cardinality(Taken(t, m)) + 1
    BY <2>3, <1>2, <1>3, FS_AddElement
  <2>5. Cardinality(Taken(t, m)) \in Nat
    BY <1>2, <1>3
  <2>6. CASE l.kind \in CsvKinds
    BY <2>2, <2>4, <2>6
  <2>7. CASE l.kind \notin CsvKinds
    BY <2>2, <2>5, <2>7
  <2>8. QED
    BY <2>6, <2>7
<1>6. QED
  BY <1>2, <1>3, <1>4, <1>5 DEF u

\* A line of the trace keeps the CSV true to it.
LEMMA CsvStep ==
    ASSUME CsvInv, TraceStep
    PROVE  CsvInv'
<1> DEFINE n == Len(trace)
           c == Cardinality(Taken(trace, n))
<1>1. PICK l \in TraceLine :
        /\ trace' = Append(trace, l)
        /\ csv' = IF l.kind \in CsvKinds THEN Append(csv, CsvEntry(l)) ELSE csv
        /\ reading' = IF l.kind = "ecall" THEN "traced" ELSE reading
  BY DEF TraceStep, CsvKinds
<1>2. /\ trace \in Seq(TraceLine) /\ csv \in Seq(Int \X Int) /\ Len(csv) = c
      /\ LeadsBack(trace, csv) /\ reading = "trace"
      /\ \A i \in 1..n : trace[i].kind # "ecall"
  BY DEF CsvInv, TraceStep
<1>3. /\ \A k \in 0..n : /\ Taken(trace', k) = Taken(trace, k)
                         /\ Cardinality(Taken(trace, k)) \in 0..c
                         /\ k # 0 /\ trace[k].kind \in CsvKinds => Cardinality(Taken(trace, k)) # 0
      /\ c \in Nat
      /\ Cardinality(Taken(trace', n + 1)) = c + IF l.kind \in CsvKinds THEN 1 ELSE 0
  BY <1>1, <1>2, TakenAppend
<1>4. /\ trace' \in Seq(TraceLine) /\ Len(trace') = n + 1 /\ n \in Nat
      /\ \A i \in 1..n : trace'[i] = trace[i]
      /\ trace'[n + 1] = l
  BY <1>1, <1>2
<1>5. /\ l.kind = "branch" => /\ l.pc \in PcValues /\ l.imm \in PcValues
                              /\ CsvEntry(l) = <<l.pc, Offset(l.pc, l.imm)>>
      /\ l.kind # "branch" => CsvEntry(l) = <<0, 0>>
  BY DEF TraceLine, CsvEntry
<1>6. CsvEntry(l) \in Int \X Int
  BY <1>5, OffsetLeadsBack
<1>7. l.kind = "branch" => (CsvEntry(l)[1] + CsvEntry(l)[2]) % 2 ^ ImmWidth = l.imm
  BY <1>5, OffsetLeadsBack
<1> HIDE DEF c
<1>8. PICK x : x = CsvEntry(l)
  OBVIOUS
<1>9. /\ csv' \in Seq(Int \X Int)
      /\ Len(csv') = c + IF l.kind \in CsvKinds THEN 1 ELSE 0
      /\ \A k \in 1..c : csv'[k] = csv[k]
      /\ l.kind \in CsvKinds => csv'[c + 1] = x
  <2>1. CASE l.kind \in CsvKinds
    <3>1. csv' = Append(csv, x) /\ x \in Int \X Int
      BY <2>1, <1>1, <1>6, <1>8
    <3>2. QED
      BY <2>1, <3>1, <1>2, <1>3
  <2>2. CASE l.kind \notin CsvKinds
    BY <2>2, <1>1, <1>2, <1>3
  <2>3. QED
    BY <2>1, <2>2
<1>10. LeadsBack(trace', csv')
  <2> SUFFICES ASSUME NEW i \in 1..(n + 1), trace'[i].kind = "branch"
               PROVE  \E e \in {csv'[Cardinality(Taken(trace', i))]} :
                        (e[1] + e[2]) % 2 ^ ImmWidth = trace'[i].imm
    BY <1>4 DEF LeadsBack
  <2>1. CASE i \in 1..n
    <3>1. trace'[i] = trace[i] /\ trace[i].kind \in CsvKinds
      BY <2>1, <1>4 DEF CsvKinds
    <3>2. Taken(trace', i) = Taken(trace, i) /\ Cardinality(Taken(trace, i)) \in 1..c
      BY <2>1, <1>3, <1>4, <3>1
    <3>3. csv'[Cardinality(Taken(trace', i))] = csv[Cardinality(Taken(trace, i))]
      BY <3>2, <1>9
    <3>4. \E e \in {csv[Cardinality(Taken(trace, i))]} :
            (e[1] + e[2]) % 2 ^ ImmWidth = trace[i].imm
      BY <2>1, <3>1, <1>2 DEF LeadsBack
    <3>5. QED
      BY <3>1, <3>3, <3>4
  <2>2. CASE i = n + 1
    <3>1. l.kind = "branch" /\ l.kind \in CsvKinds
      BY <2>2, <1>4 DEF CsvKinds
    <3>2. Cardinality(Taken(trace', i)) = c + 1
      BY <2>2, <3>1, <1>3
    <3>3. csv'[c + 1] = x /\ (x[1] + x[2]) % 2 ^ ImmWidth = l.imm
      BY <3>1, <1>7, <1>8, <1>9
    <3>4. QED
      BY <2>2, <3>2, <3>3, <1>4
  <2>3. QED
    BY <1>4, <2>1, <2>2
<1>11. ASSUME NEW i \in 1..Len(trace'), trace'[i].kind = "ecall"
       PROVE  i = Len(trace') /\ reading' # "trace"
  <2>1. i \in 1..(n + 1)
    BY <1>4, <1>11
  <2>2. ~(i \in 1..n)
    <3>1. SUFFICES ASSUME i \in 1..n PROVE FALSE
      OBVIOUS
    <3>2. trace'[i] = trace[i] /\ trace[i].kind # "ecall"
      BY <1>2, <1>4, <3>1
    <3>3. QED
      BY <1>11, <3>2
  <2>3. i = n + 1
    BY <1>4, <2>1, <2>2
  <2>4. QED
    BY <2>3, <1>1, <1>4, <1>11
<1>12. Len(csv') = Cardinality(Taken(trace', Len(trace')))
  BY <1>3, <1>4, <1>9
<1>13. QED
  BY <1>4, <1>9, <1>10, <1>11, <1>12 DEF CsvInv

\* For traces of every length and offsets of every width: the CSV has the
\* instructions up to the first ecall, and their branches lead where they led.
THEOREM TraceCsvFaithful == LogSpec => []CsvFaithful
<1>1. LogInit => CsvInv
  <2> SUFFICES ASSUME LogInit
               PROVE  CsvInv
    OBVIOUS
  <2>1. trace = <<>> /\ csv = <<>> /\ Len(trace) = 0 /\ Len(csv) = 0 /\ 1..0 = {}
    BY DEF LogInit
  <2>2. Taken(trace, 0) = {}
    BY <2>1 DEF Taken
  <2>3. Cardinality({}) = 0
    BY FS_EmptySet
  <2>4. QED
    BY <2>1, <2>2, <2>3 DEF CsvInv, LeadsBack
<1>2. CsvInv /\ [LogNext]_logVars => CsvInv'
  <2> SUFFICES ASSUME CsvInv, [LogNext]_logVars
               PROVE  CsvInv'
    OBVIOUS
  <2>1. CASE TraceStep
    BY <2>1, CsvStep
  <2>2. CASE TraceEnds \/ LogStep \/ LogEnds \/ UNCHANGED logVars
    <3>1. /\ trace' = trace /\ csv' = csv
          /\ reading' = "trace" => reading = "trace"
      BY <2>2 DEF TraceEnds, LogStep, LogEnds, logVars
    <3>2. QED
      BY <3>1 DEF CsvInv
  <2>3. QED
    BY <2>1, <2>2 DEF LogNext
<1>3. CsvInv => CsvFaithful
  <2> SUFFICES ASSUME CsvInv
               PROVE  CsvFaithful
    OBVIOUS
  <2>1. DOMAIN trace = 1..Len(trace)
    BY DEF CsvInv
  <2>2. \A n : Instructions(n) = Taken(trace, n)
    BY DEF Instructions, Taken, CsvKinds
  <2>3. QED
    BY <2>1, <2>2 DEF CsvInv, LeadsBack, CsvFaithful
<1>4. QED
  BY <1>1, <1>2, <1>3, PTL DEF LogSpec

-----------------------------------------------------------------------------
(* ToolRequirements: the order of versions                                  *)

Combs == 0..9999
Scale(c) == IF c < 10 THEN 10 ELSE IF c < 100 THEN 100 ELSE IF c < 1000 THEN 1000 ELSE 10000

\* The digits of a number below 10000.
LEMMA DigitsScale ==
    ASSUME NEW c \in Combs
    PROVE  10 ^ Digits(c) = Scale(c)
<1>1. 10 ^ 1 = 10 /\ 10 ^ 2 = 100 /\ 10 ^ 3 = 1000 /\ 10 ^ 4 = 10000
  OBVIOUS
<1>2. QED
  BY <1>1 DEF Digits, Scale, Combs

\* to_semver, by the scale of what it writes after the month.
LEMMA Semver ==
    ASSUME NEW v \in VcsVersion
    PROVE  /\ comb(v) \in Combs /\ v.year \in Nat /\ v.month \in Nat
           /\ to_semver(v) = <<v.year, v.month * Scale(comb(v)) + comb(v)>>
<1>1. v.sp \in 0..99 /\ v.patch \in 0..99 /\ v.year \in Nat /\ v.month \in Nat
  BY DEF VcsVersion, MaxSp
<1>2. PICK s, p : s = v.sp /\ p = v.patch
  OBVIOUS
<1>3. s \in 0..99 /\ p \in 0..99 /\ comb(v) = s * 100 + p
  BY <1>1, <1>2 DEF comb
<1>4. s * 100 + p \in Combs
  BY <1>3 DEF Combs
<1>5. PICK c \in Combs : c = comb(v)
  BY <1>3, <1>4
<1>6. 10 ^ Digits(c) = Scale(c)
  BY <1>5, DigitsScale
<1>7. QED
  BY <1>1, <1>5, <1>6 DEF to_semver

\* More digits, a larger scale; a number is below its scale.
LEMMA ScaleGrows ==
    ASSUME NEW c \in Combs, NEW d \in Combs
    PROVE  /\ Scale(c) \in Nat /\ c < Scale(c) /\ Scale(c) >= 1
           /\ (Digits(c) >= Digits(d) => Scale(c) >= Scale(d))
           /\ (c >= d => Scale(c) >= Scale(d))
BY DEF Scale, Digits, Combs

\* A later month with no smaller scale is greater, whatever follows it.
LEMMA LaterMonth ==
    ASSUME NEW a \in Nat, NEW b \in Nat, NEW p \in Nat, NEW q \in Nat, NEW c \in Nat, NEW d \in Nat,
           a > b, p >= q, d < q
    PROVE  a * p + c > b * q + d
<1>1. PICK e \in Nat : a = b + 1 + e
  <2>1. a - b - 1 \in Nat /\ a = b + 1 + (a - b - 1)
    OBVIOUS
  <2>2. QED
    BY <2>1
<1>2. PICK g \in Nat : p = q + g
  <2>1. p - q \in Nat /\ p = q + (p - q)
    OBVIOUS
  <2>2. QED
    BY <2>1
<1>3. b * q \in Nat /\ b * g \in Nat /\ e * q \in Nat /\ e * g \in Nat
  OBVIOUS
<1>4. a * p = b * q + b * g + q + g + e * q + e * g
  BY <1>1, <1>2
<1>5. QED
  BY <1>2, <1>3, <1>4

\* Products of natural numbers grow.
LEMMA NatTimes ==
    ASSUME NEW a \in Nat, NEW p \in Nat, NEW q \in Nat, p >= q
    PROVE  a * p >= a * q
<1>1. PICK g \in Nat : p = q + g
  <2>1. p - q \in Nat /\ p = q + (p - q)
    OBVIOUS
  <2>2. QED
    BY <2>1
<1>2. a * p = a * q + a * g /\ a * q \in Nat /\ a * g \in Nat
  BY <1>1
<1>3. QED
  BY <1>2

\* Where the digits follow the months, to_semver keeps the order of versions.
LEMMA SemverOrder ==
    ASSUME NEW f \in VcsVersion, NEW m \in VcsVersion, DigitsFollowMonth(f, m)
    PROVE  ~Older(to_semver(f), to_semver(m)) <=>
             \/ f.year > m.year
             \/ f.year = m.year /\ f.month > m.month
             \/ f.year = m.year /\ f.month = m.month /\ comb(f) >= comb(m)
<1>1. PICK c, y, a : c = comb(f) /\ y = f.year /\ a = f.month
  OBVIOUS
<1>2. PICK d, z, b : d = comb(m) /\ z = m.year /\ b = m.month
  OBVIOUS
<1>3. c \in Combs /\ y \in Nat /\ a \in Nat /\ to_semver(f) = <<y, a * Scale(c) + c>>
  BY <1>1, Semver
<1>4. d \in Combs /\ z \in Nat /\ b \in Nat /\ to_semver(m) = <<z, b * Scale(d) + d>>
  BY <1>2, Semver
<1>5. PICK p, q : p = Scale(c) /\ q = Scale(d)
  OBVIOUS
<1>6. /\ p \in Nat /\ q \in Nat /\ c < p /\ d < q /\ c \in Nat /\ d \in Nat
      /\ (Digits(c) >= Digits(d) => p >= q) /\ (Digits(c) <= Digits(d) => q >= p)
      /\ (c >= d => p >= q) /\ (d >= c => q >= p)
  <2>1. Digits(c) \in Nat /\ Digits(d) \in Nat
    BY DEF Digits
  <2>2. /\ p \in Nat /\ c < p /\ (Digits(c) >= Digits(d) => p >= q) /\ (c >= d => p >= q)
    BY <1>3, <1>4, <1>5, ScaleGrows
  <2>3. /\ q \in Nat /\ d < q /\ (Digits(d) >= Digits(c) => q >= p) /\ (d >= c => q >= p)
    BY <1>3, <1>4, <1>5, ScaleGrows
  <2>4. c \in Nat /\ d \in Nat
    BY <1>3, <1>4 DEF Combs
  <2>5. Digits(c) <= Digits(d) <=> Digits(d) >= Digits(c)
    BY <2>1
  <2>6. QED
    BY <2>2, <2>3, <2>4, <2>5
<1>7. PICK u, w : u = a * p + c /\ w = b * q + d
  OBVIOUS
<1>8. u \in Nat /\ w \in Nat
  BY <1>3, <1>4, <1>6, <1>7
<1>9. ~Older(to_semver(f), to_semver(m)) <=> ~(y < z \/ (y = z /\ u < w))
  BY <1>3, <1>4, <1>5, <1>7 DEF Older
<1>9a. y = z => \/ a = b \/ (a > b /\ Digits(c) >= Digits(d))
                 \/ (a < b /\ Digits(c) <= Digits(d))
  BY <1>1, <1>2, Zenon DEF DigitsFollowMonth
<1>10. CASE y # z
  BY <1>1, <1>2, <1>3, <1>4, <1>9, <1>10
<1>11. CASE y = z /\ a > b
  <2>1. p >= q
    BY <1>9a, <1>3, <1>4, <1>6, <1>11
  <2>2. u > w
    BY <1>3, <1>4, <1>6, <1>7, <1>11, <2>1, LaterMonth
  <2>3. QED
    BY <1>1, <1>2, <1>3, <1>4, <1>8, <1>9, <1>11, <2>2
<1>12. CASE y = z /\ a < b
  <2>1. q >= p
    BY <1>9a, <1>3, <1>4, <1>6, <1>12
  <2>2. w > u
    BY <1>3, <1>4, <1>6, <1>7, <1>12, <2>1, LaterMonth
  <2>3. QED
    BY <1>1, <1>2, <1>3, <1>4, <1>8, <1>9, <1>12, <2>2
<1>13. CASE y = z /\ a = b
  <2>1. c >= d => u >= w
    <3>1. ASSUME c >= d
          PROVE  u >= w
      <4>1. p >= q
        BY <1>6, <3>1
      <4>2. a * p >= a * q
        BY <1>3, <1>6, <4>1, NatTimes
      <4>3. a * p \in Nat /\ a * q \in Nat /\ u = a * p + c /\ w = a * q + d
        BY <1>3, <1>6, <1>7, <1>13
      <4>4. QED
        BY <1>6, <3>1, <4>2, <4>3
    <3>2. QED
      BY <3>1
  <2>2. c < d => u < w
    <3>1. ASSUME c < d
          PROVE  u < w
      <4>1. q >= p
        BY <1>6, <3>1
      <4>2. a * q >= a * p
        BY <1>3, <1>6, <4>1, NatTimes
      <4>3. a * p \in Nat /\ a * q \in Nat /\ u = a * p + c /\ w = a * q + d
        BY <1>3, <1>6, <1>7, <1>13
      <4>4. QED
        BY <1>6, <3>1, <4>2, <4>3
    <3>2. QED
      BY <3>1
  <2>3. QED
    BY <1>1, <1>2, <1>3, <1>4, <1>6, <1>8, <1>9, <1>13, <2>1, <2>2
<1>14. QED
  BY <1>3, <1>4, <1>10, <1>11, <1>12, <1>13

\* ToolReq.check accepts exactly what is there and recent enough, where the
\* version is comparable with the minimum.
LEMMA CheckDecides ==
    ASSUME NEW t \in ToSet(ToolOrder), installed \in Installs, Comparable(t)
    PROVE  Check(t, installed[t]) <=> Recent(t)
<1>1. CASE ToolClass[t] # "vcs"
  BY <1>1 DEF Check, Recent
<1>2. CASE ToolClass[t] = "vcs"
  <2>1. PICK f, m : f = installed[t].version /\ m = MinVersion[t]
    OBVIOUS
  <2>2. f \in VcsVersion /\ m \in VcsVersion /\ DigitsFollowMonth(f, m)
    BY <1>2, <2>1, VcsAssumption DEF Comparable
  <2>3. Check(t, installed[t]) <=>
          installed[t].kind = "version" /\ ~Older(to_semver(f), to_semver(m))
    BY <1>2, <2>1 DEF Check
  <2>4. Recent(t) <=>
          /\ installed[t].kind = "version"
          /\ \/ f.year > m.year
             \/ f.year = m.year /\ f.month > m.month
             \/ f.year = m.year /\ f.month = m.month /\ comb(f) >= comb(m)
    BY <1>2, <2>1 DEF Recent
  <2>5. QED
    BY <2>2, <2>3, <2>4, SemverOrder
<1>3. QED
  BY <1>1, <1>2

-----------------------------------------------------------------------------
(* ToolRequirements: the loop of main                                       *)

\* The tools main has come to.
ToolsPassed == {ToolOrder[i] : i \in 1..(nth - 1)}

ToolInv ==
    /\ nth \in 1..(Len(ToolOrder) + 1) /\ installed \in Installs
    /\ outcome \in {"reading", "checking", "traceback", "exit 0", "exit 1"}
    /\ pending = named \ ToolsPassed
    /\ missing \subseteq {t \in ToSet(ToolOrder) : ~Check(t, installed[t]) /\ Needed(t)}
    /\ outcome = "reading" => nth = 1
    /\ outcome \in {"checking", "exit 0"} =>
          /\ reqs = [t \in ToSet(ToolOrder) |-> raw[t] = "dict_as_needed"]
          /\ \A t \in ToolsPassed : Needed(t) => t \in missing \/ Check(t, installed[t])
    /\ outcome = "exit 0" => missing = {} /\ pending = {} /\ nth = Len(ToolOrder) + 1
    /\ outcome = "exit 1" =>
          \/ \E t \in ToSet(ToolOrder) : raw[t] \notin ValidShapes
          \/ (missing # {} \/ pending # {}) /\ nth = Len(ToolOrder) + 1

\* The tools of the file, in the order of the file.
LEMMA OrderFacts ==
    /\ Len(ToolOrder) \in Nat /\ DOMAIN ToolOrder = 1..Len(ToolOrder)
    /\ ToSet(ToolOrder) = {ToolOrder[i] : i \in 1..Len(ToolOrder)}
<1>1. Len(ToolOrder) \in Nat /\ DOMAIN ToolOrder = 1..Len(ToolOrder)
  BY VcsAssumption
<1>2. QED
  BY <1>1 DEF ToSet

\* One tool: skipped, checked, or the end of it in a traceback.
LEMMA CheckNextStep ==
    ASSUME ToolInv, CheckNext
    PROVE  ToolInv'
<1> DEFINE t == ToolOrder[nth]
<1>1. /\ outcome = "checking" /\ nth \in 1..Len(ToolOrder) /\ nth' = nth + 1
      /\ raw' = raw /\ installed' = installed /\ named' = named /\ reqs' = reqs
  BY OrderFacts DEF CheckNext, ToolInv
<1>2. t \in ToSet(ToolOrder)
  BY <1>1, OrderFacts
<1>3. ToolsPassed' = ToolsPassed \cup {t}
  <2>1. 1..(nth' - 1) = 1..(nth - 1) \cup {nth}
    BY <1>1
  <2>2. QED
    BY <2>1 DEF ToolsPassed
<1>4. /\ pending = named \ ToolsPassed
      /\ missing \subseteq {u \in ToSet(ToolOrder) : ~Check(u, installed[u]) /\ Needed(u)}
      /\ reqs = [u \in ToSet(ToolOrder) |-> raw[u] = "dict_as_needed"]
      /\ \A u \in ToolsPassed : Needed(u) => u \in missing \/ Check(u, installed[u])
      /\ installed \in Installs
  BY <1>1 DEF ToolInv
<1>5. nth' \in 1..(Len(ToolOrder) + 1)
  BY <1>1, OrderFacts
<1>6. reqs[t] <=> raw[t] = "dict_as_needed"
  BY <1>2, <1>4
<1>7. \A u : Needed(u)' <=> Needed(u)
  BY <1>1 DEF Needed
<1> HIDE DEF t
<1>8. CASE Skipped(t)
  <2>1. pending' = pending /\ missing' = missing /\ outcome' = outcome
    BY <1>8 DEF CheckNext, t
  <2>2. raw[t] = "dict_as_needed" /\ t \notin pending
    BY <1>6, <1>8 DEF Skipped
  <2>3. pending' = named' \ ToolsPassed'
    BY <1>1, <1>3, <1>4, <2>1, <2>2
  <2>4. \A u \in ToolsPassed' : Needed(u) => u \in missing \/ Check(u, installed[u])
    BY <1>3, <1>4, <2>2 DEF Needed
  <2>5. QED
    BY <1>1, <1>4, <1>5, <1>7, <2>1, <2>3, <2>4 DEF ToolInv, Check
<1>9. CASE ~Skipped(t)
  <2>1. /\ pending' = pending \ {t}
        /\ \/ Crashes(t, installed[t]) /\ outcome' = "traceback" /\ missing' = missing
           \/ /\ outcome' = outcome
              /\ missing' = IF Check(t, installed[t]) THEN missing ELSE missing \cup {t}
    BY <1>9 DEF CheckNext, t
  <2>2. pending' = named' \ ToolsPassed'
    BY <1>1, <1>3, <1>4, <2>1
  <2>3. missing' \subseteq {u \in ToSet(ToolOrder) : ~Check(u, installed[u]) /\ Needed(u)}
    <3>1. Needed(t)
      BY <1>4, <1>6, <1>9 DEF Skipped, Needed
    <3>2. QED
      BY <1>2, <1>4, <2>1, <3>1
  <2>4. outcome' = "checking" =>
          \A u \in ToolsPassed' : Needed(u) => u \in missing' \/ Check(u, installed[u])
    BY <1>3, <1>4, <2>1
  <2>5. outcome' \in {"checking", "traceback"}
    BY <1>1, <2>1
  <2>6. QED
    BY <1>1, <1>4, <1>5, <1>7, <2>2, <2>3, <2>4, <2>5 DEF ToolInv, Check
<1>10. QED
  BY <1>8, <1>9

\* Every step of check_tool_requirements keeps ToolInv.
LEMMA ToolInvStep == ToolInv /\ [ToolNext]_toolVars => ToolInv'
<1> SUFFICES ASSUME ToolInv, [ToolNext]_toolVars
             PROVE  ToolInv'
  OBVIOUS
<1>1. CASE read_tool_requirements
  <2>1. /\ outcome = "reading" /\ raw' = raw /\ installed' = installed /\ named' = named
        /\ nth' = nth /\ pending' = pending /\ missing' = missing /\ nth = 1
    BY <1>1 DEF read_tool_requirements, ToolInv
  <2>2. \/ /\ outcome' = "checking"
           /\ reqs' = [t \in ToSet(ToolOrder) |-> raw[t] = "dict_as_needed"]
        \/ outcome' = "exit 1" /\ \E t \in ToSet(ToolOrder) : raw[t] \notin ValidShapes
    BY <1>1 DEF read_tool_requirements
  <2>3. ToolsPassed = {} /\ ToolsPassed' = {} /\ \A t : Needed(t)' <=> Needed(t)
    BY <2>1 DEF ToolsPassed, Needed
  <2>4. QED
    BY <2>1, <2>2, <2>3 DEF ToolInv, Check
<1>2. CASE CheckNext
  BY <1>2, CheckNextStep
<1>3. CASE Conclude
  <2>1. /\ outcome = "checking" /\ raw' = raw /\ installed' = installed /\ named' = named
        /\ nth' = nth /\ pending' = pending /\ missing' = missing /\ reqs' = reqs
        /\ nth > Len(ToolOrder)
    BY <1>3 DEF Conclude
  <2>2. nth = Len(ToolOrder) + 1
    BY <2>1, OrderFacts DEF ToolInv
  <2>3. \/ outcome' = "exit 0" /\ missing = {} /\ pending = {}
        \/ outcome' = "exit 1" /\ (missing # {} \/ pending # {})
    BY <1>3 DEF Conclude
  <2>4. ToolsPassed' = ToolsPassed /\ \A t : Needed(t)' <=> Needed(t)
    BY <2>1 DEF ToolsPassed, Needed
  <2>5. QED
    BY <2>1, <2>2, <2>3, <2>4 DEF ToolInv, Check
<1>4. CASE UNCHANGED toolVars
  <2>1. ToolsPassed' = ToolsPassed /\ \A t : Needed(t)' <=> Needed(t)
    BY <1>4 DEF toolVars, ToolsPassed, Needed
  <2>2. QED
    BY <1>4, <2>1 DEF toolVars, ToolInv, Check
<1>5. QED
  BY <1>1, <1>2, <1>3, <1>4 DEF ToolNext

\* For every requirements file and whatever is installed: exit code 0 means that
\* all that is needed is there and recent enough, exit code 1 has a cause, and
\* every tool reported was needed and is absent or old.  Of a VCS of another
\* month than the minimum this is claimed only where it has as many digits
\* after the month as the order requires; RecentVcsAccepted is what fails.
THEOREM ToolCheckTruthful == ToolSpec => []CheckTruthful
<1>1. ToolInit => ToolInv
  <2> SUFFICES ASSUME ToolInit
               PROVE  ToolInv
    OBVIOUS
  <2>1. ToolsPassed = {}
    BY DEF ToolsPassed, ToolInit
  <2>2. 1 \in 1..(Len(ToolOrder) + 1)
    BY OrderFacts
  <2>3. QED
    BY <2>1, <2>2 DEF ToolInv, ToolInit
<1>2. ToolInv => CheckTruthful
  <2> SUFFICES ASSUME ToolInv
               PROVE  CheckTruthful
    OBVIOUS
  <2>1. nth = Len(ToolOrder) + 1 => ToolsPassed = ToSet(ToolOrder)
    BY OrderFacts DEF ToolsPassed
  <2>2. ASSUME outcome = "exit 0"
        PROVE  ToolsPresent
    <3>1. /\ missing = {} /\ pending = {} /\ pending = named \ ToSet(ToolOrder)
          /\ \A t \in ToSet(ToolOrder) : Needed(t) => Check(t, installed[t])
          /\ installed \in Installs
      BY <2>1, <2>2 DEF ToolInv
    <3>2. QED
      BY <3>1, CheckDecides DEF ToolsPresent
  <2>3. FailureExplained
    <3>1. outcome = "exit 1" =>
            \/ \E t \in ToSet(ToolOrder) : raw[t] \notin ValidShapes
            \/ named \ ToSet(ToolOrder) # {}
            \/ missing # {}
      BY <2>1 DEF ToolInv
    <3>2. /\ \A t \in missing : t \in ToSet(ToolOrder) /\ ~Check(t, installed[t]) /\ Needed(t)
          /\ installed \in Installs
      BY DEF ToolInv
    <3>3. \A t \in missing : Needed(t) /\ (Comparable(t) => ~Recent(t))
      BY <3>2, CheckDecides
    <3>4. QED
      BY <3>1, <3>3 DEF FailureExplained
  <2>4. QED
    BY <2>2, <2>3 DEF CheckTruthful, ToolsPresent
<1>3. QED
  BY <1>1, <1>2, ToolInvStep, PTL DEF ToolSpec

-----------------------------------------------------------------------------
(* IbexConfig: the commands                                                 *)

\* The placeholders in the texts of the options that are put in.
Inner(t) == UNION {t.opts[n] : n \in t.enabled \cap t.needs}

\* Substituting names by texts without placeholders.
LEMMA SubstPlain ==
    ASSUME NEW c, NEW names
    PROVE  /\ Subst(c, PlainTexts(names)).holes = c.holes \ names
           /\ Subst(c, PlainTexts(names)).texts = c.texts \cup (names \cap c.holes)
<1>1. DOMAIN PlainTexts(names) = names /\ \A n \in names : PlainTexts(names)[n] = {}
  BY DEF PlainTexts
<1>2. UNION {PlainTexts(names)[n] : n \in DOMAIN PlainTexts(names) \cap c.holes} = {}
  BY <1>1
<1>3. QED
  BY <1>1, <1>2 DEF Subst

\* What get_tool_cmds makes of an entry.
LEMMA ToolCmds ==
    ASSUME NEW t \in CmdTemplates
    PROVE  LET left == ((t.needs \ t.enabled) \cup Inner(t)) \ DOMAIN t.opts
           IN  /\ GetToolCmds(t).ok <=> t.env \subseteq t.set /\ (left \ t.given) \ t.env = {}
               /\ (t.enabled \cap t.needs) \cup (t.given \cap left) \subseteq GetToolCmds(t).texts
<1> DEFINE left == ((t.needs \ t.enabled) \cup Inner(t)) \ DOMAIN t.opts
           c1 == Subst(Template(t), Enabled(t))
           c2 == [c1 EXCEPT !.holes = @ \ DOMAIN t.opts]
           c3 == Subst(c2, PlainTexts(t.given))
           c4 == Subst(c3, PlainTexts(t.env))
<1>1. /\ c1.holes = (t.needs \ t.enabled) \cup Inner(t)
      /\ c1.texts = t.enabled \cap t.needs
  <2>1. DOMAIN Enabled(t) = t.enabled /\ \A n \in t.enabled : Enabled(t)[n] = t.opts[n]
    BY DEF Enabled
  <2>2. Template(t).holes = t.needs /\ Template(t).texts = {}
    BY DEF Template
  <2>3. UNION {Enabled(t)[n] : n \in DOMAIN Enabled(t) \cap t.needs} = Inner(t)
    BY <2>1 DEF Inner
  <2>4. QED
    BY <2>1, <2>2, <2>3 DEF Subst
<1>2. c2.holes = left /\ c2.texts = t.enabled \cap t.needs
  <2>1. c2.holes = c1.holes \ DOMAIN t.opts /\ c2.texts = c1.texts
    BY DEF Subst
  <2>2. QED
    BY <2>1, <1>1
<1> HIDE DEF c1, c2, left
<1>3. /\ c3.holes = left \ t.given
      /\ c3.texts = (t.enabled \cap t.needs) \cup (t.given \cap left)
  BY <1>2, SubstPlain
<1> HIDE DEF c3
<1>4. /\ c4.holes = (left \ t.given) \ t.env
      /\ (t.enabled \cap t.needs) \cup (t.given \cap left) \subseteq c4.texts
  BY <1>3, SubstPlain
<1> HIDE DEF c4
<1>5. GetToolCmds(t) = Result(t, c4)
  BY DEF GetToolCmds, c1, c2, c3, c4
<1>6. /\ Result(t, c4).ok = (t.env \subseteq t.set /\ c4.holes = {})
      /\ Result(t, c4).texts = c4.texts
  BY DEF Result
<1>7. PICK r : r = GetToolCmds(t)
  OBVIOUS
<1>8. /\ r.ok = (t.env \subseteq t.set /\ (left \ t.given) \ t.env = {})
      /\ (t.enabled \cap t.needs) \cup (t.given \cap left) \subseteq r.texts
  BY <1>4, <1>5, <1>6, <1>7
<1>9. QED
  BY <1>7, <1>8 DEF left

\* Every command get_tool_cmds returns is complete.
LEMMA CommandComplete ==
    ASSUME NEW t \in CmdTemplates
    PROVE  LET sources == DOMAIN t.opts \cup t.given \cup t.env
           IN  /\ GetToolCmds(t).ok <=>
                    t.needs \cup Inner(t) \subseteq sources /\ t.env \subseteq t.set
               /\ GetToolCmds(t).ok => (t.needs \cup Inner(t)) \cap (t.enabled \cup t.given)
                                          \subseteq GetToolCmds(t).texts
<1> DEFINE left == ((t.needs \ t.enabled) \cup Inner(t)) \ DOMAIN t.opts
<1>1. /\ t.enabled \subseteq DOMAIN t.opts /\ DOMAIN t.opts \cap t.given = {}
      /\ \A n \in DOMAIN t.opts : t.opts[n] \cap DOMAIN t.opts = {}
  BY CmdTemplateAssumption
<1>2. Inner(t) \cap DOMAIN t.opts = {}
  BY <1>1 DEF Inner
<1>3. (left \ t.given) \ t.env = {} <=>
        t.needs \cup Inner(t) \subseteq DOMAIN t.opts \cup t.given \cup t.env
  BY <1>1
<1>4. (t.needs \cup Inner(t)) \cap (t.enabled \cup t.given)
        \subseteq (t.enabled \cap t.needs) \cup (t.given \cap left)
  BY <1>1, <1>2
<1>5. QED
  BY <1>3, <1>4, ToolCmds

\* For every entry of rtl_simulation.yaml, options and environment: a command is
\* refused only for lack of a source, and what is returned lacks no text.
THEOREM ToolCommandsComplete == CfgSpec => []CommandsComplete
<1> DEFINE I == phase = "done" => /\ cmd.template \in CmdTemplates
                                  /\ cmd.result = GetToolCmds(cmd.template)
<1>1. CfgInit => I
  BY DEF CfgInit
<1>2. I /\ [CfgNext]_cfgVars => I'
  <2> SUFFICES ASSUME I, [CfgNext]_cfgVars
               PROVE  I'
    OBVIOUS
  <2>1. CASE parse_config \/ get_compile_opts \/ get_sim_opts \/ get_isas_for_config
    <3>1. phase' # "done"
      BY <2>1 DEF parse_config, get_compile_opts, get_sim_opts, get_isas_for_config
    <3>2. QED
      BY <3>1
  <2>2. CASE get_tool_cmds
    <3>1. PICK t \in CmdTemplates : cmd' = [template |-> t, result |-> GetToolCmds(t)]
      BY <2>2 DEF get_tool_cmds
    <3>2. PICK r : r = GetToolCmds(t)
      OBVIOUS
    <3>3. cmd'.template = t /\ cmd'.result = r
      BY <3>1, <3>2
    <3>4. GetToolCmds(cmd'.template) = r
      BY <3>2, <3>3
    <3>5. QED
      BY <3>3, <3>4
  <2>3. CASE UNCHANGED cfgVars
    BY <2>3 DEF cfgVars
  <2>4. QED
    BY <2>1, <2>2, <2>3 DEF CfgNext
<1>3. I => CommandsComplete
  <2> SUFFICES ASSUME I, phase = "done"
               PROVE  CommandsComplete
    BY DEF CommandsComplete
  <2>1. PICK t \in CmdTemplates : t = cmd.template /\ cmd.result = GetToolCmds(t)
    OBVIOUS
  <2>2. PICK r : r = GetToolCmds(t)
    OBVIOUS
  <2>3. /\ r.ok <=> /\ t.needs \cup Inner(t) \subseteq DOMAIN t.opts \cup t.given \cup t.env
                    /\ t.env \subseteq t.set
        /\ r.ok => (t.needs \cup Inner(t)) \cap (t.enabled \cup t.given) \subseteq r.texts
    BY <2>2, CommandComplete
  <2>4. cmd.template = t /\ cmd.result = r
    BY <2>1, <2>2
  <2>5. QED
    BY <2>3, <2>4 DEF CommandsComplete, Inner
<1>4. QED
  BY <1>1, <1>2, <1>3, PTL DEF CfgSpec

-----------------------------------------------------------------------------
(* IbexConfig: the options of the two stages, and the ISAs                  *)

\* The simulators that get options in both stages.
TwoStages == {"riviera", "questa"}

\* The options of the fields that are given in one of the ways ws.
Given(ws) == {[fld |-> f, way |-> Way(f), val |-> config[f][2]] : f \in {g \in Fields : Way(g) \in ws}}

\* The fields these options set, and their values.
LEMMA GivenFields ==
    ASSUME NEW ws
    PROVE  /\ {o.fld : o \in Given(ws)} = {f \in Fields : Way(f) \in ws}
           /\ \A o \in Given(ws) : o.fld \in Fields /\ o.val = config[o.fld][2]
<1> DEFINE Opt(f) == [fld |-> f, way |-> Way(f), val |-> config[f][2]]
<1>1. \A f : Opt(f).fld = f /\ Opt(f).val = config[f][2]
  OBVIOUS
<1>2. Given(ws) = {Opt(f) : f \in {g \in Fields : Way(g) \in ws}}
  BY DEF Given
<1> HIDE DEF Opt
<1>3. ASSUME NEW o \in Given(ws)
      PROVE  o.fld \in Fields /\ Way(o.fld) \in ws /\ o.val = config[o.fld][2]
  <2>1. PICK f \in Fields : Way(f) \in ws /\ o = Opt(f)
    BY <1>2, Zenon
  <2>2. QED
    BY <2>1, <1>1
<1>4. ASSUME NEW f \in Fields, Way(f) \in ws
      PROVE  \E o \in Given(ws) : o.fld = f
  <2>1. Opt(f) \in Given(ws)
    BY <1>2, <1>4, Zenon
  <2>2. QED
    BY <2>1, <1>1
<1>5. QED
  BY <1>3, <1>4

\* The simulators, and which stages their options go to.
LEMMA SimCfgs ==
    /\ DOMAIN SIM_CFGS = {"vcs", "xlm", "dsim"} \cup TwoStages
    /\ \A sim \in DOMAIN SIM_CFGS :
          /\ sim \in TwoStages => SIM_CFGS[sim][1] = TRUE /\ SIM_CFGS[sim][2] = TRUE
          /\ sim \notin TwoStages => SIM_CFGS[sim][1] = TRUE /\ SIM_CFGS[sim][2] = FALSE
<1>1. PICK a, b : a = <<TRUE, TRUE>> /\ b = <<TRUE, FALSE>>
  OBVIOUS
<1>2. SIM_CFGS = [vcs |-> b, riviera |-> a, questa |-> a, xlm |-> b, dsim |-> b]
  BY <1>1, Zenon DEF SIM_CFGS
<1>3. /\ DOMAIN SIM_CFGS = {"vcs", "xlm", "dsim"} \cup TwoStages
      /\ \A sim \in DOMAIN SIM_CFGS : SIM_CFGS[sim] = IF sim \in TwoStages THEN a ELSE b
  BY <1>2 DEF TwoStages
<1>4. a[1] = TRUE /\ a[2] = TRUE /\ b[1] = TRUE /\ b[2] = FALSE
  BY <1>1
<1>5. QED
  BY <1>3, <1>4, Zenon

\* The table of the outputters.
LEMMA OutputterSets ==
    /\ \A sim \in {"vcs", "xlm", "dsim"} : Outputters[<<sim, "both">>] = {"define", "parameter"}
    /\ \A sim \in TwoStages : /\ Outputters[<<sim, "compile">>] = {"define"}
                              /\ Outputters[<<sim, "sim">>] = {"parameter"}
<1>1. PICK D : D = {<<"vcs", "both">>, <<"xlm", "both">>, <<"dsim", "both">>,
                    <<"riviera", "compile">>, <<"riviera", "sim">>,
                    <<"questa", "compile">>, <<"questa", "sim">>}
  OBVIOUS
<1>2. ASSUME NEW sim \in {"vcs", "xlm", "dsim", "riviera", "questa"},
             NEW st \in {"both", "compile", "sim"}, <<sim, st>> \in D
      PROVE  Outputters[<<sim, st>>] = CASE st = "both" -> {"define", "parameter"}
                                         [] st = "compile" -> {"define"}
                                         [] st = "sim" -> {"parameter"}
  <2>1. <<sim, st>>[2] = st
    OBVIOUS
  <2>2. PICK o : o = <<sim, st>>
    OBVIOUS
  <2>3. o[2] = st /\ o \in D
    BY <2>1, <2>2, <1>2
  <2>4. Outputters[o] = CASE o[2] = "both" -> {"define", "parameter"}
                          [] o[2] = "compile" -> {"define"}
                          [] o[2] = "sim" -> {"parameter"}
    BY <2>3, <1>1 DEF Outputters
  <2>5. QED
    BY <2>2, <2>3, <2>4
<1>3. /\ \A sim \in {"vcs", "xlm", "dsim"} : <<sim, "both">> \in D
      /\ \A sim \in TwoStages : <<sim, "compile">> \in D /\ <<sim, "sim">> \in D
  BY <1>1 DEF TwoStages
<1>4. ASSUME NEW sim \in {"vcs", "xlm", "dsim"}
      PROVE  Outputters[<<sim, "both">>] = {"define", "parameter"}
  BY <1>2, <1>3
<1>5. ASSUME NEW sim \in TwoStages
      PROVE  Outputters[<<sim, "compile">>] = {"define"} /\ Outputters[<<sim, "sim">>] = {"parameter"}
  <2>1. sim \in {"vcs", "xlm", "dsim", "riviera", "questa"}
    BY DEF TwoStages
  <2>2. QED
    BY <2>1, <1>2, <1>3
<1>6. QED
  BY <1>4, <1>5

\* _get_x_opts, by simulator and stage.
LEMMA XOpts ==
    ASSUME NEW sim \in DOMAIN SIM_CFGS
    PROVE  /\ _get_x_opts(sim, "compile") =
                Given(IF sim \in TwoStages THEN {"define"} ELSE {"define", "parameter"})
           /\ _get_x_opts(sim, "sim") = IF sim \in TwoStages THEN Given({"parameter"}) ELSE {}
<1>1. CASE sim \in TwoStages
  <2>1. SIM_CFGS[sim][1] = TRUE /\ SIM_CFGS[sim][2] = TRUE
    BY <1>1, SimCfgs, Zenon
  <2>2. /\ _get_x_opts(sim, "compile") = Output(<<sim, "compile">>)
        /\ _get_x_opts(sim, "sim") = Output(<<sim, "sim">>)
    BY <2>1 DEF _get_x_opts
  <2>3. /\ Output(<<sim, "compile">>) = Given({"define"})
        /\ Output(<<sim, "sim">>) = Given({"parameter"})
    BY <1>1, OutputterSets DEF Output, Given
  <2>4. QED
    BY <1>1, <2>2, <2>3
<1>2. CASE sim \notin TwoStages
  <2>1. SIM_CFGS[sim][1] = TRUE /\ SIM_CFGS[sim][2] = FALSE /\ sim \in {"vcs", "xlm", "dsim"}
    BY <1>2, SimCfgs, Zenon
  <2>2. /\ _get_x_opts(sim, "compile") = Output(<<sim, "both">>)
        /\ _get_x_opts(sim, "sim") = {}
    BY <2>1 DEF _get_x_opts
  <2>3. Output(<<sim, "both">>) = Given({"define", "parameter"})
    BY <2>1, OutputterSets DEF Output, Given
  <2>4. QED
    BY <1>2, <2>2, <2>3
<1>3. QED
  BY <1>1, <1>2

\* The configuration as it was read, and what the stages have made of it.
CfgRead ==
    phase \in {"compile", "sim", "isa", "cmd", "done"} =>
        \A f \in Fields : KnownFields[f] = "bool" => config[f][2] \in 0..1
CompileGiven ==
    phase \in {"sim", "isa", "cmd", "done"} =>
        simulator \in DOMAIN SIM_CFGS /\ compile_opts = _get_x_opts(simulator, "compile")
SimGiven == phase \in {"isa", "cmd", "done"} => sim_opts = _get_x_opts(simulator, "sim")
IsaGiven ==
    phase \in {"cmd", "done"} =>
        ("b" \in isa.toolchain <=> \E x \in isa.iss : x \notin {"i", "e", "m", "c"})
CfgInv == yml \in YmlFiles /\ CfgRead /\ CompileGiven /\ SimGiven /\ IsaGiven

\* A configuration that parse_config accepts has a bit where a bit is asked for.
LEMMA BoolsRead ==
    ASSUME NEW y \in YmlFiles, NEW c \in DOMAIN y, ConfigOk(y[c]),
           NEW f \in Fields, KnownFields[f] = "bool"
    PROVE  y[c][f][2] \in 0..1
<1>1. f \in DOMAIN y[c] /\ read_bool(y[c][f])
  BY DEF ConfigOk, ValueOk
<1>2. PICK v : v = y[c][f]
  OBVIOUS
<1>3. v \in YamlValue /\ read_bool(v)
  BY <1>1, <1>2, IbexConfigAssumption
<1>4. v[1] = "bool" => v[2] \in 0..1
  BY <1>3 DEF YamlValue
<1>5. QED
  BY <1>2, <1>3, <1>4 DEF read_bool

\* The settings of RV32B: each adds to the one before, and to the base ISA.
LEMMA BitmanipGrows ==
    /\ \A i, j \in 1..3 : i <= j => Bitmanip[i] \subseteq Bitmanip[j]
    /\ \A i \in 1..3 : "Zba" \in Bitmanip[i]
<1>1. PICK a, b, c : /\ a = {"Zba", "Zbb", "Zbs", "XZbf", "XZbt"}
                     /\ b = {"Zba", "Zbb", "Zbc", "Zbs", "XZbf", "XZbp", "XZbr", "XZbt"}
                     /\ c = {"Zba", "Zbb", "Zbc", "Zbs", "XZbe", "XZbf", "XZbp", "XZbr", "XZbt"}
  OBVIOUS
<1>2. Bitmanip = <<a, b, c>>
  BY <1>1, Zenon DEF Bitmanip
<1>3. Bitmanip[1] = a /\ Bitmanip[2] = b /\ Bitmanip[3] = c
  BY <1>2
<1>4. a \subseteq b /\ b \subseteq c /\ a \subseteq c /\ "Zba" \in a
  BY <1>1
<1>5. QED
  BY <1>3, <1>4

\* get_isas_for_config gives the compiler "b" with the ISS's first extension.
LEMMA IsasStep ==
    ASSUME get_isas_for_config
    PROVE  IsaGiven'
<1>1. PICK b, base :
        /\ base \subseteq {"i", "e", "m", "c"}
        /\ \/ /\ b \in 0..3
              /\ isa' = [toolchain |-> base \cup ToolchainExt(b),
                         iss |-> base \cup (IF b # 0 THEN Bitmanip[b] ELSE {})]
           \/ phase' = "error"
  <2>1. PICK b : b = config["RV32B"][2]
    OBVIOUS
  <2>2. PICK base : base = {IF config["RV32E"][2] = 1 THEN "e" ELSE "i", "c"}
                             \cup (IF config["RV32M"][2] # 0 THEN {"m"} ELSE {})
    OBVIOUS
  <2>3. base \subseteq {"i", "e", "m", "c"}
    BY <2>2
  <2>4. \/ /\ b \in 0..3
           /\ isa' = [toolchain |-> base \cup ToolchainExt(b),
                      iss |-> base \cup (IF b # 0 THEN Bitmanip[b] ELSE {})]
        \/ phase' = "error"
    BY <2>1, <2>2 DEF get_isas_for_config
  <2>5. QED
    BY <2>3, <2>4
<1>2. CASE phase' = "error"
  BY <1>2 DEF IsaGiven
<1>3. CASE phase' # "error"
  <2>1. PICK ext : ext = IF b # 0 THEN Bitmanip[b] ELSE {}
    OBVIOUS
  <2>2. isa'.toolchain = base \cup ToolchainExt(b) /\ isa'.iss = base \cup ext /\ b \in 0..3
    BY <1>1, <1>3, <2>1
  <2>3. "b" \notin base
    BY <1>1
  <2>4. CASE b = 0
    BY <2>1, <2>2, <2>3, <2>4, <1>1 DEF IsaGiven, ToolchainExt
  <2>5. CASE b # 0
    <3>1. "Zba" \in ext
      BY <2>1, <2>2, <2>5, BitmanipGrows
    <3>2. "b" \in isa'.toolchain /\ "Zba" \in isa'.iss
      BY <2>2, <2>5, <3>1 DEF ToolchainExt
    <3>3. QED
      BY <3>2 DEF IsaGiven
  <2>6. QED
    BY <2>4, <2>5
<1>4. QED
  BY <1>2, <1>3

\* Every step keeps CfgInv.
LEMMA CfgInvStep == CfgInv /\ [CfgNext]_cfgVars => CfgInv'
<1> SUFFICES ASSUME CfgInv, [CfgNext]_cfgVars
             PROVE  CfgInv'
  OBVIOUS
<1>1. config' = config => \A sim, st : _get_x_opts(sim, st)' = _get_x_opts(sim, st)
  BY Zenon DEF _get_x_opts, Output
<1>2. CASE parse_config
  <2>1. yml' = yml /\ phase' \in {"compile", "error"}
    BY <1>2 DEF parse_config
  <2>2. CfgRead'
    <3>1. CASE phase' = "error"
      BY <3>1 DEF CfgRead
    <3>2. CASE phase' # "error"
      <4>1. /\ config' = yml[ConfigName] /\ ConfigName \in DOMAIN yml
            /\ ConfigOk(yml[ConfigName]) /\ yml \in YmlFiles
        BY <1>2, <3>2 DEF parse_config, CfgInv
      <4>2. QED
        BY <4>1, BoolsRead DEF CfgRead
    <3>3. QED
      BY <3>1, <3>2
  <2>3. QED
    BY <2>1, <2>2 DEF CfgInv, CompileGiven, SimGiven, IsaGiven
<1>3. CASE get_compile_opts
  <2>1. /\ phase = "compile" /\ phase' = "sim" /\ config' = config /\ yml' = yml
        /\ simulator' \in DOMAIN SIM_CFGS
        /\ compile_opts' = _get_x_opts(simulator', "compile")
    BY <1>3 DEF get_compile_opts
  <2>2. CompileGiven'
    BY <1>1, <2>1 DEF CompileGiven
  <2>3. QED
    BY <2>1, <2>2 DEF CfgInv, CfgRead, SimGiven, IsaGiven
<1>4. CASE get_sim_opts
  <2>1. /\ phase = "sim" /\ phase' = "isa" /\ config' = config /\ yml' = yml
        /\ simulator' = simulator /\ compile_opts' = compile_opts
        /\ sim_opts' = _get_x_opts(simulator', "sim")
    BY <1>4 DEF get_sim_opts
  <2>2. CompileGiven' /\ SimGiven'
    BY <1>1, <2>1 DEF CompileGiven, SimGiven, CfgInv
  <2>3. QED
    BY <2>1, <2>2 DEF CfgInv, CfgRead, IsaGiven
<1>5. CASE get_isas_for_config
  <2>1. /\ phase = "isa" /\ phase' \in {"cmd", "error"} /\ config' = config /\ yml' = yml
        /\ simulator' = simulator /\ compile_opts' = compile_opts /\ sim_opts' = sim_opts
    BY <1>5 DEF get_isas_for_config
  <2>2. CompileGiven' /\ SimGiven'
    BY <1>1, <2>1 DEF CompileGiven, SimGiven, CfgInv
  <2>3. QED
    BY <1>5, <2>1, <2>2, IsasStep DEF CfgInv, CfgRead
<1>6. CASE get_tool_cmds
  <2>1. /\ phase = "cmd" /\ phase' = "done" /\ config' = config /\ yml' = yml
        /\ simulator' = simulator /\ compile_opts' = compile_opts /\ sim_opts' = sim_opts
        /\ isa' = isa
    BY <1>6 DEF get_tool_cmds
  <2>2. CompileGiven' /\ SimGiven'
    BY <1>1, <2>1 DEF CompileGiven, SimGiven, CfgInv
  <2>3. QED
    BY <2>1, <2>2 DEF CfgInv, CfgRead, IsaGiven
<1>7. CASE UNCHANGED cfgVars
  <2>1. CompileGiven' /\ SimGiven'
    BY <1>1, <1>7 DEF cfgVars, CompileGiven, SimGiven, CfgInv
  <2>2. QED
    BY <1>7, <2>1 DEF cfgVars, CfgInv, CfgRead, IsaGiven
<1>8. QED
  BY <1>2, <1>3, <1>4, <1>5, <1>6, <1>7 DEF CfgNext

\* For every set of fields and every configuration file: whatever the simulator,
\* its stages set each field once, and compiler and ISS agree on the extensions.
THEOREM ConfigAlwaysReachesTools == CfgSpec => []ConfigReachesTools
<1>1. CfgInit => CfgInv
  BY DEF CfgInit, CfgInv, CfgRead, CompileGiven, SimGiven, IsaGiven
<1>2. CfgInv => ConfigReachesTools
  <2> SUFFICES ASSUME CfgInv
               PROVE  ConfigReachesTools
    OBVIOUS
  <2>1. IsasAgree
    BY BitmanipGrows DEF IsasAgree, CfgInv, IsaGiven
  <2>2. ASSUME phase \in {"isa", "cmd", "done"}
        PROVE  EveryFieldSetOnce
    <3>1. /\ simulator \in DOMAIN SIM_CFGS
          /\ compile_opts = _get_x_opts(simulator, "compile")
          /\ sim_opts = _get_x_opts(simulator, "sim")
      BY <2>2 DEF CfgInv, CompileGiven, SimGiven
    <3>2. \A f \in Fields : Way(f) \in {"define", "parameter"}
      BY DEF Way
    <3>3. \A f \in Fields : KnownFields[f] = "bool" => config[f][2] \in 0..1
      BY <2>2 DEF CfgInv, CfgRead
    <3>4. \A ws : /\ {o.fld : o \in Given(ws)} = {f \in Fields : Way(f) \in ws}
                  /\ \A o \in Given(ws) : o.fld \in Fields /\ o.val = config[o.fld][2]
      BY GivenFields
    <3>5. CASE simulator \in TwoStages
      <4>1. compile_opts = Given({"define"}) /\ sim_opts = Given({"parameter"})
        BY <3>1, <3>5, XOpts
      <4>2. /\ {o.fld : o \in compile_opts} = {f \in Fields : Way(f) = "define"}
            /\ {o.fld : o \in sim_opts} = {f \in Fields : Way(f) = "parameter"}
        BY <3>4, <4>1
      <4>3. \A o \in compile_opts \cup sim_opts : o.fld \in Fields /\ o.val = config[o.fld][2]
        BY <3>4, <4>1
      <4>4. {o.fld : o \in compile_opts \cup sim_opts} =
              {o.fld : o \in compile_opts} \cup {o.fld : o \in sim_opts}
        OBVIOUS
      <4>5. QED
        BY <3>2, <3>3, <4>2, <4>3, <4>4 DEF EveryFieldSetOnce
    <3>6. CASE simulator \notin TwoStages
      <4>1. compile_opts = Given({"define", "parameter"}) /\ sim_opts = {}
        BY <3>1, <3>6, XOpts
      <4>2. {o.fld : o \in compile_opts} = Fields
        BY <3>2, <3>4, <4>1
      <4>3. \A o \in compile_opts : o.fld \in Fields /\ o.val = config[o.fld][2]
        BY <3>4, <4>1
      <4>4. compile_opts \cup sim_opts = compile_opts /\ {o.fld : o \in sim_opts} = {}
        BY <4>1
      <4>5. QED
        BY <3>3, <4>2, <4>3, <4>4 DEF EveryFieldSetOnce
    <3>7. QED
      BY <3>5, <3>6
  <2>3. QED
    BY <2>1, <2>2 DEF ConfigReachesTools, EveryFieldSetOnce
<1>3. QED
  BY <1>1, <1>2, CfgInvStep, PTL DEF CfgSpec

-----------------------------------------------------------------------------
(* Sv2vInPlace                                                              *)

ListsTyped ==
    /\ paths \in FileLists /\ next \in Nat \ {0}
    /\ sv_paths \in Seq(Sv) /\ svh_paths \in Seq(Svh) /\ pkg_paths \in Seq(Pkg)
ContentTyped == content = [p \in Sv \cup Svh |-> content[p]]

\* The lists hold the paths main has come to.
ListsSplit ==
    /\ stage = "reading" => next = 1 /\ sv_paths = <<>> /\ svh_paths = <<>>
    /\ stage = "split" =>
          /\ next <= Len(paths) + 1
          /\ ToSet(sv_paths) = Sv \cap FirstOf(paths, next - 1)
          /\ ToSet(svh_paths) = Svh \cap FirstOf(paths, next - 1)
    /\ stage \in {"transform", "copy", "splat", "exit 0"} =>
          ToSet(sv_paths) = Sv \cap ToSet(paths) /\ ToSet(svh_paths) = Svh \cap ToSet(paths)

\* No file changes before all are converted.
Converting ==
    /\ stage \in {"reading", "split", "transform", "exit 1"} =>
          \A p \in Sv \cup Svh : content[p] = "original"
    /\ stage \in {"reading", "split"} => tmp = <<>>
    /\ stage = "transform" => next <= Len(sv_paths) + 1 /\ Len(tmp) = next - 1
    /\ stage = "copy" => Len(tmp) = Len(sv_paths)
    /\ tmp \in Seq({"verilog"})

\* The loops that write come to one file after the other.
Writing ==
    /\ stage = "copy" =>
          /\ next <= Len(sv_paths) + 1
          /\ \A p \in Sv \cup Svh :
                content[p] = IF p \in FirstOf(sv_paths, next - 1) THEN "verilog" ELSE "original"
    /\ stage \in {"splat", "exit 0"} =>
          /\ next <= Len(svh_paths) + 1
          /\ stage = "exit 0" => next = Len(svh_paths) + 1
          /\ \A p \in Sv \cup Svh :
                content[p] = IF p \in ToSet(sv_paths) THEN "verilog"
                             ELSE IF p \in FirstOf(svh_paths, next - 1) THEN "empty"
                             ELSE "original"

Sv2vInv ==
    /\ stage \in {"reading", "split", "transform", "copy", "splat", "exit 0", "exit 1", "raised"}
    /\ ListsTyped /\ ContentTyped /\ ListsSplit /\ Converting /\ Writing /\ StoppedInOrder

\* What has been come to, one member later and at the end.
LEMMA FirstOfFacts ==
    ASSUME NEW S, NEW s \in Seq(S)
    PROVE  /\ Len(s) \in Nat /\ FirstOf(s, Len(s)) = ToSet(s) /\ FirstOf(s, 0) = {}
           /\ ToSet(s) \subseteq S
           /\ \A k \in 1..Len(s) : /\ FirstOf(s, k) = FirstOf(s, k - 1) \cup {s[k]}
                                   /\ s[k] \in S
           /\ \A e \in S : Append(s, e) \in Seq(S) /\ ToSet(Append(s, e)) = ToSet(s) \cup {e}
<1>1. Len(s) \in Nat /\ DOMAIN s = 1..Len(s) /\ \A k \in 1..Len(s) : s[k] \in S
  OBVIOUS
<1>2. ToSet(s) = {s[i] : i \in 1..Len(s)}
  BY <1>1 DEF ToSet
<1>3. FirstOf(s, Len(s)) = ToSet(s) /\ FirstOf(s, 0) = {} /\ ToSet(s) \subseteq S
  BY <1>1, <1>2 DEF FirstOf
<1>4. ASSUME NEW k \in 1..Len(s)
      PROVE  FirstOf(s, k) = FirstOf(s, k - 1) \cup {s[k]}
  <2>1. 1..k = 1..(k - 1) \cup {k}
    BY <1>1
  <2>2. QED
    BY <2>1 DEF FirstOf
<1>5. ASSUME NEW e \in S
      PROVE  Append(s, e) \in Seq(S) /\ ToSet(Append(s, e)) = ToSet(s) \cup {e}
  <2>1. PICK n, t : n = Len(s) /\ t = Append(s, e)
    OBVIOUS
  <2>2. /\ t \in Seq(S) /\ DOMAIN t = 1..(n + 1) /\ n \in Nat /\ t[n + 1] = e
        /\ \A i \in 1..n : t[i] = s[i]
    BY <2>1
  <2>3. 1..(n + 1) = 1..n \cup {n + 1}
    BY <2>2
  <2>4. ToSet(t) = {t[i] : i \in 1..n \cup {n + 1}}
    BY <2>2, <2>3 DEF ToSet
  <2>5. {t[i] : i \in 1..n \cup {n + 1}} = {s[i] : i \in 1..n} \cup {e}
    BY <2>2
  <2>6. QED
    BY <2>1, <2>2, <2>4, <2>5, <1>2
<1>6. QED
  BY <1>1, <1>3, <1>4, <1>5

\* The lists are lists, and the index counts from 1.
LEMMA ListLengths ==
    ASSUME Sv2vInv
    PROVE  /\ paths \in Seq(ToSet(paths)) /\ sv_paths \in Seq(Sv)
           /\ svh_paths \in Seq(Svh) /\ pkg_paths \in Seq(Pkg)
           /\ Len(paths) \in Nat /\ Len(sv_paths) \in Nat /\ Len(svh_paths) \in Nat
           /\ next \in Nat /\ next >= 1
<1>1. ListsTyped
  BY DEF Sv2vInv
<1>2. /\ paths \in Seq(ToSet(paths)) /\ sv_paths \in Seq(Sv)
      /\ svh_paths \in Seq(Svh) /\ pkg_paths \in Seq(Pkg)
  BY <1>1, Sv2vAssumption DEF ListsTyped
<1>3. next \in Nat /\ next >= 1
  BY <1>1 DEF ListsTyped
<1>4. Len(paths) \in Nat /\ Len(sv_paths) \in Nat /\ Len(svh_paths) \in Nat
  BY <1>2
<1>5. QED
  BY <1>2, <1>3, <1>4

\* main comes to one path of the list.
LEMMA SplitStep ==
    ASSUME Sv2vInv, SplitPath
    PROVE  Sv2vInv'
<1> DEFINE p == paths[next]
<1>1. /\ stage = "split" /\ next \in 1..Len(paths) /\ next' = next + 1
      /\ paths' = paths /\ content' = content /\ tmp' = tmp /\ stage' = stage
      /\ sv_paths' = IF p \in Sv THEN Append(sv_paths, p) ELSE sv_paths
      /\ svh_paths' = IF p \in Svh THEN Append(svh_paths, p) ELSE svh_paths
      /\ pkg_paths' = IF p \in Pkg THEN Append(pkg_paths, p) ELSE pkg_paths
  <2>1. Len(paths) \in Nat /\ next \in Nat /\ next >= 1
    BY ListLengths
  <2>2. QED
    BY <2>1 DEF SplitPath, CurrentPath
<1>2. /\ paths \in Seq(ToSet(paths)) /\ sv_paths \in Seq(Sv) /\ svh_paths \in Seq(Svh)
      /\ pkg_paths \in Seq(Pkg)
  BY ListLengths
<1>3. FirstOf(paths, next) = FirstOf(paths, next - 1) \cup {p} /\ Len(paths) \in Nat
  BY <1>1, <1>2, FirstOfFacts
<1> HIDE DEF p
<1>4. /\ sv_paths' \in Seq(Sv)
      /\ ToSet(sv_paths') = IF p \in Sv THEN ToSet(sv_paths) \cup {p} ELSE ToSet(sv_paths)
  <2>1. CASE p \in Sv
    BY <2>1, <1>1, <1>2, FirstOfFacts
  <2>2. CASE p \notin Sv
    BY <2>2, <1>1, <1>2
  <2>3. QED
    BY <2>1, <2>2
<1>5. /\ svh_paths' \in Seq(Svh)
      /\ ToSet(svh_paths') = IF p \in Svh THEN ToSet(svh_paths) \cup {p} ELSE ToSet(svh_paths)
  <2>1. CASE p \in Svh
    BY <2>1, <1>1, <1>2, FirstOfFacts
  <2>2. CASE p \notin Svh
    BY <2>2, <1>1, <1>2
  <2>3. QED
    BY <2>1, <2>2
<1>6. pkg_paths' \in Seq(Pkg)
  BY <1>1, <1>2, FirstOfFacts
<1>7. ListsTyped' /\ ContentTyped'
  <2>1. next' \in Nat \ {0}
    BY <1>1
  <2>2. paths' \in FileLists /\ ContentTyped'
    BY <1>1 DEF Sv2vInv, ListsTyped, ContentTyped
  <2>3. QED
    BY <1>4, <1>5, <1>6, <2>1, <2>2 DEF ListsTyped
<1>8. ListsSplit'
  <2>1. next' - 1 = next /\ next' <= Len(paths') + 1
    BY <1>1, <1>3
  <2>2. /\ ToSet(sv_paths) = Sv \cap FirstOf(paths, next - 1)
        /\ ToSet(svh_paths) = Svh \cap FirstOf(paths, next - 1)
    BY <1>1 DEF Sv2vInv, ListsSplit
  <2>3. /\ ToSet(sv_paths') = Sv \cap FirstOf(paths, next)
        /\ ToSet(svh_paths') = Svh \cap FirstOf(paths, next)
    BY <1>3, <1>4, <1>5, <2>2
  <2>4. FirstOf(paths, next - 1)' = FirstOf(paths, next)
    BY <1>1, <2>1 DEF FirstOf
  <2>5. QED
    BY <1>1, <2>1, <2>3, <2>4 DEF ListsSplit
<1>9. Converting' /\ Writing'
  BY <1>1 DEF Sv2vInv, Converting, Writing
<1>10. QED
  BY <1>1, <1>7, <1>8, <1>9 DEF Sv2vInv, StoppedInOrder

\* As long as no file has changed, sv2v gets what it should.
LEMMA ConvertedWell ==
    ASSUME Sv2vInv, stage = "transform", next \in 1..Len(sv_paths)
    PROVE  Converted(CurrentPath(sv_paths)) = "verilog"
<1>1. /\ sv_paths[next] \in Sv /\ ToSet(pkg_paths) \subseteq Pkg /\ ToSet(svh_paths) \subseteq Svh
  BY ListLengths, FirstOfFacts
<1>2. \A q \in Sv \cup Svh : content[q] = "original"
  BY DEF Sv2vInv, Converting
<1>3. QED
  BY <1>1, <1>2, Sv2vAssumption DEF Converted, CurrentPath

\* transform converts one file, or fails.
LEMMA TransformStep ==
    ASSUME Sv2vInv, transform_one
    PROVE  Sv2vInv'
<1>1. /\ stage = "transform" /\ next \in 1..Len(sv_paths) /\ Len(sv_paths) \in Nat
      /\ paths' = paths /\ sv_paths' = sv_paths /\ svh_paths' = svh_paths
      /\ pkg_paths' = pkg_paths /\ content' = content
  <2>1. Len(sv_paths) \in Nat /\ next \in Nat /\ next >= 1
    BY ListLengths
  <2>2. stage = "transform" /\ next <= Len(sv_paths)
    BY DEF transform_one
  <2>3. next \in 1..Len(sv_paths)
    BY <2>1, <2>2
  <2>4. /\ paths' = paths /\ sv_paths' = sv_paths /\ svh_paths' = svh_paths
        /\ pkg_paths' = pkg_paths /\ content' = content
    BY Zenon DEF transform_one, sv2vLists
  <2>5. QED
    BY <2>1, <2>2, <2>3, <2>4
<1>2. \/ tmp' = Append(tmp, "verilog") /\ next' = next + 1 /\ stage' = stage
      \/ stage' = "exit 1" /\ tmp' = tmp /\ next' = next
  BY <1>1, ConvertedWell DEF transform_one
<1>3. tmp \in Seq({"verilog"}) /\ Len(tmp) = next - 1
  BY <1>1 DEF Sv2vInv, Converting
<1>4. /\ tmp' \in Seq({"verilog"})
      /\ stage' = "transform" => next' <= Len(sv_paths) + 1 /\ Len(tmp') = next' - 1
  <2>1. PICK S : S = {"verilog"}
    OBVIOUS
  <2>2. tmp \in Seq(S) /\ "verilog" \in S
    BY <1>3, <2>1
  <2>3. Append(tmp, "verilog") \in Seq(S) /\ Len(Append(tmp, "verilog")) = Len(tmp) + 1
    BY <2>2
  <2>4. CASE stage' = "exit 1"
    BY <2>4, <1>1, <1>2, <1>3, <2>1, <2>3
  <2>5. CASE tmp' = Append(tmp, "verilog") /\ next' = next + 1
    <3>1. Len(tmp') = Len(tmp) + 1 /\ tmp' \in Seq({"verilog"})
      BY <2>1, <2>3, <2>5
    <3>2. next' <= Len(sv_paths) + 1 /\ next' - 1 = (next - 1) + 1
      BY <1>1, <2>5
    <3>3. QED
      BY <1>3, <3>1, <3>2
  <2>6. QED
    BY <1>2, <2>4, <2>5
<1>5. ListsTyped' /\ ContentTyped'
  <2>1. next' \in {next, next + 1} /\ next \in Nat /\ next >= 1
    BY <1>2, ListLengths
  <2>2. next' \in Nat \ {0}
    BY <2>1
  <2>3. QED
    BY <1>1, <2>2 DEF Sv2vInv, ListsTyped, ContentTyped
<1>6. stage' \in {"transform", "exit 1"}
  BY <1>1, <1>2
<1>7. ListsSplit'
  BY <1>1, <1>6 DEF ListsSplit, Sv2vInv
<1>8. Converting'
  BY <1>1, <1>4, <1>6 DEF Converting, Sv2vInv
<1>9. Writing'
  BY <1>6 DEF Writing
<1>10. QED
  BY <1>5, <1>6, <1>7, <1>8, <1>9 DEF Sv2vInv, StoppedInOrder

\* transform copies one file back.
LEMMA CopyStep ==
    ASSUME Sv2vInv, CopyBack
    PROVE  Sv2vInv'
<1> DEFINE p == sv_paths[next]
<1>1. /\ stage = "copy" /\ next \in 1..Len(sv_paths) /\ Len(sv_paths) \in Nat
      /\ paths' = paths /\ sv_paths' = sv_paths /\ svh_paths' = svh_paths
      /\ pkg_paths' = pkg_paths /\ tmp' = tmp /\ stage' = stage /\ next' = next + 1
      /\ content' = [content EXCEPT ![p] = tmp[next]]
  <2>1. Len(sv_paths) \in Nat /\ next \in Nat /\ next >= 1
    BY ListLengths
  <2>2. QED
    BY <2>1 DEF CopyBack, CurrentPath, sv2vLists
<1>2. /\ p \in Sv /\ FirstOf(sv_paths, next) = FirstOf(sv_paths, next - 1) \cup {p}
  BY <1>1, ListLengths, FirstOfFacts
<1>3. tmp[next] = "verilog"
  BY <1>1 DEF Sv2vInv, Converting
<1> HIDE DEF p
<1>4. content = [q \in Sv \cup Svh |-> content[q]]
  BY DEF Sv2vInv, ContentTyped
<1>5. /\ content' = [q \in Sv \cup Svh |-> content'[q]]
      /\ \A q \in Sv \cup Svh : content'[q] = IF q = p THEN "verilog" ELSE content[q]
  BY <1>1, <1>3, <1>4
<1>6. ListsTyped' /\ ContentTyped' /\ ListsSplit'
  <2>1. next' \in Nat \ {0}
    BY <1>1
  <2>2. ListsTyped'
    BY <1>1, <2>1 DEF Sv2vInv, ListsTyped
  <2>3. QED
    BY <1>1, <1>5, <2>2 DEF Sv2vInv, ContentTyped, ListsSplit
<1>7. Converting'
  BY <1>1 DEF Converting, Sv2vInv
<1>8. Writing'
  <2>1. next' - 1 = next /\ next' <= Len(sv_paths') + 1
    BY <1>1
  <2>2. \A q \in Sv \cup Svh :
          content[q] = IF q \in FirstOf(sv_paths, next - 1) THEN "verilog" ELSE "original"
    BY <1>1 DEF Writing, Sv2vInv
  <2>3. FirstOf(sv_paths, next - 1)' = FirstOf(sv_paths, next)
    BY <1>1, <2>1 DEF FirstOf
  <2>4. \A q \in Sv \cup Svh :
          content'[q] = IF q \in FirstOf(sv_paths, next - 1)' THEN "verilog" ELSE "original"
    BY <1>2, <1>5, <2>2, <2>3
  <2>5. QED
    BY <1>1, <2>1, <2>4 DEF Writing
<1>9. QED
  BY <1>1, <1>6, <1>7, <1>8 DEF Sv2vInv, StoppedInOrder

\* main empties one header.
LEMMA SplatStep ==
    ASSUME Sv2vInv, SplatHeader
    PROVE  Sv2vInv'
<1> DEFINE p == svh_paths[next]
<1>1. /\ stage = "splat" /\ next \in 1..Len(svh_paths) /\ Len(svh_paths) \in Nat
      /\ paths' = paths /\ sv_paths' = sv_paths /\ svh_paths' = svh_paths
      /\ pkg_paths' = pkg_paths /\ tmp' = tmp /\ stage' = stage /\ next' = next + 1
      /\ content' = [content EXCEPT ![p] = "empty"]
  <2>1. Len(svh_paths) \in Nat /\ next \in Nat /\ next >= 1
    BY ListLengths
  <2>2. QED
    BY <2>1 DEF SplatHeader, CurrentPath, sv2vLists
<1>2. /\ p \in Svh /\ FirstOf(svh_paths, next) = FirstOf(svh_paths, next - 1) \cup {p}
  BY <1>1, ListLengths, FirstOfFacts
<1>3. p \notin ToSet(sv_paths)
  BY <1>2, Sv2vAssumption, ListLengths, FirstOfFacts
<1> HIDE DEF p
<1>4. content = [q \in Sv \cup Svh |-> content[q]]
  BY DEF Sv2vInv, ContentTyped
<1>5. /\ content' = [q \in Sv \cup Svh |-> content'[q]]
      /\ \A q \in Sv \cup Svh : content'[q] = IF q = p THEN "empty" ELSE content[q]
  BY <1>1, <1>4
<1>6. ListsTyped' /\ ContentTyped' /\ ListsSplit'
  <2>1. next' \in Nat \ {0}
    BY <1>1
  <2>2. ListsTyped'
    BY <1>1, <2>1 DEF Sv2vInv, ListsTyped
  <2>3. QED
    BY <1>1, <1>5, <2>2 DEF Sv2vInv, ContentTyped, ListsSplit
<1>7. Converting'
  BY <1>1 DEF Converting, Sv2vInv
<1>8. Writing'
  <2>1. next' - 1 = next /\ next' <= Len(svh_paths') + 1
    BY <1>1
  <2>2. \A q \in Sv \cup Svh :
          content[q] = IF q \in ToSet(sv_paths) THEN "verilog"
                       ELSE IF q \in FirstOf(svh_paths, next - 1) THEN "empty" ELSE "original"
    BY <1>1 DEF Writing, Sv2vInv
  <2>3. FirstOf(svh_paths, next - 1)' = FirstOf(svh_paths, next) /\ ToSet(sv_paths)' = ToSet(sv_paths)
    BY <1>1, <2>1 DEF FirstOf
  <2>4. \A q \in Sv \cup Svh :
          content'[q] = IF q \in ToSet(sv_paths)' THEN "verilog"
                        ELSE IF q \in FirstOf(svh_paths, next - 1)' THEN "empty" ELSE "original"
    BY <1>2, <1>3, <1>5, <2>2, <2>3
  <2>5. QED
    BY <1>1, <2>1, <2>4 DEF Writing
<1>9. QED
  BY <1>1, <1>6, <1>7, <1>8 DEF Sv2vInv, StoppedInOrder

\* Steps that go on to the next loop or end.
LEMMA StageStep ==
    ASSUME Sv2vInv, ReadFileList \/ AllSplit \/ AllTransformed \/ AllCopied \/ Finished
    PROVE  Sv2vInv'
<1>1. /\ paths' = paths /\ sv_paths' = sv_paths /\ svh_paths' = svh_paths
      /\ pkg_paths' = pkg_paths /\ tmp' = tmp /\ content' = content
      /\ next' \in {1, next}
  BY DEF ReadFileList, AllSplit, AllTransformed, AllCopied, Finished, sv2vLists
<1>2. /\ \A k : FirstOf(sv_paths, k)' = FirstOf(sv_paths', k') /\ FirstOf(svh_paths, k)' = FirstOf(svh_paths', k')
      /\ ToSet(sv_paths)' = ToSet(sv_paths) /\ ToSet(svh_paths)' = ToSet(svh_paths)
      /\ ToSet(paths)' = ToSet(paths)
  BY <1>1 DEF FirstOf
<1>3. /\ Len(paths) \in Nat /\ Len(sv_paths) \in Nat /\ Len(svh_paths) \in Nat
      /\ FirstOf(paths, Len(paths)) = ToSet(paths) /\ FirstOf(paths, 0) = {}
      /\ FirstOf(sv_paths, Len(sv_paths)) = ToSet(sv_paths) /\ FirstOf(sv_paths, 0) = {}
      /\ FirstOf(svh_paths, 0) = {}
  <2>1. paths \in Seq(ToSet(paths)) /\ sv_paths \in Seq(Sv) /\ svh_paths \in Seq(Svh)
    BY ListLengths
  <2>2. QED
    BY <2>1, FirstOfFacts
<1>4. ListsTyped' /\ ContentTyped' /\ next \in Nat /\ next >= 1
  <2>1. next \in Nat /\ next >= 1
    BY ListLengths
  <2>2. next' \in Nat \ {0}
    BY <1>1, <2>1
  <2>3. QED
    BY <1>1, <2>1, <2>2 DEF Sv2vInv, ListsTyped, ContentTyped
<1>5. CASE ReadFileList
  <2>1. stage = "reading" /\ stage' \in {"split", "exit 1"} /\ next' = next
    BY <1>5 DEF ReadFileList
  <2>2. next = 1 /\ sv_paths = <<>> /\ svh_paths = <<>>
    BY <2>1 DEF Sv2vInv, ListsSplit
  <2>3. ToSet(sv_paths) = {} /\ ToSet(svh_paths) = {}
    BY <2>2 DEF ToSet
  <2>4. ListsSplit'
    <3>1. next' = 1
      BY <2>1, <2>2, Zenon
    <3>2. next' <= Len(paths') + 1
      BY <1>1, <1>3, <3>1
    <3>3. FirstOf(paths, next - 1)' = {}
      BY <3>1 DEF FirstOf
    <3>4. QED
      BY <1>2, <2>1, <2>3, <3>2, <3>3 DEF ListsSplit
  <2>5. Converting' /\ Writing'
    BY <1>1, <2>1 DEF Sv2vInv, Converting, Writing
  <2>6. QED
    BY <1>4, <2>1, <2>4, <2>5 DEF Sv2vInv, StoppedInOrder
<1>6. CASE AllSplit
  <2>1. stage = "split" /\ stage' = "transform" /\ next' = 1 /\ next > Len(paths)
    BY <1>6 DEF AllSplit
  <2>2. next - 1 = Len(paths)
    BY <1>3, <1>4, <2>1 DEF Sv2vInv, ListsSplit
  <2>3. ToSet(sv_paths) = Sv \cap ToSet(paths) /\ ToSet(svh_paths) = Svh \cap ToSet(paths)
    BY <1>3, <2>1, <2>2 DEF Sv2vInv, ListsSplit
  <2>4. ListsSplit'
    BY <1>2, <2>1, <2>3 DEF ListsSplit
  <2>5. tmp = <<>> /\ Len(tmp) = 0
    BY <2>1 DEF Sv2vInv, Converting
  <2>6. Converting' /\ Writing'
    BY <1>1, <1>3, <2>1, <2>5 DEF Sv2vInv, Converting, Writing
  <2>7. QED
    BY <1>4, <2>1, <2>4, <2>6 DEF Sv2vInv, StoppedInOrder
<1>7. CASE AllTransformed
  <2>1. stage = "transform" /\ stage' = "copy" /\ next' = 1 /\ next > Len(sv_paths)
    BY <1>7 DEF AllTransformed
  <2>2. Len(tmp) = Len(sv_paths)
    BY <1>3, <1>4, <2>1 DEF Sv2vInv, Converting
  <2>3. ListsSplit'
    BY <1>2, <2>1 DEF ListsSplit, Sv2vInv
  <2>4. Converting'
    BY <1>1, <2>1, <2>2 DEF Sv2vInv, Converting
  <2>5. FirstOf(sv_paths, next - 1)' = {}
    BY <1>1, <2>1 DEF FirstOf
  <2>6. Writing'
    BY <1>1, <1>3, <2>1, <2>5 DEF Sv2vInv, Converting, Writing
  <2>7. QED
    BY <1>4, <2>1, <2>3, <2>4, <2>6 DEF Sv2vInv, StoppedInOrder
<1>8. CASE AllCopied
  <2>1. stage = "copy" /\ stage' = "splat" /\ next' = 1 /\ next > Len(sv_paths)
    BY <1>8 DEF AllCopied
  <2>2. next - 1 = Len(sv_paths)
    BY <1>3, <1>4, <2>1 DEF Sv2vInv, Writing
  <2>3. ListsSplit'
    BY <1>2, <2>1 DEF ListsSplit, Sv2vInv
  <2>4. Converting'
    BY <1>1, <2>1 DEF Sv2vInv, Converting
  <2>5. FirstOf(svh_paths, next - 1)' = {}
    BY <1>1, <2>1 DEF FirstOf
  <2>6. \A p \in Sv \cup Svh :
          content[p] = IF p \in ToSet(sv_paths) THEN "verilog" ELSE "original"
    BY <1>3, <2>1, <2>2 DEF Sv2vInv, Writing
  <2>7. Writing'
    BY <1>1, <1>2, <1>3, <2>1, <2>5, <2>6 DEF Writing
  <2>8. QED
    BY <1>4, <2>1, <2>3, <2>4, <2>7 DEF Sv2vInv, StoppedInOrder
<1>9. CASE Finished
  <2>1. stage = "splat" /\ stage' = "exit 0" /\ next' = next /\ next > Len(svh_paths)
    BY <1>9 DEF Finished
  <2>2. next = Len(svh_paths) + 1
    <3>1. next <= Len(svh_paths) + 1
      BY <2>1 DEF Sv2vInv, Writing
    <3>2. next \in Nat /\ Len(svh_paths) \in Nat /\ next > Len(svh_paths)
      BY <2>1, ListLengths, Zenon
    <3>3. QED
      BY <3>1, <3>2
  <2>3. ListsSplit'
    BY <1>2, <2>1 DEF ListsSplit, Sv2vInv
  <2>4. Converting'
    BY <1>1, <2>1 DEF Sv2vInv, Converting
  <2>5. FirstOf(svh_paths, next - 1)' = FirstOf(svh_paths, next - 1)
    BY <1>1, <2>1 DEF FirstOf
  <2>6. Writing'
    BY <1>1, <1>2, <2>1, <2>2, <2>5 DEF Sv2vInv, Writing
  <2>7. QED
    BY <1>4, <2>1, <2>3, <2>4, <2>6 DEF Sv2vInv, StoppedInOrder
<1>10. QED
  BY <1>5, <1>6, <1>7, <1>8, <1>9

\* shutil.copy dies in a file of the list.
LEMMA TornStep ==
    ASSUME Sv2vInv, CopyTorn
    PROVE  Sv2vInv'
<1> DEFINE p == sv_paths[next]
<1>1. /\ stage = "copy" /\ next \in 1..Len(sv_paths) /\ Len(sv_paths) \in Nat
      /\ paths' = paths /\ sv_paths' = sv_paths /\ svh_paths' = svh_paths
      /\ pkg_paths' = pkg_paths /\ tmp' = tmp /\ stage' = "raised" /\ next' = next
      /\ content' = [content EXCEPT ![p] = "torn"]
  <2>1. Len(sv_paths) \in Nat /\ next \in Nat /\ next >= 1
    BY ListLengths
  <2>2. QED
    BY <2>1 DEF CopyTorn, CurrentPath, sv2vLists
<1>2. /\ p \in Sv /\ FirstOf(sv_paths, next) = FirstOf(sv_paths, next - 1) \cup {p}
      /\ ToSet(sv_paths) \subseteq Sv
  BY <1>1, ListLengths, FirstOfFacts
<1>3. content = [q \in Sv \cup Svh |-> content[q]]
  BY DEF Sv2vInv, ContentTyped
<1>4. FirstOf(svh_paths, 0) = {} /\ FirstOf(sv_paths, next - 1) \subseteq Sv
  <2>1. svh_paths \in Seq(Svh) /\ sv_paths \in Seq(Sv)
    BY ListLengths
  <2>2. FirstOf(svh_paths, 0) = {}
    BY <2>1, FirstOfFacts
  <2>3. \A i \in 1..(next - 1) : i \in 1..Len(sv_paths) /\ sv_paths[i] \in Sv
    BY <1>1, <2>1
  <2>4. QED
    BY <2>2, <2>3 DEF FirstOf
<1>5. \A q \in Sv \cup Svh :
        content[q] = IF q \in FirstOf(sv_paths, next - 1) THEN "verilog" ELSE "original"
  BY <1>1 DEF Writing, Sv2vInv
<1>6. StoppedInOrder'
  <2>1. \A q \in Sv : \/ content'[q] = IF q \in FirstOf(sv_paths, next) THEN "verilog" ELSE "original"
                      \/ next > 0 /\ q = sv_paths[next] /\ content'[q] = "torn"
    <3>1. SUFFICES ASSUME NEW q \in Sv
                   PROVE  \/ content'[q] = IF q \in FirstOf(sv_paths, next) THEN "verilog" ELSE "original"
                          \/ next > 0 /\ q = p /\ content'[q] = "torn"
      OBVIOUS
    <3>2. next > 0
      BY <1>1
    <3> HIDE DEF p
    <3>3. CASE q = p
      BY <3>3, <3>2, <1>1, <1>3
    <3>4. CASE q # p
      BY <3>4, <1>1, <1>2, <1>3, <1>5
    <3>5. QED
      BY <3>3, <3>4
  <2>2. \A q \in Svh : content'[q] = IF q \in FirstOf(svh_paths, 0) THEN "empty" ELSE "original"
    <3> HIDE DEF p
    <3>1. QED
      BY <1>1, <1>2, <1>3, <1>4, <1>5, Sv2vAssumption
  <2>3. next \in 0..Len(sv_paths) /\ 0 \in 0..Len(svh_paths) /\ ~(0 > 0)
    BY <1>1, ListLengths
  <2>4. \A i : FirstOf(sv_paths, i)' = FirstOf(sv_paths', i') /\ FirstOf(svh_paths, i)' = FirstOf(svh_paths', i')
    BY DEF FirstOf
  <2>5. QED
    BY <1>1, <2>1, <2>2, <2>3 DEF StoppedInOrder, FirstOf
<1>7. ListsTyped' /\ ContentTyped' /\ ListsSplit' /\ Converting' /\ Writing'
  <2>1. ContentTyped'
    BY <1>1, <1>3 DEF ContentTyped
  <2>2. QED
    BY <1>1, <2>1 DEF Sv2vInv, ListsTyped, ListsSplit, Converting, Writing
<1>8. QED
  BY <1>1, <1>6, <1>7 DEF Sv2vInv

\* The script dies between two of its steps.
LEMMA UncaughtStep ==
    ASSUME Sv2vInv, Uncaught
    PROVE  Sv2vInv'
<1>1. /\ stage \in {"reading", "split", "transform", "copy", "splat"}
      /\ paths' = paths /\ sv_paths' = sv_paths /\ svh_paths' = svh_paths
      /\ pkg_paths' = pkg_paths /\ tmp' = tmp /\ stage' = "raised" /\ next' = next
      /\ content' = content
  BY DEF Uncaught, sv2vLists
<1>2. /\ svh_paths \in Seq(Svh) /\ sv_paths \in Seq(Sv) /\ next \in Nat /\ next >= 1
      /\ Len(sv_paths) \in Nat /\ Len(svh_paths) \in Nat
  BY ListLengths
<1>3. /\ FirstOf(sv_paths, 0) = {} /\ FirstOf(svh_paths, 0) = {}
      /\ FirstOf(sv_paths, Len(sv_paths)) = ToSet(sv_paths)
      /\ ToSet(sv_paths) \subseteq Sv
  BY <1>2, FirstOfFacts
<1>4. \E n \in 0..Len(sv_paths), k \in 0..Len(svh_paths) :
        /\ \A p \in Sv : content[p] = IF p \in FirstOf(sv_paths, n) THEN "verilog" ELSE "original"
        /\ \A p \in Svh : content[p] = IF p \in FirstOf(svh_paths, k) THEN "empty" ELSE "original"
        /\ k > 0 => \A p \in ToSet(sv_paths) : content[p] = "verilog"
  <2>1. 0 \in 0..Len(sv_paths) /\ 0 \in 0..Len(svh_paths) /\ ~(0 > 0)
    BY <1>2
  <2>2. CASE stage \in {"reading", "split", "transform"}
    <3>1. \A p \in Sv \cup Svh : content[p] = "original"
      BY <2>2 DEF Sv2vInv, Converting
    <3>2. QED
      BY <1>3, <2>1, <3>1
  <2>3. CASE stage = "copy"
    <3>1. next - 1 \in 0..Len(sv_paths)
      BY <1>2, <2>3 DEF Sv2vInv, Writing
    <3>2. \A p \in Sv \cup Svh :
            content[p] = IF p \in FirstOf(sv_paths, next - 1) THEN "verilog" ELSE "original"
      BY <2>3 DEF Sv2vInv, Writing
    <3>3. FirstOf(sv_paths, next - 1) \subseteq Sv
      <4>1. \A i \in 1..(next - 1) : i \in 1..Len(sv_paths) /\ sv_paths[i] \in Sv
        BY <1>2, <3>1
      <4>2. QED
        BY <4>1 DEF FirstOf
    <3>4. \A p \in Svh : content[p] = IF p \in FirstOf(svh_paths, 0) THEN "empty" ELSE "original"
      BY <1>3, <3>2, <3>3, Sv2vAssumption
    <3>5. QED
      BY <2>1, <3>1, <3>2, <3>4
  <2>4. CASE stage = "splat"
    <3>1. next - 1 \in 0..Len(svh_paths) /\ Len(sv_paths) \in 0..Len(sv_paths)
      BY <1>2, <2>4 DEF Sv2vInv, Writing
    <3>2. \A p \in Sv \cup Svh :
            content[p] = IF p \in ToSet(sv_paths) THEN "verilog"
                         ELSE IF p \in FirstOf(svh_paths, next - 1) THEN "empty"
                         ELSE "original"
      BY <2>4 DEF Sv2vInv, Writing
    <3>3. FirstOf(svh_paths, next - 1) \subseteq Svh
      <4>1. \A i \in 1..(next - 1) : i \in 1..Len(svh_paths) /\ svh_paths[i] \in Svh
        BY <1>2, <3>1
      <4>2. QED
        BY <4>1 DEF FirstOf
    <3>4. /\ \A p \in Sv : content[p] = IF p \in FirstOf(sv_paths, Len(sv_paths)) THEN "verilog" ELSE "original"
          /\ \A p \in Svh : content[p] = IF p \in FirstOf(svh_paths, next - 1) THEN "empty" ELSE "original"
          /\ \A p \in ToSet(sv_paths) : content[p] = "verilog"
      BY <1>3, <3>2, <3>3, Sv2vAssumption
    <3>5. QED
      BY <3>1, <3>4
  <2>5. QED
    BY <1>1, <2>2, <2>3, <2>4
<1>5. StoppedInOrder'
  <2>1. PICK n \in 0..Len(sv_paths), k \in 0..Len(svh_paths) :
        /\ \A p \in Sv : content[p] = IF p \in FirstOf(sv_paths, n) THEN "verilog" ELSE "original"
        /\ \A p \in Svh : content[p] = IF p \in FirstOf(svh_paths, k) THEN "empty" ELSE "original"
        /\ k > 0 => \A p \in ToSet(sv_paths) : content[p] = "verilog"
    BY <1>4
  <2>2. QED
    BY <1>1, <2>1 DEF StoppedInOrder, FirstOf, ToSet
<1>6. ListsTyped' /\ ContentTyped' /\ ListsSplit' /\ Converting' /\ Writing'
  BY <1>1 DEF Sv2vInv, ListsTyped, ContentTyped, ListsSplit, Converting, Writing
<1>7. QED
  BY <1>1, <1>5, <1>6 DEF Sv2vInv

\* For every list of files, with paths listed twice, wherever sv2v fails and
\* wherever the script dies of an exception, in the middle of a copy too: exit
\* code 1 of sv2v_in_place.py has changed no file, exit code 0 has converted
\* exactly those listed, each from undamaged sources, and an exception leaves
\* the files of the list converted in order, no header emptied before the last.
THEOREM Sv2vOrderly == Sv2vSpec => []ConversionOrderly
<1>1. Sv2vInit => Sv2vInv
  <2> SUFFICES ASSUME Sv2vInit
               PROVE  Sv2vInv
    OBVIOUS
  <2>1. /\ paths \in FileLists /\ content = [p \in Sv \cup Svh |-> "original"]
        /\ sv_paths = <<>> /\ svh_paths = <<>> /\ pkg_paths = <<>>
        /\ tmp = <<>> /\ stage = "reading" /\ next = 1
    BY DEF Sv2vInit
  <2>2. content = [p \in Sv \cup Svh |-> content[p]] /\ \A p \in Sv \cup Svh : content[p] = "original"
    BY <2>1
  <2>3. <<>> \in Seq(Sv) /\ <<>> \in Seq(Svh) /\ <<>> \in Seq(Pkg) /\ <<>> \in Seq({"verilog"})
    OBVIOUS
  <2>4. QED
    BY <2>1, <2>2, <2>3 DEF Sv2vInv, ListsTyped, ContentTyped, ListsSplit, Converting, Writing,
                            StoppedInOrder
<1>2. Sv2vInv /\ [Sv2vNext]_sv2vVars => Sv2vInv'
  <2> SUFFICES ASSUME Sv2vInv, [Sv2vNext]_sv2vVars
               PROVE  Sv2vInv'
    OBVIOUS
  <2>1. CASE UNCHANGED sv2vVars
    <3>1. /\ paths' = paths /\ sv_paths' = sv_paths /\ svh_paths' = svh_paths
          /\ pkg_paths' = pkg_paths /\ tmp' = tmp /\ content' = content
          /\ next' = next /\ stage' = stage
      BY <2>1 DEF sv2vVars, sv2vLists
    <3>2. ListsTyped' /\ ContentTyped'
      BY <3>1 DEF Sv2vInv, ListsTyped, ContentTyped
    <3>3. ListsSplit'
      BY <3>1 DEF Sv2vInv, ListsSplit, FirstOf
    <3>4. Converting' /\ Writing'
      BY <3>1 DEF Sv2vInv, Converting, Writing, FirstOf
    <3>5. StoppedInOrder'
      BY <3>1 DEF Sv2vInv, StoppedInOrder, FirstOf
    <3>6. QED
      BY <3>1, <3>2, <3>3, <3>4, <3>5 DEF Sv2vInv
  <2>2. CASE ReadFileList \/ AllSplit \/ AllTransformed \/ AllCopied \/ Finished
    BY <2>2, StageStep
  <2>3. CASE SplitPath
    BY <2>3, SplitStep
  <2>4. CASE transform_one
    BY <2>4, TransformStep
  <2>5. CASE CopyBack
    BY <2>5, CopyStep
  <2>6. CASE SplatHeader
    BY <2>6, SplatStep
  <2>7. CASE CopyTorn
    BY <2>7, TornStep
  <2>8. CASE Uncaught
    BY <2>8, UncaughtStep
  <2>9. QED
    BY <2>1, <2>2, <2>3, <2>4, <2>5, <2>6, <2>7, <2>8 DEF Sv2vNext
<1>3. Sv2vInv => ConversionOrderly
  <2> SUFFICES ASSUME Sv2vInv
               PROVE  ConversionOrderly
    OBVIOUS
  <2>1. FailureLeavesSources
    BY DEF FailureLeavesSources, Sv2vInv, Converting
  <2>2. ASSUME stage = "exit 0", NEW p \in Sv \cup Svh
        PROVE  content[p] = CASE p \in Sv \cap ToSet(paths) -> "verilog"
                              [] p \in Svh \cap ToSet(paths) -> "empty"
                              [] OTHER -> "original"
    <3>1. svh_paths \in Seq(Svh) /\ next - 1 = Len(svh_paths)
      <4>1. next = Len(svh_paths) + 1
        BY <2>2 DEF Sv2vInv, Writing
      <4>2. QED
        BY <4>1, ListLengths
    <3>2. FirstOf(svh_paths, next - 1) = ToSet(svh_paths)
      BY <3>1, FirstOfFacts
    <3>3. content[p] = IF p \in ToSet(sv_paths) THEN "verilog"
                       ELSE IF p \in ToSet(svh_paths) THEN "empty" ELSE "original"
      BY <2>2, <3>2 DEF Sv2vInv, Writing
    <3>4. ToSet(sv_paths) = Sv \cap ToSet(paths) /\ ToSet(svh_paths) = Svh \cap ToSet(paths)
      BY <2>2 DEF Sv2vInv, ListsSplit
    <3>5. QED
      BY <3>3, <3>4, Sv2vAssumption
  <2>3. QED
    BY <2>1, <2>2 DEF ConversionOrderly, AllConverted, Sv2vInv
<1>4. QED
  BY <1>1, <1>2, <1>3, PTL DEF Sv2vSpec

-----------------------------------------------------------------------------
(* Reports: every report counts the pickles.                                *)

\* The sum of a column of a table by test, each number of which is the number
\* of the runs in Q of that test, is the number of the runs in Q.
SumStep(d, c, f) ==
    f = [s \in SUBSET DOMAIN d |->
            IF s = {} THEN 0
            ELSE LET x == CHOOSE y \in s : TRUE IN d[x][c] + f[s \ {x}]]

ColumnSum(d, c) == MapThenSumSet(LAMBDA t : d[t][c], DOMAIN d)

\* Column c of table d has, for every test, the number of its runs in Q.
Tabulated(d, c, Q) ==
    /\ IsFiniteSet(Q) /\ IsFiniteSet(DOMAIN d)
    /\ \A r \in Q : r.test \in DOMAIN d
    /\ \A t \in DOMAIN d : d[t][c] = Cardinality({r \in Q : r.test = t})

\* The runs of a set of tests: those of one of them and those of the others.
LEMMA OneTestMore ==
    ASSUME NEW Q, IsFiniteSet(Q), NEW s, s # {}, NEW x \in s
    PROVE  /\ Cardinality({r \in Q : r.test \in s})
                = Cardinality({r \in Q : r.test = x})
                  + Cardinality({r \in Q : r.test \in s \ {x}})
           /\ Cardinality({r \in Q : r.test \in s}) \in Nat
           /\ Cardinality({r \in Q : r.test = x}) \in Nat
<1> DEFINE A == {r \in Q : r.test = x}
           B == {r \in Q : r.test \in s \ {x}}
<1>1. A \cup B = {r \in Q : r.test \in s} /\ A \cap B = {}
  OBVIOUS
<1>2. IsFiniteSet(A) /\ IsFiniteSet(B) /\ IsFiniteSet(A \cup B)
  <2>1. A \in SUBSET Q /\ B \in SUBSET Q /\ A \cup B \in SUBSET Q
    OBVIOUS
  <2>2. QED
    BY <2>1, FS_Subset
<1> HIDE DEF A, B
<1>3. Cardinality(A \cup B) = Cardinality(A) + Cardinality(B) - Cardinality(A \cap B)
  BY <1>2, FS_Union
<1>4. Cardinality(A \cap B) = 0
  BY <1>1, FS_EmptySet
<1>5. Cardinality(A) \in Nat /\ Cardinality(B) \in Nat /\ Cardinality(A \cup B) \in Nat
  BY <1>2, FS_CardinalityType
<1>6. Cardinality(A \cup B) = Cardinality(A) + Cardinality(B)
  BY <1>3, <1>4, <1>5
<1>7. QED
  BY <1>1, <1>5, <1>6 DEF A, B

\* The recursion of the sum has one solution, the number of runs.
LEMMA SumOfRuns ==
    ASSUME NEW d, NEW c, NEW Q, Tabulated(d, c, Q)
    PROVE  ColumnSum(d, c) = Cardinality(Q)
<1>0. /\ IsFiniteSet(Q) /\ IsFiniteSet(DOMAIN d)
      /\ \A r \in Q : r.test \in DOMAIN d
      /\ \A t \in DOMAIN d : d[t][c] = Cardinality({r \in Q : r.test = t})
  BY DEF Tabulated
<1> DEFINE N(s) == Cardinality({r \in Q : r.test \in s})
           h == [s \in SUBSET DOMAIN d |-> N(s)]
<1>1. ASSUME NEW s \in SUBSET DOMAIN d, s # {}
      PROVE  LET x == CHOOSE y \in s : TRUE
             IN  /\ x \in s /\ s \ {x} \in SUBSET DOMAIN d
                 /\ N(s) = d[x][c] + N(s \ {x})
  <2> DEFINE x == CHOOSE y \in s : TRUE
  <2>1. x \in s
    BY <1>1
  <2> HIDE DEF x
  <2>2. x \in DOMAIN d /\ d[x][c] = Cardinality({r \in Q : r.test = x})
    BY <1>0, <2>1
  <2>3. N(s) = Cardinality({r \in Q : r.test = x}) + N(s \ {x})
    BY <1>0, <1>1, <2>1, OneTestMore
  <2>4. QED
    BY <2>1, <2>2, <2>3 DEF x
<1>2. N({}) = 0
  <2>1. {r \in Q : r.test \in {}} = {}
    OBVIOUS
  <2>2. QED
    BY <2>1, FS_EmptySet
<1> HIDE DEF N
<1>3. SumStep(d, c, h)
  <2>1. ASSUME NEW s \in SUBSET DOMAIN d
        PROVE  h[s] = IF s = {} THEN 0
                      ELSE LET x == CHOOSE y \in s : TRUE IN d[x][c] + h[s \ {x}]
    <3>1. CASE s = {}
      BY <1>2, <3>1
    <3>2. CASE s # {}
      BY <1>1, <3>2
    <3>3. QED
      BY <3>1, <3>2
  <2>2. QED
    BY <2>1 DEF SumStep
<1>4. ASSUME NEW f, SumStep(d, c, f)
      PROVE  f[DOMAIN d] = N(DOMAIN d)
  <2> DEFINE Bad == {s \in SUBSET DOMAIN d : f[s] # N(s)}
  <2>1. SUFFICES ASSUME Bad # {} PROVE FALSE
    OBVIOUS
  <2>2. IsWellFoundedOn(StrictSubsetOrdering(DOMAIN d), FiniteSubsetsOf(DOMAIN d))
    BY FS_StrictSubsetOrderingWellFounded
  <2>3. Bad \subseteq FiniteSubsetsOf(DOMAIN d)
    BY <1>0, FS_Subset DEF FiniteSubsetsOf
  <2>4. PICK s \in Bad : \A u \in Bad : ~(<<u, s>> \in StrictSubsetOrdering(DOMAIN d))
    BY <2>1, <2>2, <2>3, WFMin, Zenon
  <2>5. s # {}
    BY <1>2, <1>4, <2>4 DEF SumStep
  <2> DEFINE x == CHOOSE y \in s : TRUE
  <2>6. /\ x \in s /\ s \ {x} \in SUBSET DOMAIN d
        /\ N(s) = d[x][c] + N(s \ {x})
    BY <1>1, <2>4, <2>5
  <2>7. f[s] = d[x][c] + f[s \ {x}]
    BY <1>4, <2>4, <2>5 DEF SumStep
  <2> HIDE DEF x
  <2>8. s \ {x} \in Bad
    BY <2>4, <2>6, <2>7
  <2>9. <<s \ {x}, s>> \in StrictSubsetOrdering(DOMAIN d)
    BY <2>3, <2>4, <2>6, <2>8 DEF StrictSubsetOrdering
  <2>10. QED
    BY <2>4, <2>8, <2>9
<1>5. ColumnSum(d, c) = (CHOOSE f : SumStep(d, c, f))[DOMAIN d]
  BY Zenon DEF ColumnSum, MapThenSumSet, MapThenFoldSet, SumStep
<1>6. SumStep(d, c, CHOOSE f : SumStep(d, c, f))
  BY <1>3, Zenon
<1>7. N(DOMAIN d) = Cardinality(Q)
  <2>1. {r \in Q : r.test \in DOMAIN d} = Q
    BY <1>0
  <2>2. QED
    BY <2>1 DEF N
<1>8. QED
  BY <1>4, <1>5, <1>6, <1>7, Zenon

\* An injective image has as many elements.
LEMMA AsMany ==
    ASSUME NEW S, IsFiniteSet(S), NEW g, DOMAIN g = S, g = [x \in S |-> g[x]],
           \A x, y \in S : g[x] = g[y] => x = y
    PROVE  IsFiniteSet({g[x] : x \in S}) /\ Cardinality({g[x] : x \in S}) = Cardinality(S)
<1> DEFINE T == {g[x] : x \in S}
<1>1. g \in Bijection(S, T)
  BY DEF Bijection, Injection, Surjection, IsInjective
<1>2. ExistsBijection(S, T)
  BY <1>1 DEF ExistsBijection
<1> HIDE DEF T
<1>3. IsFiniteSet(T) /\ Cardinality(T) = Cardinality(S)
  BY <1>2, FS_Bijection
<1>4. QED
  BY <1>3 DEF T

Outcomes == {"pass", "fail", "timeout", "unreadable"}
ReportNames == {"junit", "text", "html", "json", "svg"}

\* The pickles: one per run, told apart by their seeds.
Pickles ==
    /\ results \in Seq([test : ReportTests, seed : Nat, outcome : Outcomes])
    /\ \A i \in 1..Len(results) : results[i].seed = i
NPassed(n) == Cardinality({i \in 1..n : Passed(results[i])})

\* What the loop has collected of the first n pickles.
Collected(n) ==
    /\ passing_tests \in Seq(ToSet(results)) /\ failing_tests \in Seq(ToSet(results))
    /\ Len(passing_tests) = NPassed(n) /\ Len(failing_tests) = n - NPassed(n)
    /\ ToSet(passing_tests) = {results[i] : i \in {k \in 1..n : Passed(results[k])}}
    /\ ToSet(failing_tests) = {results[i] : i \in {k \in 1..n : ~Passed(results[k])}}
AllLoad(n) == \A i \in 1..n : Loads(results[i])

FailedRuns == {r \in ToSet(results) : ~Passed(r)}
SummaryText == {SummaryLine(r) : r \in ToSet(results)}
JsonTable ==
    [t \in DOMAIN test_summary_dict |->
        <<test_summary_dict[t].passing,
          test_summary_dict[t].passing + test_summary_dict[t].failing>>]

RepSteps == {"collect", "junit", "text", "cov", "html", "json", "svg", "returned", "raised",
             "unread"}
RepInv ==
    /\ Pickles
    /\ rstep \in RepSteps
    /\ DOMAIN files = ReportNames
    /\ \E n \in 0..Len(results) :
          /\ Collected(n) /\ AllLoad(n)
          /\ rstep \notin {"collect", "unread"} => n = Len(results)
    /\ rstep \in {"collect", "unread"} => \A f \in ReportNames : files[f] = <<>>
    /\ rstep = "unread" => \E i \in 1..Len(results) : ~Loads(results[i])
    /\ rstep \notin {"collect", "unread", "junit"} => files["junit"] = <<JunitCases, JunitMerged>>
    /\ rstep \notin {"collect", "unread", "junit", "text"} =>
          /\ files["text"] = <<gen_summary_line, SummaryText>>
          /\ test_summary_dict = create_test_summary_dict(all_tests)
    /\ rstep \in {"json", "svg", "returned"} => files["html"] = <<Totals, FailedRuns>>
    /\ rstep \in {"svg", "returned"} => files["json"] = JsonTable
    /\ rstep = "svg" => svg_present
    /\ rstep = "returned" /\ svg_present => files["svg"] = Totals

\* The runs that passed, by position and as a set.
LEMMA RunsByPosition ==
    ASSUME Pickles, NEW P \in SUBSET (1..Len(results))
    PROVE  /\ IsFiniteSet(P) /\ IsFiniteSet({results[i] : i \in P})
           /\ Cardinality({results[i] : i \in P}) = Cardinality(P)
<1> DEFINE g == [i \in P |-> results[i]]
<1>1. Len(results) \in Nat /\ IsFiniteSet(1..Len(results))
  BY FS_Interval DEF Pickles
<1>2. IsFiniteSet(P)
  BY <1>1, FS_Subset
<1>3. \A x, y \in P : g[x] = g[y] => x = y
  BY DEF Pickles
<1>4. DOMAIN g = P /\ g = [x \in P |-> g[x]]
  OBVIOUS
<1>5. {results[i] : i \in P} = {g[x] : x \in P}
  OBVIOUS
<1> HIDE DEF g
<1>6. IsFiniteSet({g[x] : x \in P}) /\ Cardinality({g[x] : x \in P}) = Cardinality(P)
  BY <1>2, <1>3, <1>4, AsMany
<1>7. QED
  BY <1>2, <1>5, <1>6

\* One more pickle, and one more that passed or not.
LEMMA NPassedStep ==
    ASSUME Pickles, NEW n \in 0..Len(results)
    PROVE  /\ NPassed(n) \in Nat /\ NPassed(n) <= n
           /\ NPassed(0) = 0
           /\ n < Len(results) =>
                NPassed(n + 1) = NPassed(n) + IF Passed(results[n + 1]) THEN 1 ELSE 0
<1> DEFINE A == {i \in 1..n : Passed(results[i])}
<1>1. IsFiniteSet(1..n) /\ Cardinality(1..n) = n
  BY FS_Interval DEF Pickles
<1>2. A \in SUBSET (1..n)
  OBVIOUS
<1>3. IsFiniteSet(A) /\ Cardinality(A) <= n /\ Cardinality(A) \in Nat
  BY <1>1, <1>2, FS_Subset, FS_CardinalityType
<1>4. {i \in 1..0 : Passed(results[i])} = {}
  OBVIOUS
<1>5. NPassed(0) = 0
  BY <1>4, FS_EmptySet DEF NPassed
<1>6. ASSUME n < Len(results)
      PROVE  {i \in 1..(n + 1) : Passed(results[i])}
               = IF Passed(results[n + 1]) THEN A \cup {n + 1} ELSE A
  <2>1. 1..(n + 1) = (1..n) \cup {n + 1}
    BY DEF Pickles
  <2>2. QED
    BY <2>1
<1>7. n + 1 \notin A
  BY DEF Pickles
<1>8. NPassed(n) = Cardinality(A)
  BY DEF NPassed
<1> HIDE DEF A
<1>9. Cardinality(A \cup {n + 1}) = Cardinality(A) + 1
  BY <1>3, <1>7, FS_AddElement
<1>10. n < Len(results) =>
         NPassed(n + 1) = IF Passed(results[n + 1]) THEN Cardinality(A) + 1 ELSE Cardinality(A)
  BY <1>6, <1>9 DEF NPassed
<1>11. QED
  BY <1>3, <1>5, <1>8, <1>10

\* The whole of it.
LEMMA AllCollected ==
    ASSUME Pickles, Collected(Len(results))
    PROVE  /\ ToSet(all_tests) = ToSet(results)
           /\ Len(results) \in Nat
           /\ IsFiniteSet(ToSet(results)) /\ Cardinality(ToSet(results)) = Len(results)
           /\ LET passed == Cardinality({i \in DOMAIN results : Passed(results[i])})
              IN  /\ passed \in Nat /\ passed <= Len(results)
                  /\ gen_summary_line = <<passed, Len(results) - passed>>
                  /\ Cardinality({r \in ToSet(results) : Passed(r)}) = passed
                  /\ Cardinality(FailedRuns) = Len(results) - passed
<1> DEFINE n == Len(results)
           P == {i \in 1..n : Passed(results[i])}
           F == {i \in 1..n : ~Passed(results[i])}
<1>1. DOMAIN results = 1..n /\ n \in Nat /\ NPassed(n) = Cardinality(P)
  BY DEF Pickles, NPassed
<1>2. P \in SUBSET (1..n) /\ F \in SUBSET (1..n) /\ 1..n \in SUBSET (1..n)
      /\ P \cup F = 1..n /\ P \cap F = {}
  OBVIOUS
<1>3. /\ ToSet(results) = {results[i] : i \in 1..n}
      /\ {r \in ToSet(results) : Passed(r)} = {results[i] : i \in P}
      /\ FailedRuns = {results[i] : i \in F}
  BY <1>1 DEF ToSet, FailedRuns
<1>4. ToSet(passing_tests) \cup ToSet(failing_tests) = ToSet(results)
  BY <1>2, <1>3 DEF Collected
<1>5. ToSet(all_tests) = ToSet(passing_tests) \cup ToSet(failing_tests)
  <2>1. passing_tests \in Seq(ToSet(results)) /\ failing_tests \in Seq(ToSet(results))
    BY DEF Collected
  <2>2. /\ all_tests \in Seq(ToSet(results))
        /\ Len(all_tests) = Len(passing_tests) + Len(failing_tests)
        /\ \A i \in 1..Len(all_tests) :
              all_tests[i] = IF i <= Len(passing_tests) THEN passing_tests[i]
                             ELSE failing_tests[i - Len(passing_tests)]
    BY <2>1 DEF all_tests
  <2>3. \A i \in 1..Len(passing_tests) : i \in 1..Len(all_tests) /\ all_tests[i] = passing_tests[i]
    BY <2>1, <2>2
  <2>4. \A i \in 1..Len(failing_tests) :
           /\ Len(passing_tests) + i \in 1..Len(all_tests)
           /\ all_tests[Len(passing_tests) + i] = failing_tests[i]
    <3>1. Len(passing_tests) \in Nat /\ Len(failing_tests) \in Nat
      BY <2>1
    <3>2. ASSUME NEW i \in 1..Len(failing_tests)
          PROVE  /\ Len(passing_tests) + i \in 1..Len(all_tests)
                 /\ ~(Len(passing_tests) + i <= Len(passing_tests))
                 /\ (Len(passing_tests) + i) - Len(passing_tests) = i
      BY <2>2, <3>1
    <3>3. QED
      BY <2>2, <3>2, Zenon
  <2>5. /\ ToSet(passing_tests) = {passing_tests[i] : i \in 1..Len(passing_tests)}
        /\ ToSet(failing_tests) = {failing_tests[i] : i \in 1..Len(failing_tests)}
        /\ ToSet(all_tests) = {all_tests[i] : i \in 1..Len(all_tests)}
    <3>1. /\ DOMAIN passing_tests = 1..Len(passing_tests)
          /\ DOMAIN failing_tests = 1..Len(failing_tests)
          /\ DOMAIN all_tests = 1..Len(all_tests)
      BY <2>1, <2>2
    <3>2. QED
      BY <3>1 DEF ToSet
  <2>6. ToSet(passing_tests) \cup ToSet(failing_tests) \subseteq ToSet(all_tests)
    BY <2>3, <2>4, <2>5
  <2>7. \A i \in 1..Len(all_tests) :
           \/ i \in 1..Len(passing_tests) /\ all_tests[i] = passing_tests[i]
           \/ /\ i - Len(passing_tests) \in 1..Len(failing_tests)
              /\ all_tests[i] = failing_tests[i - Len(passing_tests)]
    BY <2>1, <2>2
  <2>8. QED
    BY <2>5, <2>6, <2>7
<1>6. /\ IsFiniteSet(P) /\ IsFiniteSet(F)
      /\ IsFiniteSet({results[i] : i \in 1..n})
      /\ Cardinality({results[i] : i \in 1..n}) = Cardinality(1..n)
      /\ Cardinality({results[i] : i \in P}) = Cardinality(P)
      /\ Cardinality({results[i] : i \in F}) = Cardinality(F)
  BY <1>2, RunsByPosition
<1>7. Cardinality(1..n) = n
  <2>1. n \in Int /\ (1 > n => n = 0) /\ n - 1 + 1 = n
    BY <1>1
  <2> HIDE DEF n
  <2>2. Cardinality(1..n) = IF 1 > n THEN 0 ELSE n - 1 + 1
    BY <2>1, FS_Interval
  <2>3. QED
    BY <2>1, <2>2
<1>8. Cardinality(P) \in Nat /\ Cardinality(P) <= n
  BY <1>1, NPassedStep
<1>9. Cardinality(F) = n - Cardinality(P)
  <2>1. Cardinality(P \cup F) = Cardinality(P) + Cardinality(F) - Cardinality(P \cap F)
    BY <1>6, FS_Union
  <2>2. Cardinality(P \cap F) = 0 /\ Cardinality(F) \in Nat
    BY <1>2, <1>6, FS_EmptySet, FS_CardinalityType
  <2>3. Cardinality(P \cup F) = n
    BY <1>2, <1>7
  <2> HIDE DEF n, P, F
  <2>4. QED
    BY <1>1, <1>8, <2>1, <2>2, <2>3
<1>10. gen_summary_line = <<Cardinality(P), n - Cardinality(P)>>
  BY <1>1 DEF gen_summary_line, Collected
<1>11. {i \in DOMAIN results : Passed(results[i])} = P
  BY <1>1
<1> HIDE DEF P, F
<1>12. QED
  BY <1>1, <1>3, <1>4, <1>5, <1>6, <1>7, <1>8, <1>9, <1>10, <1>11

\* Append adds one element.
LEMMA AppendIsOneMore ==
    ASSUME NEW S, NEW s \in Seq(S), NEW r \in S
    PROVE  /\ Append(s, r) \in Seq(S) /\ Len(Append(s, r)) = Len(s) + 1
           /\ ToSet(Append(s, r)) = ToSet(s) \cup {r}
<1>1. /\ Append(s, r) \in Seq(S) /\ Len(Append(s, r)) = Len(s) + 1 /\ Len(s) \in Nat
      /\ \A i \in 1..Len(s) : Append(s, r)[i] = s[i]
      /\ Append(s, r)[Len(s) + 1] = r
  OBVIOUS
<1>2. DOMAIN s = 1..Len(s) /\ DOMAIN Append(s, r) = 1..(Len(s) + 1)
  BY <1>1
<1>3. 1..(Len(s) + 1) = (1..Len(s)) \cup {Len(s) + 1}
  BY <1>1
<1>4. ToSet(Append(s, r)) = {Append(s, r)[i] : i \in (1..Len(s)) \cup {Len(s) + 1}}
  BY <1>2, <1>3 DEF ToSet
<1>5. ToSet(s) = {s[i] : i \in 1..Len(s)}
  BY <1>2 DEF ToSet
<1>6. QED
  BY <1>1, <1>4, <1>5

\* The loop: the next pickle goes to one of the two lists.
LEMMA CollectStep ==
    ASSUME RepInv, Collect
    PROVE  RepInv'
<1>1. PICK n \in 0..Len(results) : Collected(n) /\ AllLoad(n)
  BY DEF RepInv
<1>2. rstep = "collect" /\ UNCHANGED <<inputs, test_summary_dict, cov_summary_dict, files>>
  BY DEF Collect
<1>3. Pickles /\ Pickles' /\ results' = results /\ Len(results) \in Nat /\ n \in Nat
  BY <1>2 DEF RepInv, Pickles, inputs
<1>4. NPassed(n) \in Nat /\ NPassed(n) <= n
      /\ (n < Len(results) =>
            NPassed(n + 1) = NPassed(n) + IF Passed(results[n + 1]) THEN 1 ELSE 0)
  BY <1>3, NPassedStep
<1>5. Len(passing_tests) + Len(failing_tests) + 1 = n + 1
  BY <1>1, <1>3, <1>4 DEF Collected
<1>6. CASE n + 1 > Len(results)
  <2>1. rstep' = "junit" /\ UNCHANGED <<passing_tests, failing_tests>>
    BY <1>5, <1>6 DEF Collect
  <2>2. n = Len(results) /\ Collected(n)' /\ AllLoad(n)'
    BY <1>1, <1>3, <1>6, <2>1 DEF Collected, NPassed, AllLoad
  <2>3. QED
    BY <1>2, <1>3, <2>1, <2>2 DEF RepInv, RepSteps
<1>7. CASE ~(n + 1 > Len(results))
  <2> DEFINE r == results[n + 1]
  <2>1. n + 1 \in 1..Len(results) /\ n < Len(results) /\ n + 1 \in 0..Len(results)
    BY <1>3, <1>7
  <2>2. /\ rstep' = rstep /\ Loads(r)
        /\ IF Passed(r)
           THEN passing_tests' = Append(passing_tests, r) /\ failing_tests' = failing_tests
           ELSE failing_tests' = Append(failing_tests, r) /\ passing_tests' = passing_tests
    BY <1>5, <1>7 DEF Collect, Passed
  <2>3. r \in ToSet(results)
    BY <1>3, <2>1 DEF ToSet, Pickles
  <2>4. /\ passing_tests \in Seq(ToSet(results)) /\ failing_tests \in Seq(ToSet(results))
        /\ Len(passing_tests) = NPassed(n) /\ Len(failing_tests) = n - NPassed(n)
        /\ ToSet(passing_tests) = {results[i] : i \in {k \in 1..n : Passed(results[k])}}
        /\ ToSet(failing_tests) = {results[i] : i \in {k \in 1..n : ~Passed(results[k])}}
    BY <1>1 DEF Collected
  <2>5. ASSUME NEW s \in Seq(ToSet(results))
        PROVE  /\ Append(s, r) \in Seq(ToSet(results)) /\ Len(Append(s, r)) = Len(s) + 1
               /\ ToSet(Append(s, r)) = ToSet(s) \cup {r}
    BY <2>3, <2>5, AppendIsOneMore
  <2>6. 1..(n + 1) = (1..n) \cup {n + 1}
    BY <1>3
  <2> HIDE DEF r
  <2>7. NPassed(n + 1) = NPassed(n) + IF Passed(r) THEN 1 ELSE 0
    BY <1>4, <2>1 DEF r
  <2>11. AllLoad(n + 1)'
    BY <1>1, <1>3, <2>2, <2>6 DEF AllLoad, r
  <2>8. CASE Passed(r)
    <3>1. /\ passing_tests' \in Seq(ToSet(results)) /\ failing_tests' \in Seq(ToSet(results))
          /\ Len(passing_tests') = NPassed(n + 1)
          /\ Len(failing_tests') = (n + 1) - NPassed(n + 1)
      <4>1. passing_tests' = Append(passing_tests, r) /\ failing_tests' = failing_tests
        BY <2>2, <2>8
      <4>2. /\ passing_tests' \in Seq(ToSet(results)) /\ failing_tests' \in Seq(ToSet(results))
            /\ Len(passing_tests') = Len(passing_tests) + 1
        BY <2>4, <2>5, <4>1
      <4>3. NPassed(n + 1) = NPassed(n) + 1
        BY <1>4, <2>7, <2>8
      <4>4. QED
        BY <1>3, <1>4, <2>4, <4>1, <4>2, <4>3
    <3>2. ToSet(passing_tests') = {results[i] : i \in {k \in 1..(n + 1) : Passed(results[k])}}
      <4>1. {k \in 1..(n + 1) : Passed(results[k])}
              = {k \in 1..n : Passed(results[k])} \cup {n + 1}
        BY <2>6, <2>8 DEF r
      <4>2. ToSet(passing_tests') = ToSet(passing_tests) \cup {results[n + 1]}
        BY <2>2, <2>4, <2>5, <2>8 DEF r
      <4>3. QED
        BY <2>4, <4>1, <4>2
    <3>3. ToSet(failing_tests') = {results[i] : i \in {k \in 1..(n + 1) : ~Passed(results[k])}}
      <4>1. {k \in 1..(n + 1) : ~Passed(results[k])} = {k \in 1..n : ~Passed(results[k])}
        BY <2>6, <2>8 DEF r
      <4>2. QED
        BY <2>2, <2>4, <2>8, <4>1
    <3>4. Collected(n + 1)'
      BY <1>3, <3>1, <3>2, <3>3 DEF Collected, NPassed
    <3>5. QED
      BY <1>2, <1>3, <2>1, <2>2, <2>11, <3>4 DEF RepInv
  <2>9. CASE ~Passed(r)
    <3>1. /\ passing_tests' \in Seq(ToSet(results)) /\ failing_tests' \in Seq(ToSet(results))
          /\ Len(passing_tests') = NPassed(n + 1)
          /\ Len(failing_tests') = (n + 1) - NPassed(n + 1)
      <4>1. failing_tests' = Append(failing_tests, r) /\ passing_tests' = passing_tests
        BY <2>2, <2>9
      <4>2. /\ passing_tests' \in Seq(ToSet(results)) /\ failing_tests' \in Seq(ToSet(results))
            /\ Len(failing_tests') = Len(failing_tests) + 1
        BY <2>4, <2>5, <4>1
      <4>3. NPassed(n + 1) = NPassed(n)
        BY <1>4, <2>7, <2>9
      <4>4. QED
        BY <1>3, <1>4, <2>4, <4>1, <4>2, <4>3
    <3>2. ToSet(passing_tests') = {results[i] : i \in {k \in 1..(n + 1) : Passed(results[k])}}
      <4>1. {k \in 1..(n + 1) : Passed(results[k])} = {k \in 1..n : Passed(results[k])}
        BY <2>6, <2>9 DEF r
      <4>2. QED
        BY <2>2, <2>4, <2>9, <4>1
    <3>3. ToSet(failing_tests') = {results[i] : i \in {k \in 1..(n + 1) : ~Passed(results[k])}}
      <4>1. {k \in 1..(n + 1) : ~Passed(results[k])}
              = {k \in 1..n : ~Passed(results[k])} \cup {n + 1}
        BY <2>6, <2>9 DEF r
      <4>2. ToSet(failing_tests') = ToSet(failing_tests) \cup {results[n + 1]}
        BY <2>2, <2>4, <2>5, <2>9 DEF r
      <4>3. QED
        BY <2>4, <4>1, <4>2
    <3>4. Collected(n + 1)'
      BY <1>3, <3>1, <3>2, <3>3 DEF Collected, NPassed
    <3>5. QED
      BY <1>2, <1>3, <2>1, <2>2, <2>11, <3>4 DEF RepInv
  <2>10. QED
    BY <2>8, <2>9
<1>8. QED
  BY <1>6, <1>7

\* After the loop nothing that was collected changes, so neither does what is
\* computed from it.
LEMMA Kept ==
    ASSUME RepInv, rstep \notin {"collect", "unread"},
           UNCHANGED <<inputs, passing_tests, failing_tests>>
    PROVE  /\ Pickles' /\ Collected(Len(results)) /\ Collected(Len(results))'
           /\ AllLoad(Len(results))'
           /\ results' = results /\ svg_present' = svg_present
           /\ all_tests' = all_tests /\ gen_summary_line' = gen_summary_line
           /\ JunitCases' = JunitCases /\ JunitMerged' = JunitMerged
           /\ FailedRuns' = FailedRuns /\ SummaryText' = SummaryText
           /\ Len(results) \in 0..Len(results)
           /\ create_test_summary_dict(all_tests)' = create_test_summary_dict(all_tests)
           /\ {r \in ToSet(all_tests) : ~Passed(r)} = FailedRuns
<1>1. results' = results /\ svg_present' = svg_present
      /\ passing_tests' = passing_tests /\ failing_tests' = failing_tests
  BY DEF inputs
<1>2. Pickles /\ Pickles' /\ Collected(Len(results)) /\ AllLoad(Len(results))
      /\ Len(results) \in 0..Len(results)
  BY <1>1 DEF RepInv, Pickles
<1>3. Collected(Len(results))' /\ AllLoad(Len(results))'
  BY <1>1, <1>2 DEF Collected, NPassed, AllLoad
<1>4. all_tests' = all_tests /\ gen_summary_line' = gen_summary_line
  BY <1>1 DEF all_tests, gen_summary_line
<1>5. JunitCases' = JunitCases /\ JunitMerged' = JunitMerged
  BY <1>4 DEF JunitCases, JunitMerged
<1>6. FailedRuns' = FailedRuns /\ SummaryText' = SummaryText
  BY <1>1 DEF FailedRuns, SummaryText
<1>7. create_test_summary_dict(all_tests)' = create_test_summary_dict(all_tests)
  BY <1>4 DEF create_test_summary_dict
<1>8. {r \in ToSet(all_tests) : ~Passed(r)} = FailedRuns
  BY <1>2, AllCollected DEF FailedRuns
<1>9. QED
  BY <1>1, <1>2, <1>3, <1>4, <1>5, <1>6, <1>7, <1>8

\* The other steps: each writes one report and leaves the ones before it.
LEMMA RepInvStep ==
    ASSUME RepInv, [RepNext]_repVars
    PROVE  RepInv'
<1>1. CASE Collect
  BY <1>1, CollectStep
<1>2. CASE output_run_results_junit_xml
  <2>1. /\ rstep = "junit" /\ rstep' = "text"
        /\ UNCHANGED <<inputs, passing_tests, failing_tests>>
        /\ files' = [files EXCEPT !["junit"] = <<JunitCases, JunitMerged>>]
    BY <1>2 DEF output_run_results_junit_xml
  <2>2. DOMAIN files' = ReportNames /\ files'["junit"] = <<JunitCases, JunitMerged>>
    BY <2>1 DEF RepInv, ReportNames
  <2>3. QED
    BY <2>1, <2>2, Kept DEF RepInv, RepSteps
<1>3. CASE output_results_text
  <2>1. /\ rstep = "text" /\ rstep' = "cov"
        /\ UNCHANGED <<inputs, passing_tests, failing_tests>>
        /\ files' = [files EXCEPT !["text"] = <<gen_summary_line, SummaryText>>]
        /\ test_summary_dict' = create_test_summary_dict(all_tests)
    BY <1>3 DEF output_results_text, SummaryText
  <2>2. /\ DOMAIN files' = ReportNames /\ files'["junit"] = files["junit"]
        /\ files'["text"] = <<gen_summary_line, SummaryText>>
    BY <2>1 DEF RepInv, ReportNames
  <2>3. QED
    BY <2>1, <2>2, Kept DEF RepInv, RepSteps
<1>4. CASE create_cov_summary_dict
  <2>1. /\ rstep = "cov" /\ rstep' \in {"html", "raised"}
        /\ UNCHANGED <<inputs, passing_tests, failing_tests, test_summary_dict, files>>
    BY <1>4 DEF create_cov_summary_dict
  <2>2. QED
    BY <2>1, Kept DEF RepInv, RepSteps
<1>5. CASE output_results_html
  <2>1. /\ rstep = "html" /\ rstep' \in {"json", "raised"}
        /\ UNCHANGED <<inputs, passing_tests, failing_tests, test_summary_dict>>
        /\ rstep' = "json" =>
             files' = [files EXCEPT !["html"] = <<Totals, {r \in ToSet(all_tests) : ~Passed(r)}>>]
        /\ \E x : files' = [files EXCEPT !["html"] = x]
    BY <1>5 DEF output_results_html, Report
  <2>2. /\ DOMAIN files' = ReportNames
        /\ files'["junit"] = files["junit"] /\ files'["text"] = files["text"]
        /\ rstep' = "json" => files'["html"] = <<Totals, {r \in ToSet(all_tests) : ~Passed(r)}>>
    BY <2>1 DEF RepInv, ReportNames
  <2>3. Totals' = Totals
    BY <2>1 DEF Totals, TotalOf, MapThenSumSet, MapThenFoldSet
  <2>4. QED
    BY <2>1, <2>2, <2>3, Kept DEF RepInv, RepSteps
<1>6. CASE output_results_dvsim_json
  <2>1. /\ rstep = "json" /\ rstep' \in {"svg", "returned", "raised"}
        /\ UNCHANGED <<inputs, passing_tests, failing_tests, test_summary_dict>>
        /\ rstep' # "raised" => files' = [files EXCEPT !["json"] = JsonTable]
        /\ rstep' = "svg" => svg_present
        /\ rstep' = "returned" => ~svg_present
        /\ \E x : files' = [files EXCEPT !["json"] = x]
    BY <1>6 DEF output_results_dvsim_json, Report, JsonTable
  <2>2. /\ DOMAIN files' = ReportNames
        /\ files'["junit"] = files["junit"] /\ files'["text"] = files["text"]
        /\ files'["html"] = files["html"]
        /\ rstep' # "raised" => files'["json"] = JsonTable
    BY <2>1 DEF RepInv, ReportNames
  <2>3. Totals' = Totals /\ JsonTable' = JsonTable
    BY <2>1 DEF Totals, TotalOf, MapThenSumSet, MapThenFoldSet, JsonTable
  <2>4. QED
    BY <2>1, <2>2, <2>3, Kept DEF RepInv, RepSteps
<1>7. CASE output_results_svg
  <2>1. /\ rstep = "svg" /\ rstep' \in {"returned", "raised"}
        /\ UNCHANGED <<inputs, passing_tests, failing_tests, test_summary_dict>>
        /\ rstep' # "raised" => files' = [files EXCEPT !["svg"] = Totals]
        /\ \E x : files' = [files EXCEPT !["svg"] = x]
    BY <1>7 DEF output_results_svg, Report
  <2>2. /\ DOMAIN files' = ReportNames
        /\ files'["junit"] = files["junit"] /\ files'["text"] = files["text"]
        /\ files'["html"] = files["html"] /\ files'["json"] = files["json"]
        /\ rstep' # "raised" => files'["svg"] = Totals
    BY <2>1 DEF RepInv, ReportNames
  <2>3. Totals' = Totals /\ JsonTable' = JsonTable
    BY <2>1 DEF Totals, TotalOf, MapThenSumSet, MapThenFoldSet, JsonTable
  <2>4. QED
    BY <2>1, <2>2, <2>3, Kept DEF RepInv, RepSteps
<1>10. CASE CollectBroken
  <2>1. PICK n \in 0..Len(results) : Collected(n) /\ AllLoad(n)
    BY DEF RepInv
  <2>2. /\ rstep = "collect" /\ rstep' = "unread"
        /\ UNCHANGED <<inputs, passing_tests, failing_tests, test_summary_dict, files>>
    BY <1>10 DEF CollectBroken
  <2>3. \E i \in 1..Len(results) : ~Loads(results[i])
    <3>1. /\ Len(passing_tests) + Len(failing_tests) + 1 <= Len(results)
          /\ ~Loads(results[Len(passing_tests) + Len(failing_tests) + 1])
      BY <1>10 DEF CollectBroken
    <3>2. Len(passing_tests) \in Nat /\ Len(failing_tests) \in Nat /\ Len(results) \in Nat
      BY <2>1 DEF Collected, RepInv, Pickles
    <3>3. QED
      BY <3>1, <3>2
  <2>4. Pickles' /\ results' = results /\ Collected(n)' /\ AllLoad(n)'
    BY <2>1, <2>2 DEF RepInv, Pickles, Collected, NPassed, AllLoad, inputs
  <2>5. QED
    BY <2>1, <2>2, <2>3, <2>4 DEF RepInv, RepSteps
<1>8. CASE UNCHANGED repVars
  <2>1. UNCHANGED <<results, svg_present, passing_tests, failing_tests, test_summary_dict,
                    files, rstep>>
    BY <1>8 DEF repVars
  <2>2. Pickles' = Pickles /\ \A n \in 0..Len(results) :
                                 Collected(n)' = Collected(n) /\ AllLoad(n)' = AllLoad(n)
    BY <2>1 DEF Pickles, Collected, NPassed, AllLoad
  <2>3. all_tests' = all_tests /\ gen_summary_line' = gen_summary_line
        /\ Totals' = Totals /\ JsonTable' = JsonTable
        /\ FailedRuns' = FailedRuns /\ SummaryText' = SummaryText
    BY <2>1 DEF all_tests, gen_summary_line, Totals, TotalOf, MapThenSumSet,
                   MapThenFoldSet, JsonTable, FailedRuns, SummaryText
  <2>4. JunitCases' = JunitCases /\ JunitMerged' = JunitMerged
        /\ create_test_summary_dict(all_tests)' = create_test_summary_dict(all_tests)
    BY <2>3 DEF JunitCases, JunitMerged, create_test_summary_dict
  <2>5. QED
    BY <2>1, <2>2, <2>3, <2>4 DEF RepInv
<1>9. QED
  BY <1>1, <1>2, <1>3, <1>4, <1>5, <1>6, <1>7, <1>8, <1>10 DEF RepNext

\* What the invariant says of the reports when the script ends.
LEMMA RepInvAgrees ==
    ASSUME RepInv
    PROVE  ReportsFaithful
<1>11. BrokenPickleStops
  <2>1. Pickles /\ DOMAIN results = 1..Len(results) /\ DOMAIN files = ReportNames
    BY DEF RepInv, Pickles
  <2>2. rstep \notin {"collect", "unread"} => AllLoad(Len(results))
    BY DEF RepInv
  <2>3. QED
    BY <2>1, <2>2 DEF BrokenPickleStops, AllLoad, RepInv
<1>1. SUFFICES ASSUME rstep \in {"returned", "raised"} PROVE ReportsFaithful
  BY <1>11 DEF ReportsFaithful, ReportsAgree, LogSurvivesCoverage
<1> DEFINE n == Len(results)
           R == ToSet(results)
           passed == Cardinality({i \in DOMAIN results : Passed(results[i])})
           G == {r \in R : Passed(r)}
<1>2. Pickles /\ Collected(n)
  BY <1>1 DEF RepInv
<1>3. /\ ToSet(all_tests) = R /\ n \in Nat /\ IsFiniteSet(R) /\ Cardinality(R) = n
      /\ passed \in Nat /\ passed <= n
      /\ gen_summary_line = <<passed, n - passed>>
      /\ Cardinality(G) = passed /\ Cardinality(FailedRuns) = n - passed
  BY <1>2, AllCollected
<1>4. /\ files["junit"] = <<JunitCases, JunitMerged>>
      /\ files["text"] = <<gen_summary_line, SummaryText>>
      /\ test_summary_dict = create_test_summary_dict(all_tests)
  BY <1>1 DEF RepInv
<1>5. \A r, q \in R : r.seed = q.seed => r = q
  BY <1>2 DEF Pickles, ToSet
<1> HIDE DEF R, n, passed, G
<1>6. Cardinality(SummaryText) = n
  <2> DEFINE g == [r \in R |-> SummaryLine(r)]
  <2>1. DOMAIN g = R /\ g = [x \in R |-> g[x]]
    OBVIOUS
  <2>2. \A x, y \in R : g[x] = g[y] => x = y
    BY <1>5 DEF SummaryLine
  <2>3. SummaryText = {g[x] : x \in R}
    BY DEF SummaryText, R
  <2> HIDE DEF g
  <2>4. Cardinality({g[x] : x \in R}) = n
    BY <1>3, <2>1, <2>2, AsMany
  <2>5. QED
    BY <2>3, <2>4
<1>7. /\ Cardinality(JunitCases) = n
      /\ Cardinality({c \in JunitCases : ~c.failed}) = passed
  <2> DEFINE case(r) == [test |-> r.test, seed |-> r.seed, failed |-> ~Passed(r)]
             g == [r \in R |-> case(r)]
             h == [r \in G |-> case(r)]
  <2>1. /\ DOMAIN g = R /\ g = [x \in R |-> g[x]]
        /\ DOMAIN h = G /\ h = [x \in G |-> h[x]]
    OBVIOUS
  <2>2. /\ \A x, y \in R : g[x] = g[y] => x = y
        /\ \A x, y \in G : h[x] = h[y] => x = y
    <3>1. \A x, y \in R : case(x) = case(y) => x.seed = y.seed
      OBVIOUS
    <3>2. \A x \in G : x \in R
      BY DEF G
    <3> HIDE DEF case
    <3>3. QED
      BY <1>5, <3>1, <3>2
  <2>3. JunitCases = {g[x] : x \in R}
    BY <1>3 DEF JunitCases
  <2>4. {c \in JunitCases : ~c.failed} = {h[x] : x \in G}
    <3>1. JunitCases = {case(r) : r \in R}
      BY <1>3 DEF JunitCases
    <3>2. \A r \in R : case(r).failed = ~Passed(r)
      OBVIOUS
    <3> HIDE DEF case
    <3>3. QED
      BY <3>1, <3>2 DEF G
  <2>5. IsFiniteSet(G)
    BY <1>3, FS_Subset DEF G
  <2> HIDE DEF g, h
  <2>6. Cardinality({g[x] : x \in R}) = n /\ Cardinality({h[x] : x \in G}) = passed
    BY <1>3, <2>1, <2>2, <2>5, AsMany
  <2>7. QED
    BY <2>3, <2>4, <2>6
<1>8. LogSurvivesCoverage
  <2>1. files.text # <<>> /\ files.text[2] = SummaryText /\ files.junit # <<>> /\ files.junit[1] = JunitCases
    BY <1>4
  <2>2. QED
    BY <1>7, <2>1 DEF LogSurvivesCoverage, SummaryText, n
<1>9. ASSUME rstep = "returned" PROVE ReportsAgree
  <2>1. /\ files["html"] = <<Totals, FailedRuns>>
        /\ files["json"] = JsonTable
        /\ svg_present => files["svg"] = Totals
    BY <1>9 DEF RepInv
  <2> DEFINE D == {r.test : r \in R}
             count(t, ok) == Cardinality({r \in R : r.test = t /\ Passed(r) = ok})
  <2>2. test_summary_dict = [t \in D |-> [passing |-> count(t, TRUE), failing |-> count(t, FALSE)]]
    BY <1>3, <1>4 DEF create_test_summary_dict
  <2>3. IsFiniteSet(D)
    <3> DEFINE g == [r \in R |-> r.test]
    <3>1. g \in Surjection(R, D)
      BY DEF Surjection
    <3>2. QED
      BY <1>3, <3>1, FS_Surjection
  <2>4. \A r \in R : r.test \in D
    OBVIOUS
  <2>5. ASSUME NEW t \in D
        PROVE  /\ test_summary_dict[t].passing = Cardinality({r \in G : r.test = t})
               /\ test_summary_dict[t].failing = Cardinality({r \in FailedRuns : r.test = t})
               /\ Cardinality({r \in R : r.test = t})
                    = test_summary_dict[t].passing + test_summary_dict[t].failing
    <3> DEFINE A == {r \in G : r.test = t}
               B == {r \in FailedRuns : r.test = t}
    <3>1. /\ A = {r \in R : r.test = t /\ Passed(r) = TRUE}
          /\ B = {r \in R : r.test = t /\ Passed(r) = FALSE}
          /\ A \cup B = {r \in R : r.test = t} /\ A \cap B = {}
      BY DEF G, FailedRuns, R, Passed
    <3>2. IsFiniteSet(A) /\ IsFiniteSet(B)
      <4>1. A \in SUBSET R /\ B \in SUBSET R
        BY <3>1
      <4>2. QED
        BY <1>3, <4>1, FS_Subset
    <3>3. Cardinality(A) \in Nat /\ Cardinality(B) \in Nat
      BY <3>2, FS_CardinalityType
    <3>4. Cardinality(A \cup B) = Cardinality(A) + Cardinality(B) - Cardinality(A \cap B)
      BY <3>2, FS_Union
    <3>5. Cardinality(A \cap B) = 0
      BY <3>1, FS_EmptySet
    <3>6. test_summary_dict[t].passing = Cardinality(A)
          /\ test_summary_dict[t].failing = Cardinality(B)
      BY <2>2, <3>1
    <3> HIDE DEF A, B
    <3>7. Cardinality(A \cup B) = Cardinality(A) + Cardinality(B)
      BY <3>3, <3>4, <3>5
    <3>8. QED
      BY <3>1, <3>6, <3>7 DEF A, B
  <2>6. DOMAIN test_summary_dict = D
    BY <2>2
  <2> HIDE DEF D, count
  <2>7. IsFiniteSet(G) /\ IsFiniteSet(FailedRuns) /\ G \subseteq R /\ FailedRuns \subseteq R
    BY <1>3, FS_Subset DEF G, FailedRuns, R
  <2>8. TotalOf("passing") = passed /\ TotalOf("failing") = n - passed
    <3>1. ColumnSum(test_summary_dict, "passing") = Cardinality(G)
      <4>1. Tabulated(test_summary_dict, "passing", G)
        BY <2>3, <2>4, <2>5, <2>6, <2>7 DEF Tabulated
      <4>2. QED
        BY <4>1, SumOfRuns
    <3>2. ColumnSum(test_summary_dict, "failing") = Cardinality(FailedRuns)
      <4>1. Tabulated(test_summary_dict, "failing", FailedRuns)
        BY <2>3, <2>4, <2>5, <2>6, <2>7 DEF Tabulated
      <4>2. QED
        BY <4>1, SumOfRuns
    <3>3. QED
      BY <1>3, <3>1, <3>2 DEF TotalOf, ColumnSum
  <2>9. Totals = <<passed, n>>
    BY <1>3, <2>8 DEF Totals
  <2>10. /\ DOMAIN JsonTable = D
         /\ \A t \in D : /\ JsonTable[t][1] = Cardinality({r \in G : r.test = t})
                         /\ JsonTable[t][2] = Cardinality({r \in R : r.test = t})
    BY <2>5, <2>6 DEF JsonTable
  <2>11. /\ ColumnSum(JsonTable, 1) = passed
         /\ ColumnSum(JsonTable, 2) = n
    <3>1. ColumnSum(JsonTable, 1) = Cardinality(G)
      <4>1. Tabulated(JsonTable, 1, G)
        BY <2>3, <2>4, <2>7, <2>10 DEF Tabulated
      <4>2. QED
        BY <4>1, SumOfRuns
    <3>2. ColumnSum(JsonTable, 2) = Cardinality(R)
      <4>1. Tabulated(JsonTable, 2, R)
        BY <1>3, <2>3, <2>4, <2>10 DEF Tabulated
      <4>2. QED
        BY <4>1, SumOfRuns
    <3>3. QED
      BY <1>3, <3>1, <3>2
  <2>12. ReturnCode = 0 <=> \A t \in DOMAIN JunitMerged : ~JunitMerged[t]
    <3>1. ReturnCode = 0 <=> FailedRuns = {}
      <4>1. failing_tests \in Seq(R) /\ Len(failing_tests) = n - passed
        BY <1>2, <1>3 DEF Collected, R, gen_summary_line
      <4>2. failing_tests = <<>> <=> n - passed = 0
        BY <4>1
      <4>3. n - passed = 0 <=> FailedRuns = {}
        BY <1>3, <2>7, FS_EmptySet
      <4>4. QED
        BY <4>2, <4>3 DEF ReturnCode
    <3>2. /\ DOMAIN JunitMerged = {r.test : r \in R}
          /\ \A t \in DOMAIN JunitMerged : JunitMerged[t] <=> \E r \in R : r.test = t /\ ~Passed(r)
      BY <1>3 DEF JunitMerged
    <3>3. (\A t \in DOMAIN JunitMerged : ~JunitMerged[t]) <=> FailedRuns = {}
      BY <3>2 DEF FailedRuns, R
    <3>4. QED
      BY <3>1, <3>3
  <2>13. /\ files.text[1] = <<passed, n - passed>> /\ files.text[2] = SummaryText
         /\ files.junit[1] = JunitCases /\ files.junit[2] = JunitMerged
         /\ files.html[1] = <<passed, n>> /\ files.html[2] = FailedRuns
         /\ files.json = JsonTable /\ (svg_present => files.svg = <<passed, n>>)
    BY <1>3, <1>4, <2>1, <2>9
  <2>14. <<MapThenSumSet(LAMBDA t : files.json[t][1], DOMAIN files.json),
           MapThenSumSet(LAMBDA t : files.json[t][2], DOMAIN files.json)>> = <<passed, n>>
    BY <2>11, <2>13 DEF ColumnSum
  <2>15. QED
    BY <1>3, <1>6, <1>7, <2>12, <2>13, <2>14 DEF ReportsAgree, n, passed
<1>10. QED
  BY <1>1, <1>8, <1>9, <1>11 DEF ReportsFaithful, ReportsAgree

\* For every number of pickles and every coverage report: the reports of
\* collect_results.py count the runs that passed and failed in the pickles, the
\* return code goes with them, regr.log and JUnit are there with every run,
\* and a pickle that does not load leaves no report that misses its run.
THEOREM ReportsAlwaysFaithful == RepSpec => []ReportsFaithful
<1>1. RepInit => RepInv
  <2> SUFFICES ASSUME RepInit PROVE RepInv
    OBVIOUS
  <2>1. PICK n \in 1..MaxRuns : \E t \in [1..n -> ReportTests], o \in [1..n -> Outcomes] :
            results = [i \in 1..n |-> [test |-> t[i], seed |-> i, outcome |-> o[i]]]
    BY DEF RepInit, Outcomes
  <2>2. PICK t \in [1..n -> ReportTests], o \in [1..n -> Outcomes] :
            results = [i \in 1..n |-> [test |-> t[i], seed |-> i, outcome |-> o[i]]]
    BY <2>1
  <2>3. n \in Nat
    BY ReportsAssumption
  <2>4. Pickles
    BY <2>2, <2>3 DEF Pickles, Outcomes
  <2>5. passing_tests = <<>> /\ failing_tests = <<>> /\ rstep = "collect"
        /\ DOMAIN files = ReportNames /\ \A f \in ReportNames : files[f] = <<>>
    BY DEF RepInit, ReportNames
  <2>6. 0 \in 0..Len(results) /\ NPassed(0) = 0
    BY <2>4, NPassedStep DEF Pickles
  <2>7. Collected(0)
    <3>1. ToSet(<<>>) = {} /\ <<>> \in Seq(ToSet(results)) /\ Len(<<>>) = 0
      BY DEF ToSet
    <3>2. {k \in 1..0 : Passed(results[k])} = {} /\ {k \in 1..0 : ~Passed(results[k])} = {}
      OBVIOUS
    <3>3. QED
      BY <2>5, <2>6, <3>1, <3>2 DEF Collected
  <2>8. QED
    BY <2>4, <2>5, <2>6, <2>7 DEF RepInv, RepSteps, AllLoad
<1>2. RepInv /\ [RepNext]_repVars => RepInv'
  BY RepInvStep
<1>3. RepInv => ReportsFaithful
  BY RepInvAgrees
<1>4. QED
  BY <1>1, <1>2, <1>3, PTL DEF RepSpec

-----------------------------------------------------------------------------
(* Induction and flattened lists.                                           *)

\* Induction over the naturals, for a set instead of a predicate.
LEMMA NatSetInduction ==
    ASSUME NEW P, 0 \in P, \A n \in Nat : n \in P => n + 1 \in P
    PROVE  Nat \subseteq P
<1>1. SUFFICES ASSUME Nat \ P # {} PROVE FALSE
  OBVIOUS
<1>2. PICK n \in Nat \ P : \A m \in Nat \ P : ~(<<m, n>> \in OpToRel(<, Nat))
  <2>1. Nat \ P \subseteq Nat
    OBVIOUS
  <2>2. QED
    BY <1>1, <2>1, NatLessThanWellFounded, WFMin, Zenon
<1>3. \A m \in Nat \ P : <<m, n>> \in OpToRel(<, Nat) <=> m < n
  BY DEF OpToRel
<1>4. \A m \in Nat \ P : ~(m < n)
  BY <1>2, <1>3, Zenon
<1>5. n # 0 /\ n - 1 \in Nat /\ (n - 1) + 1 = n /\ n - 1 < n
  <2>1. n \in Nat /\ n # 0
    OBVIOUS
  <2>2. QED
    BY <2>1
<1>6. n - 1 \in P
  BY <1>4, <1>5
<1>7. QED
  BY <1>2, <1>5, <1>6

\* Induction over sequences: every sequence is empty or one element longer.
LEMMA SeqSetInduction ==
    ASSUME NEW E, NEW P, <<>> \in P,
           \A s \in Seq(E), e \in E : s \in P => Append(s, e) \in P
    PROVE  Seq(E) \subseteq P
<1> DEFINE Q == {n \in Nat : \A s \in Seq(E) : Len(s) = n => s \in P}
<1>1. 0 \in Q
  <2>1. \A s \in Seq(E) : Len(s) = 0 => s = <<>>
    OBVIOUS
  <2>2. QED
    BY <2>1
<1>2. ASSUME NEW n \in Nat, n \in Q PROVE n + 1 \in Q
  <2>1. SUFFICES ASSUME NEW s \in Seq(E), Len(s) = n + 1 PROVE s \in P
    OBVIOUS
  <2> DEFINE t == [i \in 1..n |-> s[i]]
  <2>2. t \in Seq(E) /\ Len(t) = n
    BY <2>1
  <2>3. s[n + 1] \in E
    BY <2>1
  <2>4. s = Append(t, s[n + 1])
    BY <2>1, <2>2, <2>3
  <2> HIDE DEF t
  <2>5. t \in P
    BY <1>2, <2>2
  <2>6. QED
    BY <2>2, <2>3, <2>4, <2>5
<1> HIDE DEF Q
<1>3. Nat \subseteq Q
  BY <1>1, <1>2, NatSetInduction
<1>4. QED
  BY <1>3 DEF Q

\* The recursion inside FlattenSeq.
FlatStep(ss, f) == f = [i \in 1..Len(ss) |-> IF i = 1 THEN ss[i] ELSE f[i - 1] \o ss[i]]

\* The recursion of FlattenSeq has a solution.
LEMMA FlatExists ==
    ASSUME NEW ss, Len(ss) \in Nat
    PROVE  \E f : FlatStep(ss, f)
<1> DEFINE Upto(n, f) == f = [i \in 1..n |-> IF i = 1 THEN ss[i] ELSE f[i - 1] \o ss[i]]
           P == {n \in Nat : \E f : Upto(n, f)}
<1>1. 0 \in P
  <2> DEFINE f == [i \in 1..0 |-> ss]
  <2>1. Upto(0, f)
    OBVIOUS
  <2> HIDE DEF f, Upto
  <2>2. QED
    BY <2>1
<1>2. ASSUME NEW n \in Nat, n \in P PROVE n + 1 \in P
  <2>1. PICK f : Upto(n, f)
    BY <1>2
  <2> DEFINE g == [i \in 1..(n + 1) |-> IF i \in 1..n THEN f[i]
                                        ELSE IF i = 1 THEN ss[i] ELSE f[i - 1] \o ss[i]]
  <2>2. ASSUME NEW i \in 1..(n + 1)
        PROVE  g[i] = IF i = 1 THEN ss[i] ELSE g[i - 1] \o ss[i]
    <3>1. i # 1 => i - 1 \in 1..n /\ i - 1 \in 1..(n + 1)
      OBVIOUS
    <3>2. i # 1 => g[i - 1] = f[i - 1]
      BY <3>1
    <3>3. i \in 1..n => f[i] = IF i = 1 THEN ss[i] ELSE f[i - 1] \o ss[i]
      BY <2>1
    <3>4. QED
      BY <3>2, <3>3
  <2>3. g = [i \in 1..(n + 1) |-> g[i]]
    OBVIOUS
  <2> HIDE DEF g
  <2>4. Upto(n + 1, g)
    BY <2>2, <2>3
  <2>5. n + 1 \in Nat
    OBVIOUS
  <2> HIDE DEF Upto
  <2>6. QED
    BY <2>4, <2>5
<1> HIDE DEF P
<1>3. Nat \subseteq P
  BY <1>1, <1>2, NatSetInduction
<1>4. QED
  BY <1>3 DEF P, FlatStep

\* What it computes: one list after the other.
LEMMA FlatEmpty == FlattenSeq(<<>>) = <<>>
  BY DEF FlattenSeq

\* FlattenSeq is the last value of some solution.
LEMMA FlatChosen ==
    ASSUME NEW ss, Len(ss) \in Nat, Len(ss) # 0
    PROVE  \E f : FlatStep(ss, f) /\ FlattenSeq(ss) = f[Len(ss)]
<1> DEFINE f == CHOOSE g : g = [i \in 1..Len(ss) |-> IF i = 1 THEN ss[i] ELSE g[i - 1] \o ss[i]]
<1>1. FlatStep(ss, f)
  <2>1. \E g : FlatStep(ss, g)
    BY FlatExists
  <2>2. QED
    BY <2>1, Zenon DEF FlatStep
<1>2. FlattenSeq(ss) = f[Len(ss)]
  BY Zenon DEF FlattenSeq
<1> HIDE DEF f
<1>3. QED
  BY <1>1, <1>2

\* Two lists, one longer, with the same first pieces: their solutions agree on
\* them, so a list has one solution.
LEMMA FlatUnique ==
    ASSUME NEW E, NEW ss \in Seq(Seq(E)), NEW tt \in Seq(Seq(E)), Len(ss) <= Len(tt),
           \A i \in 1..Len(ss) : tt[i] = ss[i],
           NEW f, FlatStep(ss, f), NEW g, FlatStep(tt, g)
    PROVE  \A i \in 1..Len(ss) : f[i] = g[i] /\ f[i] \in Seq(E)
<1> DEFINE P == {n \in Nat : n \in 1..Len(ss) => f[n] = g[n] /\ f[n] \in Seq(E)}
<1>1. 0 \in P
  OBVIOUS
<1>2. ASSUME NEW n \in Nat, n \in P PROVE n + 1 \in P
  <2>1. SUFFICES ASSUME n + 1 \in 1..Len(ss)
                 PROVE  f[n + 1] = g[n + 1] /\ f[n + 1] \in Seq(E)
    OBVIOUS
  <2>2. n + 1 \in 1..Len(tt) /\ tt[n + 1] = ss[n + 1] /\ ss[n + 1] \in Seq(E)
    BY <2>1
  <2>3. /\ f[n + 1] = IF n + 1 = 1 THEN ss[n + 1] ELSE f[(n + 1) - 1] \o ss[n + 1]
        /\ g[n + 1] = IF n + 1 = 1 THEN tt[n + 1] ELSE g[(n + 1) - 1] \o tt[n + 1]
    BY <2>1, <2>2 DEF FlatStep
  <2>4. n = 0 \/ (n \in 1..Len(ss) /\ (n + 1) - 1 = n /\ n + 1 # 1)
    BY <2>1
  <2>5. CASE n = 0
    BY <2>2, <2>3, <2>5
  <2>6. CASE n \in 1..Len(ss) /\ (n + 1) - 1 = n /\ n + 1 # 1
    <3>1. f[n] = g[n] /\ f[n] \in Seq(E)
      BY <1>2, <2>6
    <3>2. f[n] \o ss[n + 1] \in Seq(E)
      BY <2>2, <3>1
    <3>3. QED
      BY <2>2, <2>3, <2>6, <3>1, <3>2
  <2>7. QED
    BY <2>4, <2>5, <2>6
<1> HIDE DEF P
<1>3. Nat \subseteq P
  BY <1>1, <1>2, NatSetInduction
<1>4. QED
  BY <1>3 DEF P

\* FlattenSeq of a list with one more piece.
LEMMA FlatAppend ==
    ASSUME NEW E, NEW ss \in Seq(Seq(E)), NEW t \in Seq(E)
    PROVE  /\ FlattenSeq(Append(ss, t)) = FlattenSeq(ss) \o t
           /\ FlattenSeq(ss) \in Seq(E)
<1> DEFINE tt == Append(ss, t)
           n == Len(ss)
<1>1. /\ tt \in Seq(Seq(E)) /\ Len(tt) = n + 1 /\ n \in Nat
      /\ \A i \in 1..n : tt[i] = ss[i]
      /\ tt[n + 1] = t
  OBVIOUS
<1> HIDE DEF tt
<1>2. PICK g : FlatStep(tt, g) /\ FlattenSeq(tt) = g[n + 1]
  BY <1>1, FlatChosen
<1>3. g[n + 1] = IF n + 1 = 1 THEN tt[n + 1] ELSE g[(n + 1) - 1] \o tt[n + 1]
  <2>1. n + 1 \in 1..Len(tt)
    BY <1>1
  <2>2. \A i \in 1..Len(tt) : g[i] = IF i = 1 THEN tt[i] ELSE g[i - 1] \o tt[i]
    BY <1>2 DEF FlatStep
  <2>3. QED
    BY <2>1, <2>2
<1>4. CASE n = 0
  <2>1. ss = <<>> /\ FlattenSeq(ss) = <<>>
    BY <1>4, FlatEmpty
  <2>2. FlattenSeq(tt) = t
    BY <1>1, <1>2, <1>3, <1>4
  <2>3. <<>> \o t = t /\ <<>> \in Seq(E)
    OBVIOUS
  <2>4. QED
    BY <2>1, <2>2, <2>3 DEF tt
<1>5. CASE n # 0
  <2>1. PICK f : FlatStep(ss, f) /\ FlattenSeq(ss) = f[n]
    BY <1>1, <1>5, FlatChosen
  <2>2. f[n] = g[n] /\ f[n] \in Seq(E)
    <3>1. n \in 1..n /\ n <= n + 1
      BY <1>1, <1>5
    <3>2. \A i \in 1..Len(ss) : f[i] = g[i] /\ f[i] \in Seq(E)
      BY <1>1, <1>2, <2>1, <3>1, FlatUnique
    <3>3. QED
      BY <3>1, <3>2
  <2>3. n + 1 # 1 /\ (n + 1) - 1 = n
    BY <1>1, <1>5
  <2>4. QED
    BY <1>1, <1>2, <1>3, <2>1, <2>2, <2>3 DEF tt
<1>6. QED
  BY <1>4, <1>5

\* FlattenSeq makes a sequence of the elements of the pieces.
LEMMA FlatType ==
    ASSUME NEW E, NEW ss \in Seq(Seq(E))
    PROVE  FlattenSeq(ss) \in Seq(E)
<1>1. <<>> \in Seq(E)
  OBVIOUS
<1>2. QED
  BY <1>1, FlatAppend

\* Flattening two lists of lists, one after the other.
LEMMA FlatConcat ==
    ASSUME NEW E, NEW ss \in Seq(Seq(E)), NEW tt \in Seq(Seq(E))
    PROVE  FlattenSeq(ss \o tt) = FlattenSeq(ss) \o FlattenSeq(tt)
<1> DEFINE P == {u \in Seq(Seq(E)) : FlattenSeq(ss \o u) = FlattenSeq(ss) \o FlattenSeq(u)}
<1>1. <<>> \in P
  <2>1. ss \o <<>> = ss /\ <<>> \in Seq(Seq(E))
    OBVIOUS
  <2>2. FlattenSeq(ss) \o <<>> = FlattenSeq(ss)
    BY FlatType
  <2>3. QED
    BY <2>1, <2>2, FlatEmpty
<1>2. ASSUME NEW u \in Seq(Seq(E)), NEW e \in Seq(E), u \in P
      PROVE  Append(u, e) \in P
  <2>1. ss \o Append(u, e) = Append(ss \o u, e) /\ ss \o u \in Seq(Seq(E))
        /\ Append(u, e) \in Seq(Seq(E))
    OBVIOUS
  <2>2. FlattenSeq(Append(ss \o u, e)) = FlattenSeq(ss \o u) \o e
        /\ FlattenSeq(Append(u, e)) = FlattenSeq(u) \o e
    BY <2>1, FlatAppend
  <2>3. FlattenSeq(ss \o u) = FlattenSeq(ss) \o FlattenSeq(u)
    BY <1>2
  <2>4. FlattenSeq(ss) \in Seq(E) /\ FlattenSeq(u) \in Seq(E)
    BY FlatType
  <2>5. (FlattenSeq(ss) \o FlattenSeq(u)) \o e = FlattenSeq(ss) \o (FlattenSeq(u) \o e)
    BY <2>4, ConcatAssociative, SMTT(30)
  <2>6. QED
    BY <2>1, <2>2, <2>3, <2>5
<1> HIDE DEF P
<1>3. Seq(Seq(E)) \subseteq P
  BY <1>1, <1>2, SeqSetInduction
<1>4. QED
  BY <1>3 DEF P

\* Only the empty sequence has no elements.
LEMMA NoElements ==
    ASSUME NEW E, NEW s \in Seq(E)
    PROVE  ToSet(s) = {} <=> s = <<>>
<1>1. ASSUME s # <<>> PROVE ToSet(s) # {}
  <2>1. 1 \in DOMAIN s
    BY <1>1
  <2>2. QED
    BY <2>1 DEF ToSet
<1>2. ToSet(<<>>) = {}
  BY DEF ToSet
<1>3. QED
  BY <1>1, <1>2

\* The elements of a sequence, by position.
LEMMA ElementsOf ==
    ASSUME NEW E, NEW s \in Seq(E)
    PROVE  /\ ToSet(s) = {s[i] : i \in 1..Len(s)} /\ Len(s) \in Nat
           /\ \A i \in 1..Len(s) : s[i] \in E /\ s[i] \in ToSet(s)
<1>1. DOMAIN s = 1..Len(s) /\ Len(s) \in Nat /\ \A i \in 1..Len(s) : s[i] \in E
  OBVIOUS
<1>2. QED
  BY <1>1 DEF ToSet

\* A sequence made of two others.
LEMMA TwoPieces ==
    ASSUME NEW E, NEW a \in Seq(E), NEW b \in Seq(E), NEW c \in Seq(E),
           Len(c) = Len(a) + Len(b),
           \A i \in 1..Len(a) : c[i] = a[i],
           \A i \in 1..Len(b) : c[Len(a) + i] = b[i]
    PROVE  c = a \o b
<1> DEFINE d == a \o b
<1>1. /\ d \in Seq(E) /\ Len(d) = Len(a) + Len(b)
      /\ Len(a) \in Nat /\ Len(b) \in Nat
      /\ \A i \in 1..Len(a) : d[i] = a[i]
      /\ \A i \in 1..Len(b) : d[Len(a) + i] = b[i]
  BY ConcatProperties
<1> HIDE DEF d
<1>2. ASSUME NEW i \in 1..Len(c) PROVE c[i] = d[i]
  <2>1. i \in 1..Len(a) \/ (i - Len(a) \in 1..Len(b) /\ Len(a) + (i - Len(a)) = i)
    BY <1>1
  <2>2. CASE i \in 1..Len(a)
    BY <1>1, <2>2
  <2>3. CASE i - Len(a) \in 1..Len(b) /\ Len(a) + (i - Len(a)) = i
    BY <1>1, <2>3
  <2>4. QED
    BY <2>1, <2>2, <2>3
<1>3. c = d
  BY <1>1, <1>2
<1>4. QED
  BY <1>3 DEF d

\* The elements of a concatenation.
LEMMA ConcatSet ==
    ASSUME NEW E, NEW s \in Seq(E), NEW t \in Seq(E)
    PROVE  ToSet(s \o t) = ToSet(s) \cup ToSet(t)
<1>1. /\ s \o t \in Seq(E) /\ Len(s \o t) = Len(s) + Len(t)
      /\ Len(s) \in Nat /\ Len(t) \in Nat
      /\ \A i \in 1..Len(s) : (s \o t)[i] = s[i]
      /\ \A i \in 1..Len(t) : (s \o t)[Len(s) + i] = t[i]
  BY ConcatProperties
<1>2. /\ ToSet(s) = {s[i] : i \in 1..Len(s)} /\ ToSet(t) = {t[i] : i \in 1..Len(t)}
      /\ ToSet(s \o t) = {(s \o t)[i] : i \in 1..(Len(s) + Len(t))}
  <2>1. DOMAIN s = 1..Len(s) /\ DOMAIN t = 1..Len(t) /\ DOMAIN (s \o t) = 1..(Len(s) + Len(t))
    BY <1>1
  <2>2. QED
    BY <2>1 DEF ToSet
<1>3. \A i \in 1..(Len(s) + Len(t)) :
         i \in 1..Len(s) \/ (i - Len(s) \in 1..Len(t) /\ Len(s) + (i - Len(s)) = i)
  BY <1>1
<1>4. /\ \A i \in 1..Len(s) : i \in 1..(Len(s) + Len(t))
      /\ \A i \in 1..Len(t) : Len(s) + i \in 1..(Len(s) + Len(t))
  BY <1>1
<1>5. ToSet(s \o t) \subseteq ToSet(s) \cup ToSet(t)
  <2>1. ASSUME NEW i \in 1..(Len(s) + Len(t)) PROVE (s \o t)[i] \in ToSet(s) \cup ToSet(t)
    BY <1>1, <1>2, <1>3
  <2>2. QED
    BY <1>2, <2>1
<1>6. ToSet(s) \cup ToSet(t) \subseteq ToSet(s \o t)
  BY <1>1, <1>2, <1>4
<1>7. QED
  BY <1>5, <1>6

\* The elements of a flattened list.
LEMMA FlatSet ==
    ASSUME NEW E, NEW ss \in Seq(Seq(E))
    PROVE  ToSet(FlattenSeq(ss)) = UNION {ToSet(ss[i]) : i \in 1..Len(ss)}
<1> DEFINE U(u) == UNION {ToSet(u[i]) : i \in 1..Len(u)}
           P == {u \in Seq(Seq(E)) : ToSet(FlattenSeq(u)) = U(u)}
<1>1. <<>> \in P
  <2>1. U(<<>>) = {} /\ ToSet(<<>>) = {} /\ <<>> \in Seq(Seq(E))
    BY DEF ToSet
  <2>2. QED
    BY <2>1, FlatEmpty
<1>2. ASSUME NEW u \in Seq(Seq(E)), NEW e \in Seq(E), u \in P
      PROVE  Append(u, e) \in P
  <2>1. /\ Append(u, e) \in Seq(Seq(E)) /\ Len(Append(u, e)) = Len(u) + 1 /\ Len(u) \in Nat
        /\ \A i \in 1..Len(u) : Append(u, e)[i] = u[i]
        /\ Append(u, e)[Len(u) + 1] = e
    OBVIOUS
  <2>2. 1..(Len(u) + 1) = (1..Len(u)) \cup {Len(u) + 1}
    BY <2>1
  <2>3. U(Append(u, e)) = U(u) \cup ToSet(e)
    BY <2>1, <2>2
  <2>4. ToSet(FlattenSeq(Append(u, e))) = ToSet(FlattenSeq(u)) \cup ToSet(e)
    <3>1. FlattenSeq(Append(u, e)) = FlattenSeq(u) \o e /\ FlattenSeq(u) \in Seq(E)
      BY FlatAppend
    <3>2. ToSet(FlattenSeq(u) \o e) = ToSet(FlattenSeq(u)) \cup ToSet(e)
      BY <3>1, ConcatSet
    <3>3. QED
      BY <3>1, <3>2
  <2>5. QED
    BY <1>2, <2>1, <2>3, <2>4
<1> HIDE DEF P
<1>3. Seq(Seq(E)) \subseteq P
  BY <1>1, <1>2, SeqSetInduction
<1>4. QED
  BY <1>3 DEF P

\* No element twice: neither in one list nor in two of them.
Apart(ss) ==
    \A i, j \in 1..Len(ss) : \A k \in 1..Len(ss[i]), l \in 1..Len(ss[j]) :
        ss[i][k] = ss[j][l] => i = j /\ k = l
Once(s) == \A i, j \in 1..Len(s) : s[i] = s[j] => i = j

\* Two sequences without repetition that share nothing.
LEMMA ConcatOnce ==
    ASSUME NEW E, NEW s \in Seq(E), NEW t \in Seq(E),
           Once(s), Once(t), ToSet(s) \cap ToSet(t) = {}
    PROVE  Once(s \o t)
<1>1. /\ Len(s \o t) = Len(s) + Len(t) /\ Len(s) \in Nat /\ Len(t) \in Nat
      /\ \A i \in 1..Len(s) : (s \o t)[i] = s[i] /\ s[i] \in ToSet(s)
      /\ \A i \in 1..Len(t) : (s \o t)[Len(s) + i] = t[i] /\ t[i] \in ToSet(t)
  BY ConcatProperties DEF ToSet
<1>2. SUFFICES ASSUME NEW i \in 1..(Len(s) + Len(t)), NEW j \in 1..(Len(s) + Len(t)),
                      (s \o t)[i] = (s \o t)[j]
               PROVE  i = j
  BY <1>1 DEF Once
<1>3. /\ i \in 1..Len(s) \/ (i - Len(s) \in 1..Len(t) /\ Len(s) + (i - Len(s)) = i)
      /\ j \in 1..Len(s) \/ (j - Len(s) \in 1..Len(t) /\ Len(s) + (j - Len(s)) = j)
  BY <1>1
<1>4. CASE i \in 1..Len(s) /\ j \in 1..Len(s)
  BY <1>1, <1>2, <1>4 DEF Once
<1>5. CASE i \in 1..Len(s) /\ j \notin 1..Len(s)
  BY <1>1, <1>2, <1>3, <1>5
<1>6. CASE i \notin 1..Len(s) /\ j \in 1..Len(s)
  BY <1>1, <1>2, <1>3, <1>6
<1>7. CASE i \notin 1..Len(s) /\ j \notin 1..Len(s)
  <2>1. i - Len(s) = j - Len(s)
    BY <1>1, <1>2, <1>3, <1>7 DEF Once
  <2>2. QED
    BY <1>1, <2>1
<1>8. QED
  BY <1>4, <1>5, <1>6, <1>7

\* Pieces that share nothing flatten to a sequence without repetition.
LEMMA FlatOnce ==
    ASSUME NEW E, NEW ss \in Seq(Seq(E)), Apart(ss)
    PROVE  Once(FlattenSeq(ss))
<1> DEFINE P == {u \in Seq(Seq(E)) : Apart(u) => Once(FlattenSeq(u))}
<1>1. <<>> \in P
  BY FlatEmpty DEF Once
<1>2. ASSUME NEW u \in Seq(Seq(E)), NEW e \in Seq(E), u \in P
      PROVE  Append(u, e) \in P
  <2>1. /\ Append(u, e) \in Seq(Seq(E)) /\ Len(Append(u, e)) = Len(u) + 1 /\ Len(u) \in Nat
        /\ \A i \in 1..Len(u) : Append(u, e)[i] = u[i] /\ i \in 1..(Len(u) + 1) /\ u[i] \in Seq(E)
        /\ Append(u, e)[Len(u) + 1] = e /\ Len(u) + 1 \in 1..(Len(u) + 1)
        /\ \A i \in 1..Len(u) : i # Len(u) + 1
    OBVIOUS
  <2>2. SUFFICES ASSUME Apart(Append(u, e)) PROVE Once(FlattenSeq(Append(u, e)))
    BY <2>1
  <2> DEFINE v == Append(u, e)
  <2> HIDE DEF v
  <2>10. ASSUME NEW i \in 1..(Len(u) + 1), NEW j \in 1..(Len(u) + 1),
               NEW k \in 1..Len(v[i]), NEW l \in 1..Len(v[j]), v[i][k] = v[j][l]
        PROVE  i = j /\ k = l
    BY <2>1, <2>2, <2>10 DEF Apart, v
  <2>11. (\A i \in 1..Len(u) : v[i] = u[i]) /\ v[Len(u) + 1] = e
    BY <2>1 DEF v
  <2>3. Apart(u)
    <3>1. SUFFICES ASSUME NEW i \in 1..Len(u), NEW j \in 1..Len(u),
                          NEW k \in 1..Len(u[i]), NEW l \in 1..Len(u[j]), u[i][k] = u[j][l]
                   PROVE  i = j /\ k = l
      BY DEF Apart
    <3>2. /\ i \in 1..(Len(u) + 1) /\ j \in 1..(Len(u) + 1)
          /\ k \in 1..Len(v[i]) /\ l \in 1..Len(v[j]) /\ v[i][k] = v[j][l]
      BY <2>1, <2>11, <3>1
    <3>3. QED
      BY <2>10, <3>2
  <2>4. Once(e)
    <3>1. SUFFICES ASSUME NEW k \in 1..Len(e), NEW l \in 1..Len(e), e[k] = e[l]
                   PROVE  k = l
      BY DEF Once
    <3>2. /\ Len(u) + 1 \in 1..(Len(u) + 1)
          /\ k \in 1..Len(v[Len(u) + 1]) /\ l \in 1..Len(v[Len(u) + 1])
          /\ v[Len(u) + 1][k] = v[Len(u) + 1][l]
      BY <2>1, <2>11, <3>1
    <3> DEFINE m == Len(u) + 1
    <3> HIDE DEF m
    <3>3. /\ m \in 1..(Len(u) + 1) /\ k \in 1..Len(v[m]) /\ l \in 1..Len(v[m])
          /\ v[m][k] = v[m][l]
      BY <3>2 DEF m
    <3>4. QED
      BY <2>10, <3>3
  <2>5. ToSet(FlattenSeq(u)) \cap ToSet(e) = {}
    <3>1. SUFFICES ASSUME NEW x, x \in ToSet(FlattenSeq(u)), x \in ToSet(e) PROVE FALSE
      OBVIOUS
    <3>2. PICK i \in 1..Len(u) : x \in ToSet(u[i])
      BY <3>1, FlatSet
    <3>3. PICK k \in 1..Len(u[i]) : x = u[i][k]
      BY <2>1, <3>2 DEF ToSet
    <3>4. PICK l \in 1..Len(e) : x = e[l]
      BY <3>1 DEF ToSet
    <3>5. QED
      <4>1. v[i][k] = v[Len(u) + 1][l] /\ k \in 1..Len(v[i]) /\ l \in 1..Len(v[Len(u) + 1])
        BY <2>11, <3>3, <3>4
      <4>2. i = Len(u) + 1
        BY <2>1, <2>10, <4>1
      <4>3. QED
        BY <2>1, <4>2
  <2>6. QED
    <3>1. FlattenSeq(Append(u, e)) = FlattenSeq(u) \o e /\ FlattenSeq(u) \in Seq(E)
      BY FlatAppend
    <3>2. Once(FlattenSeq(u))
      BY <1>2, <2>3
    <3>3. Once(FlattenSeq(u) \o e)
      BY <2>4, <2>5, <3>1, <3>2, ConcatOnce
    <3>4. QED
      BY <3>1, <3>3
<1> HIDE DEF P
<1>3. Seq(Seq(E)) \subseteq P
  BY <1>1, <1>2, SeqSetInduction
<1>4. QED
  BY <1>3 DEF P

\* A list of one-element lists.
LEMMA FlatSingles ==
    ASSUME NEW E, NEW s \in Seq(E)
    PROVE  FlattenSeq([i \in 1..Len(s) |-> <<s[i]>>]) = s
<1> DEFINE M(u) == [i \in 1..Len(u) |-> <<u[i]>>]
           P == {u \in Seq(E) : FlattenSeq(M(u)) = u}
<1>1. <<>> \in P
  <2>1. M(<<>>) = <<>>
    OBVIOUS
  <2>2. QED
    BY <2>1, FlatEmpty
<1>2. ASSUME NEW u \in Seq(E), NEW e \in E, u \in P
      PROVE  Append(u, e) \in P
  <2>1. /\ Append(u, e) \in Seq(E) /\ Len(Append(u, e)) = Len(u) + 1 /\ Len(u) \in Nat
        /\ \A i \in 1..Len(u) : Append(u, e)[i] = u[i]
        /\ Append(u, e)[Len(u) + 1] = e
    OBVIOUS
  <2>2. M(u) \in Seq(Seq(E)) /\ Len(M(u)) = Len(u) /\ <<e>> \in Seq(E)
    BY <2>1
  <2>3. M(Append(u, e)) = Append(M(u), <<e>>)
    <3>1. /\ M(Append(u, e)) = [i \in 1..(Len(u) + 1) |-> M(Append(u, e))[i]]
          /\ Append(M(u), <<e>>) = [i \in 1..(Len(u) + 1) |-> Append(M(u), <<e>>)[i]]
      BY <2>1, <2>2
    <3>2. ASSUME NEW i \in 1..(Len(u) + 1)
          PROVE  M(Append(u, e))[i] = Append(M(u), <<e>>)[i]
      BY <2>1, <2>2
    <3>3. QED
      BY <3>1, <3>2
  <2> HIDE DEF M
  <2>4. FlattenSeq(M(Append(u, e))) = FlattenSeq(M(u)) \o <<e>>
    BY <2>2, <2>3, FlatAppend
  <2>5. u \o <<e>> = Append(u, e)
    OBVIOUS
  <2>6. QED
    BY <1>2, <2>1, <2>4, <2>5
<1> HIDE DEF P
<1>3. Seq(E) \subseteq P
  BY <1>1, <1>2, SeqSetInduction
<1>4. QED
  BY <1>3 DEF P

\* The lists that Those flattens.
Keep(s, S) == [i \in 1..Len(s) |-> IF s[i] \in S THEN <<s[i]>> ELSE <<>>]

\* The pieces that Those flattens.
LEMMA KeepFacts ==
    ASSUME NEW E, NEW s \in Seq(E), NEW S
    PROVE  /\ Keep(s, S) \in Seq(Seq(E)) /\ Len(Keep(s, S)) = Len(s) /\ Len(s) \in Nat
           /\ Those(s, S) = FlattenSeq(Keep(s, S))
           /\ \A i \in 1..Len(s) :
                 /\ s[i] \in S => Keep(s, S)[i] = <<s[i]>>
                 /\ s[i] \notin S => Keep(s, S)[i] = <<>>
  BY DEF Keep, Those

OnceIn(s, S) == \A i, j \in 1..Len(s) : s[i] \in S /\ s[i] = s[j] => i = j

\* Those keeps the elements asked for, and repeats none that the list does not.
LEMMA ThoseFacts ==
    ASSUME NEW E, NEW s \in Seq(E), NEW S
    PROVE  /\ Those(s, S) \in Seq(E)
           /\ ToSet(Those(s, S)) = ToSet(s) \cap S
           /\ OnceIn(s, S) => Once(Those(s, S))
<1>1. /\ Keep(s, S) \in Seq(Seq(E)) /\ Len(Keep(s, S)) = Len(s) /\ Len(s) \in Nat
      /\ Those(s, S) = FlattenSeq(Keep(s, S))
      /\ \A i \in 1..Len(s) :
            /\ s[i] \in S => Keep(s, S)[i] = <<s[i]>>
            /\ s[i] \notin S => Keep(s, S)[i] = <<>>
  BY KeepFacts
<1>2. Those(s, S) \in Seq(E)
  BY <1>1, FlatType
<1>3. ToSet(Those(s, S)) = ToSet(s) \cap S
  <2>1. ToSet(Those(s, S)) = UNION {ToSet(Keep(s, S)[i]) : i \in 1..Len(s)}
    BY <1>1, FlatSet
  <2>2. \A i \in 1..Len(s) : ToSet(Keep(s, S)[i]) = {s[i]} \cap S
    <3>1. ToSet(<<>>) = {} /\ \A x : ToSet(<<x>>) = {x}
      BY DEF ToSet
    <3>2. QED
      BY <1>1, <3>1
  <2>3. ToSet(s) = {s[i] : i \in 1..Len(s)}
    BY DEF ToSet
  <2>4. QED
    BY <2>1, <2>2, <2>3
<1>4. ASSUME OnceIn(s, S) PROVE Once(Those(s, S))
  <2>1. Apart(Keep(s, S))
    <3>1. SUFFICES ASSUME NEW i \in 1..Len(s), NEW j \in 1..Len(s),
                          NEW k \in 1..Len(Keep(s, S)[i]), NEW l \in 1..Len(Keep(s, S)[j]),
                          Keep(s, S)[i][k] = Keep(s, S)[j][l]
                   PROVE  i = j /\ k = l
      BY <1>1 DEF Apart
    <3>2. s[i] \in S /\ s[j] \in S
      BY <1>1, <3>1
    <3>3. Keep(s, S)[i] = <<s[i]>> /\ Keep(s, S)[j] = <<s[j]>>
      BY <1>1, <3>2
    <3>4. k = 1 /\ l = 1
      BY <3>1, <3>3
    <3>5. s[i] = s[j]
      BY <3>1, <3>3, <3>4
    <3>6. QED
      BY <1>4, <3>2, <3>4, <3>5 DEF OnceIn
  <2>2. QED
    BY <1>1, <2>1, FlatOnce
<1>5. QED
  BY <1>2, <1>3, <1>4

\* All of them or none of them.
LEMMA ThoseAllNone ==
    ASSUME NEW E, NEW s \in Seq(E), NEW S
    PROVE  /\ ToSet(s) \subseteq S => Those(s, S) = s
           /\ ToSet(s) \cap S = {} => Those(s, S) = <<>>
<1>1. ASSUME ToSet(s) \subseteq S PROVE Those(s, S) = s
  <2>1. \A i \in 1..Len(s) : s[i] \in S
    BY <1>1 DEF ToSet
  <2>2. Keep(s, S) = [i \in 1..Len(s) |-> <<s[i]>>]
    BY <2>1 DEF Keep
  <2>3. QED
    BY <2>2, KeepFacts, FlatSingles
<1>2. ASSUME ToSet(s) \cap S = {} PROVE Those(s, S) = <<>>
  <2>1. Those(s, S) \in Seq(E) /\ ToSet(Those(s, S)) = {}
    BY <1>2, ThoseFacts
  <2>2. QED
    BY <2>1, NoElements
<1>3. QED
  BY <1>1, <1>2

\* Those of two lists, one after the other.
LEMMA ThoseConcat ==
    ASSUME NEW E, NEW s \in Seq(E), NEW t \in Seq(E), NEW S
    PROVE  Those(s \o t, S) = Those(s, S) \o Those(t, S)
<1>1. /\ s \o t \in Seq(E) /\ Len(s \o t) = Len(s) + Len(t)
      /\ Len(s) \in Nat /\ Len(t) \in Nat
      /\ \A i \in 1..Len(s) : (s \o t)[i] = s[i]
      /\ \A i \in 1..Len(t) : (s \o t)[Len(s) + i] = t[i]
  BY ConcatProperties
<1>2. /\ Keep(s, S) \in Seq(Seq(E)) /\ Len(Keep(s, S)) = Len(s)
      /\ Keep(t, S) \in Seq(Seq(E)) /\ Len(Keep(t, S)) = Len(t)
      /\ Keep(s \o t, S) \in Seq(Seq(E)) /\ Len(Keep(s \o t, S)) = Len(s) + Len(t)
      /\ Those(s, S) = FlattenSeq(Keep(s, S)) /\ Those(t, S) = FlattenSeq(Keep(t, S))
      /\ Those(s \o t, S) = FlattenSeq(Keep(s \o t, S))
  BY <1>1, KeepFacts
<1>3. /\ \A i \in 1..Len(s) : Keep(s \o t, S)[i] = Keep(s, S)[i]
      /\ \A i \in 1..Len(t) : Keep(s \o t, S)[Len(s) + i] = Keep(t, S)[i]
  <2>1. /\ \A i \in 1..Len(s) : i \in 1..(Len(s) + Len(t))
        /\ \A i \in 1..Len(t) : Len(s) + i \in 1..(Len(s) + Len(t))
    BY <1>1
  <2>2. QED
    BY <1>1, <2>1 DEF Keep
<1> DEFINE a == Keep(s, S)
           b == Keep(t, S)
           c == Keep(s \o t, S)
<1> HIDE DEF a, b, c
<1>4. /\ a \in Seq(Seq(E)) /\ b \in Seq(Seq(E)) /\ c \in Seq(Seq(E))
      /\ Len(c) = Len(a) + Len(b)
      /\ \A i \in 1..Len(a) : c[i] = a[i]
      /\ \A i \in 1..Len(b) : c[Len(a) + i] = b[i]
  BY <1>2, <1>3 DEF a, b, c
<1>5. c = a \o b
  BY <1>4, TwoPieces
<1>6. FlattenSeq(c) = FlattenSeq(a) \o FlattenSeq(b)
  BY <1>4, <1>5, FlatConcat
<1>7. QED
  BY <1>2, <1>6 DEF a, b, c

-----------------------------------------------------------------------------
(* TestSelection: TEST.SEEDs.                                               *)

\* Strings; the provers do not know that the literals are strings.
Names == STRING \cup {NoTest, "PMPEnable", Suites[1], Suites[2], Suites[3]}

Counts == Names \X (Nat \ {0}) \X {"RISCVDV", "DIRECTED"}
UniqueNames(tcs) == \A i, j \in 1..Len(tcs) : tcs[i][1] = tcs[j][1] => i = j

\* The lists that TestDotSeeds flattens.
Seeds(tcs) ==
    [i \in 1..Len(tcs) |-> [k \in 1..tcs[i][2] |-> <<tcs[i][1], sel_args.seed + k - 1>>]]

\* A function on 1..n is a sequence of that length.
LEMMA FunctionIsSeq ==
    ASSUME NEW E, NEW n \in Nat, NEW f \in [1..n -> E]
    PROVE  f \in Seq(E) /\ Len(f) = n
  OBVIOUS

\* The TEST.SEEDs of one test.
LEMMA SeedsFacts ==
    ASSUME sel_args.seed \in Int, NEW tcs \in Seq(Counts)
    PROVE  /\ Seeds(tcs) \in Seq(Seq(Names \X Int)) /\ Len(Seeds(tcs)) = Len(tcs)
           /\ Len(tcs) \in Nat
           /\ TestDotSeeds(tcs) = FlattenSeq(Seeds(tcs))
           /\ \A i \in 1..Len(tcs) :
                 /\ tcs[i][2] \in Nat \ {0} /\ Len(Seeds(tcs)[i]) = tcs[i][2]
                 /\ \A k \in 1..tcs[i][2] : Seeds(tcs)[i][k] = <<tcs[i][1], sel_args.seed + k - 1>>
<1>1. ASSUME NEW i \in 1..Len(tcs)
      PROVE  /\ tcs[i][2] \in Nat \ {0} /\ Len(Seeds(tcs)[i]) = tcs[i][2]
             /\ Seeds(tcs)[i] \in Seq(Names \X Int)
             /\ \A k \in 1..tcs[i][2] : Seeds(tcs)[i][k] = <<tcs[i][1], sel_args.seed + k - 1>>
  <2>1. tcs[i] \in Counts
    OBVIOUS
  <2>2. tcs[i][1] \in Names /\ tcs[i][2] \in Nat \ {0}
    BY <2>1 DEF Counts
  <2>3. Seeds(tcs)[i] = [k \in 1..tcs[i][2] |-> <<tcs[i][1], sel_args.seed + k - 1>>]
    BY DEF Seeds
  <2>4. \A k \in 1..tcs[i][2] : <<tcs[i][1], sel_args.seed + k - 1>> \in Names \X Int
    BY <2>2
  <2>5. /\ Seeds(tcs)[i] \in [1..tcs[i][2] -> Names \X Int]
        /\ \A k \in 1..tcs[i][2] : Seeds(tcs)[i][k] = <<tcs[i][1], sel_args.seed + k - 1>>
    BY <2>3, <2>4, Zenon
  <2>6. Seeds(tcs)[i] \in Seq(Names \X Int) /\ Len(Seeds(tcs)[i]) = tcs[i][2]
    BY <2>2, <2>5, FunctionIsSeq
  <2>7. QED
    BY <2>2, <2>5, <2>6
<1>2. Len(tcs) \in Nat /\ Seeds(tcs) = [i \in 1..Len(tcs) |-> Seeds(tcs)[i]]
  BY DEF Seeds
<1>3. Seeds(tcs) \in Seq(Seq(Names \X Int)) /\ Len(Seeds(tcs)) = Len(tcs)
  BY <1>1, <1>2
<1>4. TestDotSeeds(tcs) = FlattenSeq(Seeds(tcs))
  BY DEF TestDotSeeds, Seeds
<1>5. QED
  BY <1>1, <1>2, <1>3, <1>4

\* The TEST.SEEDs of two lists, one after the other.
LEMMA TdsConcat ==
    ASSUME sel_args.seed \in Int, NEW s \in Seq(Counts), NEW t \in Seq(Counts)
    PROVE  TestDotSeeds(s \o t) = TestDotSeeds(s) \o TestDotSeeds(t)
<1> DEFINE E == Names \X Int
           a == Seeds(s)
           b == Seeds(t)
           c == Seeds(s \o t)
<1>1. /\ s \o t \in Seq(Counts) /\ Len(s \o t) = Len(s) + Len(t)
      /\ Len(s) \in Nat /\ Len(t) \in Nat
      /\ \A i \in 1..Len(s) : (s \o t)[i] = s[i]
      /\ \A i \in 1..Len(t) : (s \o t)[Len(s) + i] = t[i]
  BY ConcatProperties
<1>2. /\ a \in Seq(Seq(E)) /\ b \in Seq(Seq(E)) /\ c \in Seq(Seq(E))
      /\ Len(a) = Len(s) /\ Len(b) = Len(t) /\ Len(c) = Len(s) + Len(t)
      /\ TestDotSeeds(s) = FlattenSeq(a) /\ TestDotSeeds(t) = FlattenSeq(b)
      /\ TestDotSeeds(s \o t) = FlattenSeq(c)
  BY <1>1, SeedsFacts
<1>3. /\ \A i \in 1..Len(s) : c[i] = a[i]
      /\ \A i \in 1..Len(t) : c[Len(s) + i] = b[i]
  <2>1. /\ \A i \in 1..Len(s) : i \in 1..(Len(s) + Len(t))
        /\ \A i \in 1..Len(t) : Len(s) + i \in 1..(Len(s) + Len(t))
    BY <1>1
  <2>2. QED
    BY <1>1, <2>1 DEF Seeds
<1> HIDE DEF E, a, b, c
<1>4. c = a \o b
  <2>1. /\ Len(c) = Len(a) + Len(b)
        /\ \A i \in 1..Len(a) : c[i] = a[i]
        /\ \A i \in 1..Len(b) : c[Len(a) + i] = b[i]
    BY <1>2, <1>3
  <2>2. QED
    BY <1>2, <2>1, TwoPieces
<1>5. FlattenSeq(c) = FlattenSeq(a) \o FlattenSeq(b)
  BY <1>2, <1>4, FlatConcat
<1>6. QED
  BY <1>2, <1>5

\* Every TEST.SEED once, and at least one of a list that is not empty.
LEMMA TdsOnce ==
    ASSUME sel_args.seed \in Int, NEW tcs \in Seq(Counts)
    PROVE  /\ TestDotSeeds(tcs) \in Seq(Names \X Int)
           /\ UniqueNames(tcs) => Once(TestDotSeeds(tcs))
           /\ tcs # <<>> => TestDotSeeds(tcs) # <<>>
<1> DEFINE E == Names \X Int
           a == Seeds(tcs)
<1>1. /\ a \in Seq(Seq(E)) /\ Len(a) = Len(tcs) /\ Len(tcs) \in Nat
      /\ TestDotSeeds(tcs) = FlattenSeq(a)
      /\ \A i \in 1..Len(tcs) :
            /\ tcs[i][2] \in Nat \ {0} /\ Len(a[i]) = tcs[i][2]
            /\ \A k \in 1..tcs[i][2] : a[i][k] = <<tcs[i][1], sel_args.seed + k - 1>>
  BY SeedsFacts
<1> HIDE DEF E, a
<1>2. TestDotSeeds(tcs) \in Seq(E)
  BY <1>1, FlatType
<1>3. ASSUME UniqueNames(tcs) PROVE Once(TestDotSeeds(tcs))
  <2>1. Apart(a)
    <3>1. SUFFICES ASSUME NEW i \in 1..Len(tcs), NEW j \in 1..Len(tcs),
                          NEW k \in 1..Len(a[i]), NEW l \in 1..Len(a[j]), a[i][k] = a[j][l]
                   PROVE  i = j /\ k = l
      BY <1>1 DEF Apart
    <3>2. /\ k \in 1..tcs[i][2] /\ l \in 1..tcs[j][2] /\ k \in Int /\ l \in Int
          /\ a[i][k] = <<tcs[i][1], sel_args.seed + k - 1>>
          /\ a[j][l] = <<tcs[j][1], sel_args.seed + l - 1>>
      <4>1. Len(a[i]) = tcs[i][2] /\ Len(a[j]) = tcs[j][2]
        BY <1>1
      <4>2. k \in 1..tcs[i][2] /\ l \in 1..tcs[j][2]
        BY <4>1
      <4>3. /\ a[i][k] = <<tcs[i][1], sel_args.seed + k - 1>>
            /\ a[j][l] = <<tcs[j][1], sel_args.seed + l - 1>>
        BY <1>1, <4>2, Zenon
      <4>4. QED
        BY <4>2, <4>3
    <3>3. tcs[i][1] = tcs[j][1] /\ sel_args.seed + k - 1 = sel_args.seed + l - 1
      <4>1. <<tcs[i][1], sel_args.seed + k - 1>> = <<tcs[j][1], sel_args.seed + l - 1>>
        BY <3>1, <3>2, Zenon
      <4>2. QED
        BY <4>1
    <3>4. k = l
      BY <3>2, <3>3
    <3>5. i = j
      BY <1>3, <3>3 DEF UniqueNames
    <3>6. QED
      BY <3>4, <3>5
  <2>2. QED
    BY <1>1, <2>1, FlatOnce
<1>4. ASSUME tcs # <<>> PROVE TestDotSeeds(tcs) # <<>>
  <2>1. 1 \in 1..Len(tcs)
    BY <1>4
  <2>2. a[1] \in Seq(E) /\ a[1] # <<>>
    <3>1. 1 \in 1..Len(a)
      BY <1>1, <2>1
    <3>2. a[1] \in Seq(E)
      BY <1>1, <3>1
    <3>3. Len(a[1]) = tcs[1][2] /\ tcs[1][2] \in Nat \ {0}
      BY <1>1, <2>1, Zenon
    <3>4. QED
      BY <3>2, <3>3
  <2>3. ToSet(a[1]) # {}
    BY <2>2, NoElements
  <2>4. ToSet(a[1]) \subseteq ToSet(TestDotSeeds(tcs))
    BY <1>1, <2>1, FlatSet
  <2>5. QED
    BY <1>2, <2>3, <2>4, NoElements
<1>5. QED
  BY <1>2, <1>3, <1>4 DEF E

-----------------------------------------------------------------------------
(* TestSelection: matching and filtering.                                   *)

Entries == [test : Names, iterations : Int, rtl_params : Seq([p : Names, vals : SUBSET Int])]
UniqueEntries(L) == \A i, j \in 1..Len(L) : L[i].test = L[j].test => i = j
OneParam(e) == Len(e.rtl_params) <= 1

\* A list of some of the entries still has each name once.
LEMMA NamesKept ==
    ASSUME NEW E, NEW L \in Seq(E), NEW S,
           \A i, j \in 1..Len(L) : L[i] \in S /\ L[j] \in S /\ L[i].test = L[j].test => i = j
    PROVE  UniqueEntries(Those(L, S))
<1> DEFINE h == Those(L, S)
<1>1. OnceIn(L, S)
  BY DEF OnceIn
<1>2. h \in Seq(E) /\ ToSet(h) \subseteq ToSet(L) \cap S /\ Once(h)
  BY <1>1, ThoseFacts
<1> HIDE DEF h
<1>3. SUFFICES ASSUME NEW i \in 1..Len(h), NEW j \in 1..Len(h), h[i].test = h[j].test
               PROVE  i = j
  BY DEF UniqueEntries, h
<1>4. h[i] \in ToSet(L) /\ h[j] \in ToSet(L) /\ h[i] \in S /\ h[j] \in S
  BY <1>2, ElementsOf
<1>5. PICK a \in 1..Len(L) : h[i] = L[a]
  BY <1>4 DEF ToSet
<1>6. PICK b \in 1..Len(L) : h[j] = L[b]
  BY <1>4 DEF ToSet
<1>7. a = b
  BY <1>3, <1>4, <1>5, <1>6
<1>8. QED
  BY <1>2, <1>5, <1>6, <1>7 DEF Once

\* With one parameter at most, a test is appended once if the configuration
\* has it and not at all otherwise.
LEMMA AcceptedIs ==
    ASSUME NEW e \in Entries, OneParam(e)
    PROVE  Accepted(e) = IF Supported(e) THEN <<e>> ELSE <<>>
<1> DEFINE ps == e.rtl_params
<1>1. ps \in Seq([p : Names, vals : SUBSET Int]) /\ (Len(ps) = 0 \/ Len(ps) = 1)
  <2>1. ps \in Seq([p : Names, vals : SUBSET Int])
    BY DEF Entries
  <2>2. Len(ps) \in Nat /\ Len(ps) <= 1
    BY <2>1 DEF OneParam
  <2> DEFINE n == Len(ps)
  <2> HIDE DEF n
  <2>3. n \in Nat /\ n <= 1
    BY <2>2 DEF n
  <2>4. n = 0 \/ n = 1
    BY <2>3
  <2>5. QED
    BY <2>1, <2>4 DEF n
<1>2. DOMAIN ps = 1..Len(ps)
  BY <1>1
<1>3. CASE Len(ps) = 0
  <2>1. DOMAIN ps = {}
    BY <1>2, <1>3
  <2>2. Supported(e)
    BY <2>1 DEF Supported
  <2>3. QED
    BY <1>3, <2>2 DEF Accepted
<1>4. CASE Len(ps) = 1
  <2>1. DOMAIN ps = {1} /\ 1..1 = {1}
    BY <1>2, <1>4
  <2>2. Supported(e) <=> ParamAccepts(ps[1])
    BY <2>1 DEF Supported, ParamAccepts
  <2> DEFINE K == {k \in 1..Len(ps) : \A l \in 1..k : ParamAccepts(ps[l])}
  <2>3. K = IF ParamAccepts(ps[1]) THEN {1} ELSE {}
    BY <1>4, <2>1
  <2>4. Accepted(e) = [i \in 1..Cardinality(K) |-> e]
    BY <1>4 DEF Accepted
  <2> HIDE DEF K
  <2>5. Cardinality({1}) = 1 /\ Cardinality({}) = 0
    BY FS_Singleton, FS_EmptySet
  <2>6. [i \in 1..1 |-> e] = <<e>> /\ [i \in 1..0 |-> e] = <<>>
    OBVIOUS
  <2>7. QED
    BY <2>2, <2>3, <2>4, <2>5, <2>6
<1>5. QED
  BY <1>1, <1>3, <1>4

\* filter_tests_by_config keeps the tests the configuration supports.
LEMMA FilterIs ==
    ASSUME NEW L \in Seq(Entries), \A e \in ToSet(L) : OneParam(e)
    PROVE  filter_tests_by_config(L) = Those(L, {e \in ToSet(L) : Supported(e)})
<1> DEFINE S == {e \in ToSet(L) : Supported(e)}
<1>1. ASSUME NEW i \in 1..Len(L)
      PROVE  Accepted(L[i]) = IF L[i] \in S THEN <<L[i]>> ELSE <<>>
  <2>1. L[i] \in Entries /\ L[i] \in ToSet(L)
    BY DEF ToSet
  <2>2. QED
    BY <2>1, AcceptedIs
<1> HIDE DEF S
<1>2. [i \in 1..Len(L) |-> Accepted(L[i])]
        = [i \in 1..Len(L) |-> IF L[i] \in S THEN <<L[i]>> ELSE <<>>]
  BY <1>1
<1>3. QED
  BY <1>2 DEF filter_tests_by_config, Those, S

\* From a list of tests and those of them that match, to names and counts.
LEMMA CountsOf ==
    ASSUME NEW L \in Seq(Entries), \A e \in ToSet(L) : OneParam(e), UniqueEntries(L),
           NEW S \in SUBSET ToSet(L), \A e \in S : Iterations(e) \in Nat \ {0},
           NEW type \in {"RISCVDV", "DIRECTED"},
           NEW t, t = Typed(filter_tests_by_config(WithIterations(Those(L, S))), type)
    PROVE  /\ t \in Seq(Counts) /\ UniqueNames(t)
           /\ ToSet(t) = {<<e.test, Iterations(e), type>> : e \in {x \in S : Supported(x)}}
           /\ \A i \in 1..Len(t) : t[i][3] = type
<1> DEFINE h == Those(L, S)
           w == WithIterations(h)
           G == {e \in ToSet(w) : Supported(e)}
           f == Those(w, G)
<1>1. h \in Seq(Entries) /\ ToSet(h) = S /\ UniqueEntries(h)
  <2>1. ToSet(L) \cap S = S
    OBVIOUS
  <2>2. QED
    BY <2>1, ThoseFacts, NamesKept DEF UniqueEntries
<1> HIDE DEF h
<1>2. /\ ToSet(h) = {h[i] : i \in 1..Len(h)} /\ Len(h) \in Nat
      /\ \A i \in 1..Len(h) : h[i] \in S /\ h[i] \in Entries /\ h[i] \in ToSet(L)
  <2>1. /\ ToSet(h) = {h[i] : i \in 1..Len(h)} /\ Len(h) \in Nat
        /\ \A i \in 1..Len(h) : h[i] \in Entries /\ h[i] \in ToSet(h)
    BY <1>1, ElementsOf
  <2>2. QED
    BY <1>1, <2>1
<1>3. ASSUME NEW i \in 1..Len(h)
      PROVE  /\ w[i] \in Entries /\ w[i].test = h[i].test
             /\ w[i].iterations = Iterations(h[i]) /\ w[i].rtl_params = h[i].rtl_params
             /\ Supported(w[i]) <=> Supported(h[i])
  <2>1. w[i] = [h[i] EXCEPT !.iterations = Iterations(h[i])]
    BY DEF WithIterations
  <2>2. h[i] \in Entries /\ Iterations(h[i]) \in Int
    BY <1>2
  <2>3. /\ w[i] \in Entries /\ w[i].test = h[i].test
        /\ w[i].iterations = Iterations(h[i]) /\ w[i].rtl_params = h[i].rtl_params
    BY <2>1, <2>2 DEF Entries
  <2>4. QED
    BY <2>3 DEF Supported
<1>4. w \in [1..Len(h) -> Entries]
  <2>1. w = [i \in 1..Len(h) |-> w[i]]
    BY DEF WithIterations
  <2>2. QED
    BY <1>3, <2>1
<1>5. w \in Seq(Entries) /\ Len(w) = Len(h)
  BY <1>2, <1>4, FunctionIsSeq
<1> HIDE DEF w
<1>6. ToSet(w) = {w[i] : i \in 1..Len(h)} /\ UniqueEntries(w)
  BY <1>1, <1>3, <1>5 DEF ToSet, UniqueEntries
<1>7. \A e \in ToSet(w) : OneParam(e)
  BY <1>2, <1>3, <1>6 DEF OneParam
<1>8. filter_tests_by_config(w) = f
  BY <1>5, <1>7, FilterIs
<1>9. f \in Seq(Entries) /\ ToSet(f) = G /\ UniqueEntries(f)
  <2>1. ToSet(w) \cap G = G
    OBVIOUS
  <2> HIDE DEF G
  <2>2. QED
    BY <1>5, <1>6, <2>1, ThoseFacts, NamesKept DEF UniqueEntries
<1> HIDE DEF f
<1>10. t = [i \in 1..Len(f) |-> <<f[i].test, f[i].iterations, type>>] /\ Len(f) \in Nat
  BY <1>8, <1>9 DEF Typed, w, h
<1> HIDE DEF G
<1>11. /\ \A i \in 1..Len(f) : f[i] \in G /\ f[i] \in Entries
       /\ G = {f[i] : i \in 1..Len(f)}
  BY <1>9, ElementsOf
<1>12. \A e \in G : e.test \in Names /\ e.iterations \in Nat \ {0}
  <2>1. ASSUME NEW e \in G PROVE e.test \in Names /\ e.iterations \in Nat \ {0}
    <3>1. PICK i \in 1..Len(h) : e = w[i]
      BY <1>6 DEF G
    <3>2. w[i].iterations = Iterations(h[i]) /\ h[i] \in S /\ w[i] \in Entries
      BY <1>2, <1>3
    <3>3. QED
      BY <3>1, <3>2 DEF Entries
  <2>2. QED
    BY <2>1
<1>13. t \in Seq(Counts) /\ Len(t) = Len(f)
       /\ \A i \in 1..Len(f) : t[i] = <<f[i].test, f[i].iterations, type>>
  <2>1. \A i \in 1..Len(f) : <<f[i].test, f[i].iterations, type>> \in Counts
    BY <1>11, <1>12 DEF Counts
  <2>2. t \in [1..Len(f) -> Counts]
    BY <1>10, <2>1
  <2>3. QED
    BY <1>10, <2>2, FunctionIsSeq
<1>14. UniqueNames(t)
  <2>1. \A i \in 1..Len(f) : t[i][1] = f[i].test
    BY <1>13
  <2>2. QED
    BY <1>9, <1>13, <2>1 DEF UniqueNames, UniqueEntries
<1>15. ToSet(t) = {<<e.test, e.iterations, type>> : e \in G}
  <2>1. ToSet(t) = {t[i] : i \in 1..Len(f)} /\ G = {f[i] : i \in 1..Len(f)}
    <3>1. t \in Seq(Counts) /\ Len(t) = Len(f)
      BY <1>13
    <3>2. ToSet(t) = {t[i] : i \in 1..Len(t)}
      BY ONLY <3>1, ElementsOf
    <3>3. QED
      BY ONLY <1>11, <3>1, <3>2
  <2>2. \A i \in 1..Len(f) : t[i] = <<f[i].test, f[i].iterations, type>>
    BY <1>13
  <2>3. ToSet(t) = {<<f[i].test, f[i].iterations, type>> : i \in 1..Len(f)}
    BY <2>1, <2>2
  <2>4. QED
    BY <2>1, <2>3
<1>16. {<<e.test, e.iterations, type>> : e \in G}
         = {<<e.test, Iterations(e), type>> : e \in {x \in S : Supported(x)}}
  <2>1. G = {w[i] : i \in {k \in 1..Len(h) : Supported(h[k])}}
    BY <1>3, <1>6 DEF G
  <2>2. {x \in S : Supported(x)} = {h[i] : i \in {k \in 1..Len(h) : Supported(h[k])}}
    BY <1>1, <1>2
  <2>3. \A i \in 1..Len(h) : <<w[i].test, w[i].iterations, type>> = <<h[i].test, Iterations(h[i]), type>>
    BY <1>3
  <2>4. QED
    BY <2>1, <2>2, <2>3
<1>17. \A i \in 1..Len(t) : t[i][3] = type
  BY <1>13
<1>18. QED
  BY <1>13, <1>14, <1>15, <1>16, <1>17

\* What is appended of one test is that test, once at least if the configuration
\* supports it, however many parameters it has.
LEMMA AcceptedAny ==
    ASSUME NEW e \in Entries
    PROVE  /\ Accepted(e) \in Seq(Entries) /\ ToSet(Accepted(e)) \subseteq {e}
           /\ Supported(e) => e \in ToSet(Accepted(e))
<1> DEFINE ps == e.rtl_params
           n == Len(ps)
           K == {k \in 1..n : \A l \in 1..k : ParamAccepts(ps[l])}
           c == Cardinality(K)
<1>1. ps \in Seq([p : Names, vals : SUBSET Int])
  BY DEF Entries
<1>2. n \in Nat /\ DOMAIN ps = 1..n
  BY <1>1
<1>3. Accepted(e) = IF n = 0 THEN <<e>> ELSE [i \in 1..c |-> e]
  BY DEF Accepted
<1>4. Supported(e) => K = 1..n
  BY <1>2 DEF Supported, ParamAccepts
<1> HIDE DEF n
<1>5. IsFiniteSet(1..n) /\ Cardinality(1..n) = n
  <2>1. 1 \in Int /\ n \in Int /\ (1 > n => n = 0)
    BY <1>2
  <2>2. QED
    BY <1>2, <2>1, FS_Interval
<1>6. c \in Nat /\ (Supported(e) => c = n)
  <2>1. IsFiniteSet(K)
    BY <1>5, FS_Subset
  <2>2. QED
    BY <1>4, <1>5, <2>1, FS_CardinalityType
<1> HIDE DEF c
<1>7. CASE n = 0
  <2>1. <<e>> \in Seq(Entries) /\ ToSet(<<e>>) = {e}
    BY DEF ToSet
  <2>2. QED
    BY <1>3, <1>7, <2>1
<1>8. CASE n # 0
  <2>1. [i \in 1..c |-> e] \in [1..c -> Entries]
    OBVIOUS
  <2>2. Accepted(e) \in Seq(Entries)
    BY <1>3, <1>6, <1>8, <2>1, FunctionIsSeq
  <2>3. ToSet(Accepted(e)) \subseteq {e}
    BY <1>3, <1>8 DEF ToSet
  <2>4. ASSUME Supported(e)
        PROVE  e \in ToSet(Accepted(e))
    <3>1. 1 \in 1..c
      BY <1>2, <1>6, <1>8, <2>4
    <3>2. QED
      BY <1>3, <1>8, <3>1 DEF ToSet
  <2>5. QED
    BY <2>2, <2>3, <2>4
<1>9. QED
  BY <1>7, <1>8

\* filter_tests_by_config adds nothing and loses nothing that is supported.
LEMMA FilterAny ==
    ASSUME NEW L \in Seq(Entries)
    PROVE  /\ filter_tests_by_config(L) \in Seq(Entries)
           /\ ToSet(filter_tests_by_config(L)) \subseteq ToSet(L)
           /\ \A e \in ToSet(L) : Supported(e) => e \in ToSet(filter_tests_by_config(L))
<1> DEFINE ss == [i \in 1..Len(L) |-> Accepted(L[i])]
<1>1. Len(L) \in Nat /\ ToSet(L) = {L[i] : i \in 1..Len(L)}
  BY ElementsOf
<1>2. \A i \in 1..Len(L) : L[i] \in Entries
  OBVIOUS
<1>3. \A i \in 1..Len(L) : /\ Accepted(L[i]) \in Seq(Entries) /\ ToSet(Accepted(L[i])) \subseteq {L[i]}
                           /\ Supported(L[i]) => L[i] \in ToSet(Accepted(L[i]))
  BY <1>2, AcceptedAny
<1>4. ss \in [1..Len(L) -> Seq(Entries)] /\ \A i \in 1..Len(L) : ss[i] = Accepted(L[i])
  BY <1>3
<1>5. ss \in Seq(Seq(Entries)) /\ Len(ss) = Len(L)
  BY <1>1, <1>4, FunctionIsSeq
<1>6. filter_tests_by_config(L) = FlattenSeq(ss)
  BY DEF filter_tests_by_config
<1> HIDE DEF ss
<1>7. ToSet(FlattenSeq(ss)) = UNION {ToSet(ss[i]) : i \in 1..Len(L)} /\ FlattenSeq(ss) \in Seq(Entries)
  BY <1>5, FlatSet, FlatType
<1>8. ToSet(FlattenSeq(ss)) \subseteq ToSet(L)
  BY <1>1, <1>3, <1>4, <1>7
<1>9. ASSUME NEW e \in ToSet(L), Supported(e)
      PROVE  e \in ToSet(FlattenSeq(ss))
  <2>1. PICK i \in 1..Len(L) : e = L[i]
    BY <1>1
  <2>2. e \in ToSet(ss[i])
    BY <1>3, <1>4, <1>9, <2>1
  <2>3. QED
    BY <1>7, <2>2
<1>10. QED
  BY <1>6, <1>7, <1>8, <1>9

\* From a list of tests and those of them that match, to names and counts, when
\* tests may have several parameters.
LEMMA CountsAny ==
    ASSUME NEW L \in Seq(Entries),
           NEW S \in SUBSET ToSet(L), \A e \in S : Iterations(e) \in Nat \ {0},
           NEW type \in {"RISCVDV", "DIRECTED"},
           NEW t, t = Typed(filter_tests_by_config(WithIterations(Those(L, S))), type)
    PROVE  /\ t \in Seq(Counts)
           /\ {<<e.test, Iterations(e), type>> : e \in {x \in S : Supported(x)}} \subseteq ToSet(t)
           /\ \A i \in 1..Len(t) : t[i][3] = type /\ \E e \in S : t[i][1] = e.test
<1> DEFINE h == Those(L, S)
           w == WithIterations(h)
           f == filter_tests_by_config(w)
<1>1. h \in Seq(Entries) /\ ToSet(h) = S
  <2>1. ToSet(L) \cap S = S
    OBVIOUS
  <2>2. QED
    BY <2>1, ThoseFacts
<1> HIDE DEF h
<1>2. /\ S = {h[i] : i \in 1..Len(h)} /\ Len(h) \in Nat
      /\ \A i \in 1..Len(h) : h[i] \in S /\ h[i] \in Entries
  BY <1>1, ElementsOf
<1>3. ASSUME NEW i \in 1..Len(h)
      PROVE  /\ w[i] \in Entries /\ w[i].test = h[i].test
             /\ w[i].iterations = Iterations(h[i])
             /\ Supported(w[i]) <=> Supported(h[i])
  <2>1. w[i] = [h[i] EXCEPT !.iterations = Iterations(h[i])]
    BY DEF WithIterations
  <2>2. h[i] \in Entries /\ Iterations(h[i]) \in Int
    BY <1>2
  <2>3. /\ w[i] \in Entries /\ w[i].test = h[i].test
        /\ w[i].iterations = Iterations(h[i]) /\ w[i].rtl_params = h[i].rtl_params
    BY <2>1, <2>2 DEF Entries
  <2>4. QED
    BY <2>3 DEF Supported
<1>4. w \in [1..Len(h) -> Entries]
  <2>1. w = [i \in 1..Len(h) |-> w[i]]
    BY DEF WithIterations
  <2>2. QED
    BY <1>3, <2>1
<1>5. w \in Seq(Entries) /\ Len(w) = Len(h)
  BY <1>2, <1>4, FunctionIsSeq
<1> HIDE DEF w
<1>6. ToSet(w) = {w[i] : i \in 1..Len(h)}
  BY <1>5 DEF ToSet
<1>7. f \in Seq(Entries) /\ ToSet(f) \subseteq ToSet(w)
      /\ \A e \in ToSet(w) : Supported(e) => e \in ToSet(f)
  BY <1>5, FilterAny
<1>8. t = [i \in 1..Len(f) |-> <<f[i].test, f[i].iterations, type>>]
  BY DEF Typed, w, h
<1> HIDE DEF f
<1>9. /\ Len(f) \in Nat /\ ToSet(f) = {f[i] : i \in 1..Len(f)}
      /\ \A i \in 1..Len(f) : f[i] \in ToSet(w)
  <2>1. Len(f) \in Nat /\ ToSet(f) = {f[i] : i \in 1..Len(f)}
    BY <1>7, ElementsOf
  <2>2. QED
    BY <1>7, <2>1
<1>10. ASSUME NEW i \in 1..Len(f)
       PROVE  /\ f[i].test \in Names /\ f[i].iterations \in Nat \ {0}
              /\ \E e \in S : f[i].test = e.test
  <2>1. PICK k \in 1..Len(h) : f[i] = w[k]
    BY <1>6, <1>9
  <2>2. w[k] \in Entries /\ w[k].test = h[k].test /\ w[k].iterations = Iterations(h[k]) /\ h[k] \in S
    BY <1>2, <1>3
  <2>3. QED
    BY <2>1, <2>2 DEF Entries
<1>11. /\ t \in Seq(Counts) /\ Len(t) = Len(f)
       /\ \A i \in 1..Len(f) : t[i] = <<f[i].test, f[i].iterations, type>>
  <2>1. \A i \in 1..Len(f) : <<f[i].test, f[i].iterations, type>> \in Counts
    BY <1>10 DEF Counts
  <2>2. t \in [1..Len(f) -> Counts]
    BY <1>8, <2>1
  <2>3. QED
    BY <1>8, <1>9, <2>2, FunctionIsSeq
<1>12. \A i \in 1..Len(t) : t[i][3] = type /\ \E e \in S : t[i][1] = e.test
  BY <1>10, <1>11
<1>13. ASSUME NEW e \in S, Supported(e)
       PROVE  <<e.test, Iterations(e), type>> \in ToSet(t)
  <2>1. PICK k \in 1..Len(h) : e = h[k]
    BY <1>2
  <2>2. w[k] \in ToSet(f)
    BY <1>3, <1>6, <1>7, <1>13, <2>1
  <2>3. PICK i \in 1..Len(f) : f[i] = w[k]
    BY <1>9, <2>2
  <2>4. t[i] = <<e.test, Iterations(e), type>>
    <3>1. w[k].test = e.test /\ w[k].iterations = Iterations(e)
      BY <1>3, <2>1
    <3>2. QED
      BY <1>11, <2>3, <3>1
  <2>5. t[i] \in ToSet(t)
    BY <1>11, ElementsOf
  <2>6. QED
    BY <2>4, <2>5
<1>14. QED
  BY <1>11, <1>12, <1>13

-----------------------------------------------------------------------------
(* TestSelection: the list of directed tests.                               *)

YamlEntries == [config : Names, test : Names]
RiscvdvNames == {e.test : e \in ToSet(RiscvdvTests)}
YamlOk(y) ==
    y \in Seq(YamlEntries) /\ UniqueTests(y) /\ DirectedNames(y) \cap RiscvdvNames = {}

\* A list after another one, with other names.
LEMMA YamlConcat ==
    ASSUME NEW y, NEW z, YamlOk(y), YamlOk(z), DirectedNames(y) \cap DirectedNames(z) = {}
    PROVE  YamlOk(y \o z) /\ DirectedNames(y \o z) = DirectedNames(y) \cup DirectedNames(z)
<1>1. y \in Seq(YamlEntries) /\ z \in Seq(YamlEntries)
  BY DEF YamlOk
<1>2. /\ y \o z \in Seq(YamlEntries) /\ Len(y \o z) = Len(y) + Len(z)
      /\ Len(y) \in Nat /\ Len(z) \in Nat
      /\ \A i \in 1..Len(y) : (y \o z)[i] = y[i]
      /\ \A i \in 1..Len(z) : (y \o z)[Len(y) + i] = z[i]
  BY <1>1, ConcatProperties
<1>3. DirectedNames(y \o z) = DirectedNames(y) \cup DirectedNames(z)
  <2>1. ToSet(y \o z) = ToSet(y) \cup ToSet(z)
    BY <1>1, ConcatSet
  <2>2. QED
    BY <2>1 DEF DirectedNames
<1>4. /\ \A i \in 1..Len(y) : y[i].test # NoTest => y[i].test \in DirectedNames(y)
      /\ \A i \in 1..Len(z) : z[i].test # NoTest => z[i].test \in DirectedNames(z)
  BY <1>1, ElementsOf DEF DirectedNames
<1>5. UniqueTests(y \o z)
  <2>1. SUFFICES ASSUME NEW i \in 1..(Len(y) + Len(z)), NEW j \in 1..(Len(y) + Len(z)),
                        (y \o z)[i].test = (y \o z)[j].test, (y \o z)[i].test # NoTest
                 PROVE  i = j
    BY <1>2 DEF UniqueTests
  <2>2. /\ i \in 1..Len(y) \/ (i - Len(y) \in 1..Len(z) /\ Len(y) + (i - Len(y)) = i)
        /\ j \in 1..Len(y) \/ (j - Len(y) \in 1..Len(z) /\ Len(y) + (j - Len(y)) = j)
    BY <1>2
  <2>3. CASE i \in 1..Len(y) /\ j \in 1..Len(y)
    BY <1>2, <2>1, <2>3 DEF YamlOk, UniqueTests
  <2>4. CASE i \in 1..Len(y) /\ j \notin 1..Len(y)
    BY <1>2, <1>4, <2>1, <2>2, <2>4
  <2>5. CASE i \notin 1..Len(y) /\ j \in 1..Len(y)
    BY <1>2, <1>4, <2>1, <2>2, <2>5
  <2>6. CASE i \notin 1..Len(y) /\ j \notin 1..Len(y)
    <3>1. i - Len(y) = j - Len(y)
      BY <1>2, <2>1, <2>2, <2>6 DEF YamlOk, UniqueTests
    <3>2. QED
      BY <1>2, <3>1
  <2>7. QED
    BY <2>3, <2>4, <2>5, <2>6
<1>6. QED
  BY <1>2, <1>3, <1>5 DEF YamlOk

\* The entries made from a list of names.
LEMMA YamlOfNames ==
    ASSUME NEW l \in Seq(Names), IsInjective(l), NEW s \in Names,
           ToSet(l) \cap (RiscvdvNames \cup {NoTest}) = {},
           NEW z, z = [k \in 1..Len(l) |-> DirectedEntry(l[k], s)]
    PROVE  YamlOk(z) /\ DirectedNames(z) = ToSet(l)
<1>1. /\ ToSet(l) = {l[i] : i \in 1..Len(l)} /\ Len(l) \in Nat
      /\ \A i \in 1..Len(l) : l[i] \in Names /\ l[i] \in ToSet(l)
  BY ElementsOf
<1>2. \A k \in 1..Len(l) : z[k] \in YamlEntries /\ z[k].test = l[k]
  BY <1>1 DEF DirectedEntry, YamlEntries
<1>3. z \in [1..Len(l) -> YamlEntries]
  BY <1>2
<1>4. z \in Seq(YamlEntries) /\ Len(z) = Len(l)
  BY ONLY <1>1, <1>3, FunctionIsSeq
<1>5. ToSet(z) = {z[i] : i \in 1..Len(l)}
  BY ONLY <1>4, ElementsOf
<1>6. {e.test : e \in ToSet(z)} = ToSet(l)
  <2> DEFINE I == 1..Len(l)
  <2>1. /\ ToSet(z) = {z[i] : i \in I} /\ ToSet(l) = {l[i] : i \in I}
        /\ \A i \in I : z[i].test = l[i]
    BY ONLY <1>1, <1>2, <1>5
  <2> HIDE DEF I
  <2>2. QED
    BY ONLY <2>1
<1>7. DirectedNames(z) = ToSet(l)
  BY <1>6 DEF DirectedNames
<1>8. UniqueTests(z)
  <2>1. \A i, j \in 1..Len(l) : l[i] = l[j] => i = j
    BY DEF IsInjective
  <2>2. QED
    BY <1>2, <1>4, <2>1 DEF UniqueTests
<1>9. QED
  BY <1>4, <1>7, <1>8 DEF YamlOk

\* The entries of the suites' configurations, which are not tests.
LEMMA YamlOfConfigs ==
    ASSUME NEW z, z = [i \in 1..Len(Suites) |-> ConfigEntry(Suites[i])]
    PROVE  YamlOk(z) /\ DirectedNames(z) = {}
<1>1. Len(Suites) = 3 /\ \A i \in 1..Len(Suites) : Suites[i] \in Names
  <2>1. Len(Suites) = 3
    BY DEF Suites
  <2>2. Suites[1] \in Names /\ Suites[2] \in Names /\ Suites[3] \in Names
    BY DEF Names
  <2>3. \A i \in 1..3 : i = 1 \/ i = 2 \/ i = 3
    OBVIOUS
  <2>4. QED
    BY <2>1, <2>2, <2>3
<1>2. \A i \in 1..Len(Suites) : z[i] \in YamlEntries /\ z[i].test = NoTest
  <2>1. NoTest \in Names
    BY DEF Names
  <2>2. QED
    BY <1>1, <2>1 DEF ConfigEntry, YamlEntries
<1>3. z \in [1..Len(Suites) -> YamlEntries] /\ Len(Suites) \in Nat
  BY <1>1, <1>2
<1>4. z \in Seq(YamlEntries) /\ Len(z) = Len(Suites)
  BY ONLY <1>3, FunctionIsSeq
<1>5. ToSet(z) = {z[i] : i \in 1..Len(Suites)}
  BY ONLY <1>4, ElementsOf
<1>6. DirectedNames(z) = {}
  BY <1>2, <1>5 DEF DirectedNames
<1>7. UniqueTests(z)
  BY <1>2, <1>4 DEF UniqueTests
<1>8. QED
  BY <1>4, <1>6, <1>7 DEF YamlOk

\* The model of the directed tests.
LEMMA ModelFacts ==
    ASSUME YamlOk(yaml)
    PROVE  /\ DirectedModel \in Seq(Entries) /\ UniqueEntries(DirectedModel)
           /\ \A e \in ToSet(DirectedModel) :
                 OneParam(e) /\ e.iterations = 1 /\ e.test \in DirectedNames(yaml)
<1> DEFINE S == {e \in ToSet(yaml) : e.test # NoTest}
           tests == Those(yaml, S)
           params == <<[p |-> "PMPEnable", vals |-> {1}]>>
           d == DirectedModel
<1>1. yaml \in Seq(YamlEntries) /\ UniqueTests(yaml)
  BY DEF YamlOk
<1>2. tests \in Seq(YamlEntries) /\ ToSet(tests) = S
  <2>1. ToSet(yaml) \cap S = S
    OBVIOUS
  <2>2. QED
    BY <1>1, <2>1, ThoseFacts
<1>3. UniqueEntries(tests)
  <2>1. \A i, j \in 1..Len(yaml) :
           yaml[i] \in S /\ yaml[j] \in S /\ yaml[i].test = yaml[j].test => i = j
    BY <1>1 DEF UniqueTests
  <2> HIDE DEF S
  <2>2. QED
    BY <1>1, <2>1, NamesKept
<1>4. d = [i \in 1..Len(tests) |-> [test |-> tests[i].test, iterations |-> 1,
                                    rtl_params |-> params]]
  BY DEF DirectedModel
<1> HIDE DEF tests, d
<1>5. Len(tests) \in Nat /\ \A i \in 1..Len(tests) : tests[i] \in YamlEntries /\ tests[i] \in S
  BY <1>2, ElementsOf
<1>6. params \in Seq([p : Names, vals : SUBSET Int]) /\ Len(params) = 1
  <2>1. [p |-> "PMPEnable", vals |-> {1}] \in [p : Names, vals : SUBSET Int]
    BY DEF Names
  <2>2. QED
    BY <2>1
<1> HIDE DEF params
<1>7. \A i \in 1..Len(tests) :
         /\ d[i] \in Entries /\ d[i].test = tests[i].test
         /\ d[i].iterations = 1 /\ d[i].rtl_params = params
  BY <1>4, <1>5, <1>6 DEF Entries, YamlEntries
<1>8. d \in [1..Len(tests) -> Entries]
  BY <1>4, <1>7
<1>9. d \in Seq(Entries) /\ Len(d) = Len(tests)
  BY <1>5, <1>8, FunctionIsSeq
<1>10. UniqueEntries(d)
  BY <1>3, <1>7, <1>9 DEF UniqueEntries
<1>11. ASSUME NEW e \in ToSet(d)
       PROVE  OneParam(e) /\ e.iterations = 1 /\ e.test \in DirectedNames(yaml)
  <2>1. PICK i \in 1..Len(tests) : e = d[i]
    BY <1>9, ElementsOf
  <2>2. tests[i].test \in DirectedNames(yaml)
    BY <1>5 DEF DirectedNames
  <2>3. QED
    <3>1. Len(e.rtl_params) = 1 /\ e.iterations = 1 /\ e.test = tests[i].test
      BY <1>6, <1>7, <2>1
    <3>2. QED
      BY <2>2, <3>1 DEF OneParam
<1>12. QED
  BY <1>9, <1>10, <1>11 DEF d

-----------------------------------------------------------------------------
(* TestSelection: the two scripts.                                          *)

SelSteps == {"gen", "configs", "riscv-tests", "riscv-arch-tests", "epmp-tests", "args",
             "match", "filter", "create", "created", "printed", "error"}
Listed == [riscvdv |-> process_riscvdv_testlist, directed |-> process_directed_testlist]
Told == [riscvdv_tds |-> Tds("RISCVDV"), directed_tds |-> Tds("DIRECTED")]

\* The list being written has the names of the suites passed so far.
ListWritten ==
    /\ sel_step = "configs" => yaml = <<>>
    /\ sel_step = "riscv-tests" => DirectedNames(yaml) \subseteq ToSet(HandwrittenTests)
    /\ sel_step = "riscv-arch-tests" =>
          DirectedNames(yaml) \subseteq ToSet(HandwrittenTests) \cup ToSet(SuiteTests["riscv-tests"])
    /\ sel_step = "epmp-tests" =>
          DirectedNames(yaml) \subseteq ToSet(HandwrittenTests) \cup ToSet(SuiteTests["riscv-tests"])
                                        \cup ToSet(SuiteTests["riscv-arch-tests"])

SelInv ==
    /\ sel_step \in SelSteps
    /\ sel_args \in [test : TestArgs, iterations : IterationArgs, seed : SeedArgs]
    /\ YamlOk(yaml) /\ ListWritten
    /\ sel_step \in {"match", "filter", "create", "created", "printed"} =>
          sel_args.iterations = <<>> \/ sel_args.iterations[1] > 0
    /\ sel_step \in {"filter", "create", "created", "printed"} => matched = Listed
    /\ sel_step \in {"create", "created", "printed"} =>
          tests_and_counts = get_tests_and_counts /\ tests_and_counts # <<>>
    /\ sel_step \in {"created", "printed"} => tests_pickle_files = TestDotSeeds(tests_and_counts)
    /\ sel_step = "printed" => printed = Told

\* A list of some things is a list of more things.
LEMMA SeqOfMore ==
    ASSUME NEW A, NEW B, A \subseteq B
    PROVE  \A l : l \in Seq(A) => l \in Seq(B)
OBVIOUS

\* The list of riscv-dv tests.
LEMMA RiscvdvFacts ==
    /\ RiscvdvTests \in Seq(Entries) /\ UniqueEntries(RiscvdvTests)
    /\ OneParameter => \A e \in ToSet(RiscvdvTests) : OneParam(e)
<1> DEFINE P == [p : STRING, vals : SUBSET Int]
           Q == [p : Names, vals : SUBSET Int]
           T == [test : STRING, iterations : Int, rtl_params : Seq(P)]
<1>1. STRING \subseteq Names
  BY DEF Names
<1>2. P \subseteq Q
  BY <1>1
<1> HIDE DEF P, Q
<1>3. Seq(P) \subseteq Seq(Q)
  BY <1>2
<1>4. T \subseteq [test : Names, iterations : Int, rtl_params : Seq(Q)]
  BY <1>1, <1>3
<1>5. T \subseteq Entries
  BY <1>4 DEF Entries, Q
<1>6. RiscvdvTests \in Seq(T)
  BY SelectionTypes DEF P
<1> HIDE DEF T
<1>7. RiscvdvTests \in Seq(Entries)
  BY <1>5, <1>6
<1>8. UniqueEntries(RiscvdvTests)
  BY NamesUnique DEF UniqueEntries
<1>9. OneParameter => \A e \in ToSet(RiscvdvTests) : OneParam(e)
  BY DEF OneParam, OneParameter
<1>10. QED
  BY <1>7, <1>8, <1>9

\* The numbers of iterations that are asked for.
LEMMA IterationsPositive ==
    ASSUME SelInv, sel_step \in {"match", "filter", "create", "created", "printed"},
           NEW e, e.iterations \in Int, e.iterations > 0
    PROVE  Iterations(e) \in Nat \ {0}
<1>1. sel_args.iterations \in Seq(Int)
  BY SelectionTypes DEF SelInv
<1>2. CASE sel_args.iterations = <<>>
  BY <1>2 DEF Iterations, NoIterations
<1>3. CASE sel_args.iterations # <<>>
  <2>1. sel_args.iterations[1] \in Int
    BY <1>1, <1>3
  <2>2. sel_args.iterations[1] > 0
    BY <1>3 DEF SelInv
  <2>3. QED
    BY <1>3, <2>1, <2>2 DEF Iterations, NoIterations
<1>4. QED
  BY <1>2, <1>3

\* Both halves of tests_and_counts.
LEMMA CountsFacts ==
    ASSUME SelInv, sel_step \in {"create", "created", "printed"}
    PROVE  \E r, d \in Seq(Counts) :
              /\ tests_and_counts = r \o d
              /\ UniqueNames(d) /\ (OneParameter => UniqueNames(r))
              /\ \A i \in 1..Len(r) : r[i][3] = "RISCVDV" /\ r[i][1] \in RiscvdvNames
              /\ \A i \in 1..Len(d) : d[i][3] = "DIRECTED" /\ d[i][1] \notin RiscvdvNames
              /\ AskedRiscvdv \subseteq ToSet(r) /\ (OneParameter => ToSet(r) = AskedRiscvdv)
              /\ ToSet(d) = AskedDirected
<1> DEFINE R == RiscvdvTests
           D == DirectedModel
           all == sel_args.test \cap {"all", "all_riscvdv"} # {}
           S == {e \in ToSet(R) : (all \/ e.test \in sel_args.test) /\ e.iterations > 0}
           U == {e \in ToSet(D) : sel_args.test \cap {"all_directed", e.test} # {} /\ Iterations(e) > 0}
           r == Typed(filter_tests_by_config(WithIterations(Those(R, S))), "RISCVDV")
           d == Typed(filter_tests_by_config(WithIterations(Those(D, U))), "DIRECTED")
<1>1. /\ matched = Listed /\ tests_and_counts = get_tests_and_counts /\ YamlOk(yaml)
      /\ DirectedNames(yaml) \cap RiscvdvNames = {}
  BY DEF SelInv, YamlOk
<1>2. tests_and_counts = r \o d
  <2>1. matched.riscvdv = WithIterations(Those(R, S))
    BY <1>1 DEF Listed, process_riscvdv_testlist
  <2>2. matched.directed = WithIterations(Those(D, U))
    BY <1>1 DEF Listed, process_directed_testlist
  <2>3. QED
    BY <1>1, <2>1, <2>2 DEF get_tests_and_counts
<1>3. /\ R \in Seq(Entries) /\ UniqueEntries(R)
      /\ OneParameter => \A e \in ToSet(R) : OneParam(e)
      /\ \A e \in ToSet(R) : e.iterations \in Int
  <2>1. \A e \in ToSet(R) : e \in Entries
    BY RiscvdvFacts, ElementsOf
  <2>2. QED
    BY <2>1, RiscvdvFacts DEF Entries
<1>4. /\ D \in Seq(Entries) /\ UniqueEntries(D)
      /\ \A e \in ToSet(D) : OneParam(e) /\ e.iterations = 1 /\ e.test \in DirectedNames(yaml)
  BY <1>1, ModelFacts
<1>5. S \in SUBSET ToSet(R) /\ \A e \in S : Iterations(e) \in Nat \ {0}
  BY <1>3, IterationsPositive
<1>6. \A e \in ToSet(D) : Iterations(e) \in Nat \ {0}
  BY <1>4, IterationsPositive
<1>7. U \in SUBSET ToSet(D) /\ \A e \in U : Iterations(e) \in Nat \ {0}
  BY <1>6
<1> HIDE DEF R, D, S, U, r, d
<1>8. /\ r \in Seq(Counts)
      /\ {<<e.test, Iterations(e), "RISCVDV">> : e \in {x \in S : Supported(x)}} \subseteq ToSet(r)
      /\ \A i \in 1..Len(r) : r[i][3] = "RISCVDV" /\ \E e \in S : r[i][1] = e.test
  BY <1>3, <1>5, CountsAny DEF r
<1>8a. ASSUME OneParameter
       PROVE  /\ UniqueNames(r)
              /\ ToSet(r) = {<<e.test, Iterations(e), "RISCVDV">> : e \in {x \in S : Supported(x)}}
  BY <1>3, <1>5, <1>8a, CountsOf DEF r
<1>9. /\ d \in Seq(Counts) /\ UniqueNames(d)
      /\ ToSet(d) = {<<e.test, Iterations(e), "DIRECTED">> : e \in {x \in U : Supported(x)}}
      /\ \A i \in 1..Len(d) : d[i][3] = "DIRECTED"
  BY <1>4, <1>7, CountsOf DEF d
<1>10. {x \in S : Supported(x)}
         = {x \in ToSet(R) : /\ Asked(x, {"all", "all_riscvdv"}) /\ Supported(x)
                             /\ x.iterations > 0}
  BY DEF S, Asked
<1>11. {x \in U : Supported(x)} = {x \in ToSet(D) : Asked(x, {"all_directed"}) /\ Supported(x)}
  <2>1. \A x \in ToSet(D) : x \in U <=> Asked(x, {"all_directed"})
    BY <1>6 DEF U, Asked
  <2>2. QED
    BY <1>7, <2>1
<1>12. \A i \in 1..Len(r) : r[i][1] \in RiscvdvNames
  <2>1. ASSUME NEW i \in 1..Len(r) PROVE r[i][1] \in RiscvdvNames
    <3>1. PICK e \in S : r[i][1] = e.test
      BY <1>8
    <3>2. QED
      BY <1>5, <3>1 DEF RiscvdvNames, R
  <2>2. QED
    BY <2>1
<1>13. \A i \in 1..Len(d) : d[i][1] \notin RiscvdvNames
  <2>1. ASSUME NEW i \in 1..Len(d) PROVE d[i][1] \notin RiscvdvNames
    <3>1. d[i] \in ToSet(d)
      BY <1>9, ElementsOf
    <3>2. PICK e \in U : d[i] = <<e.test, Iterations(e), "DIRECTED">>
      BY <1>9, <3>1
    <3>3. e.test \in DirectedNames(yaml)
      BY <1>4, <1>7
    <3>4. QED
      BY <1>1, <3>2, <3>3
  <2>2. QED
    BY <2>1
<1>14. /\ AskedRiscvdv = {<<e.test, Iterations(e), "RISCVDV">> : e \in {x \in S : Supported(x)}}
       /\ AskedDirected = {<<e.test, Iterations(e), "DIRECTED">> : e \in {x \in U : Supported(x)}}
  BY <1>10, <1>11 DEF AskedRiscvdv, AskedDirected, R, D
<1>15. QED
  BY <1>2, <1>8, <1>8a, <1>9, <1>12, <1>13, <1>14

\* What the invariant says when the tests have been selected.
LEMMA SelInvCorrect ==
    ASSUME SelInv
    PROVE  SelectionCorrect
<1>1. SUFFICES ASSUME sel_step \in {"created", "printed"} PROVE SelectionCorrect
  BY DEF SelectionCorrect, SelectedOnce, SelectionExact
<1>2. PICK r \in Seq(Counts), d \in Seq(Counts) :
         /\ tests_and_counts = r \o d
         /\ UniqueNames(d) /\ (OneParameter => UniqueNames(r))
         /\ \A i \in 1..Len(r) : r[i][3] = "RISCVDV" /\ r[i][1] \in RiscvdvNames
         /\ \A i \in 1..Len(d) : d[i][3] = "DIRECTED" /\ d[i][1] \notin RiscvdvNames
         /\ AskedRiscvdv \subseteq ToSet(r) /\ (OneParameter => ToSet(r) = AskedRiscvdv)
         /\ ToSet(d) = AskedDirected
  BY <1>1, CountsFacts
<1>3. sel_args.seed \in Int /\ r \o d \in Seq(Counts) /\ r \o d # <<>>
      /\ tests_pickle_files = TestDotSeeds(r \o d)
  <2>1. sel_args.seed \in SeedArgs
    BY DEF SelInv
  <2>2. r \o d \in Seq(Counts)
    BY ConcatProperties
  <2>3. tests_and_counts # <<>> /\ tests_pickle_files = TestDotSeeds(tests_and_counts)
    BY <1>1 DEF SelInv
  <2>4. QED
    BY <1>2, <2>1, <2>2, <2>3, SelectionTypes
<1>4. tests_pickle_files # <<>>
  BY <1>3, TdsOnce
<1>5. ToSet(tests_and_counts) = ToSet(r) \cup ToSet(d)
  BY <1>2, ConcatSet
<1>6. SelectionExact
  <2>1. \A x \in ToSet(r) : x[3] = "RISCVDV"
    BY <1>2, ElementsOf
  <2>2. \A x \in ToSet(d) : x[3] = "DIRECTED"
    BY <1>2, ElementsOf
  <2>3. SelectedAs("RISCVDV") = ToSet(r) /\ SelectedAs("DIRECTED") = ToSet(d)
    BY <1>5, <2>1, <2>2 DEF SelectedAs
  <2>4. QED
    BY <1>2, <1>4, <2>3 DEF SelectionExact
<1>7. ASSUME sel_step = "printed", OneParameter PROVE SelectedOnce
  <2>1. UniqueNames(r \o d)
    <3>1. /\ Len(r \o d) = Len(r) + Len(d) /\ Len(r) \in Nat /\ Len(d) \in Nat
          /\ \A i \in 1..Len(r) : (r \o d)[i] = r[i]
          /\ \A i \in 1..Len(d) : (r \o d)[Len(r) + i] = d[i]
      BY ConcatProperties
    <3>2. SUFFICES ASSUME NEW i \in 1..(Len(r) + Len(d)), NEW j \in 1..(Len(r) + Len(d)),
                          (r \o d)[i][1] = (r \o d)[j][1]
                   PROVE  i = j
      BY <3>1 DEF UniqueNames
    <3>3. /\ i \in 1..Len(r) \/ (i - Len(r) \in 1..Len(d) /\ Len(r) + (i - Len(r)) = i)
          /\ j \in 1..Len(r) \/ (j - Len(r) \in 1..Len(d) /\ Len(r) + (j - Len(r)) = j)
      BY <3>1
    <3>4. /\ \A k \in 1..Len(r) : r[k][1] \in RiscvdvNames
          /\ \A k \in 1..Len(d) : d[k][1] \notin RiscvdvNames
      BY <1>2
    <3>5. CASE i \in 1..Len(r) /\ j \in 1..Len(r)
      BY <1>2, <1>7, <3>1, <3>2, <3>5 DEF UniqueNames
    <3>6. CASE i \in 1..Len(r) /\ j \notin 1..Len(r)
      BY <3>1, <3>2, <3>3, <3>4, <3>6
    <3>7. CASE i \notin 1..Len(r) /\ j \in 1..Len(r)
      BY <3>1, <3>2, <3>3, <3>4, <3>7
    <3>8. CASE i \notin 1..Len(r) /\ j \notin 1..Len(r)
      <4>1. PICK k \in 1..Len(d), l \in 1..Len(d) : i = Len(r) + k /\ j = Len(r) + l
        BY <3>3, <3>8
      <4>1a. d[k][1] = d[l][1]
        BY <3>1, <3>2, <4>1
      <4>1b. k = l
        BY <1>2, <4>1a DEF UniqueNames
      <4>2. QED
        BY <4>1, <4>1b
    <3>9. QED
      BY <3>5, <3>6, <3>7, <3>8
  <2>2. tests_pickle_files \in Seq(Names \X Int) /\ Once(tests_pickle_files)
    BY <1>3, <2>1, TdsOnce
  <2>3. printed = Told
    BY <1>7 DEF SelInv
  <2> DEFINE tc == tests_and_counts
             S == {x \in ToSet(tc) : x[3] = "RISCVDV"}
             U == {x \in ToSet(tc) : x[3] = "DIRECTED"}
  <2>4. /\ ToSet(r) \subseteq S /\ ToSet(r) \cap U = {}
        /\ ToSet(d) \subseteq U /\ ToSet(d) \cap S = {}
    <3>1. \A x \in ToSet(r) : x[3] = "RISCVDV" /\ x \in ToSet(tc)
      <4>1. \A x \in ToSet(r) : x[3] = "RISCVDV"
        BY <1>2, ElementsOf
      <4>2. QED
        BY <1>5, <4>1
    <3>2. \A x \in ToSet(d) : x[3] = "DIRECTED" /\ x \in ToSet(tc)
      <4>1. \A x \in ToSet(d) : x[3] = "DIRECTED"
        BY <1>2, ElementsOf
      <4>2. QED
        BY <1>5, <4>1
    <3>3. QED
      BY <3>1, <3>2
  <2> HIDE DEF S, U
  <2>5. Those(tc, S) = r /\ Those(tc, U) = d
    <3>1. /\ Those(r, S) = r /\ Those(d, S) = <<>>
          /\ Those(r, U) = <<>> /\ Those(d, U) = d
      BY <2>4, ThoseAllNone
    <3>2. /\ Those(r \o d, S) = Those(r, S) \o Those(d, S)
          /\ Those(r \o d, U) = Those(r, U) \o Those(d, U)
      BY ThoseConcat
    <3>3. r \o <<>> = r /\ <<>> \o d = d
      OBVIOUS
    <3>4. QED
      BY <1>2, <3>1, <3>2, <3>3
  <2>6. printed.riscvdv_tds = TestDotSeeds(r) /\ printed.directed_tds = TestDotSeeds(d)
    BY <2>3, <2>5 DEF Told, Tds, S, U
  <2> DEFINE a == TestDotSeeds(r)
             b == TestDotSeeds(d)
  <2>7. /\ a \in Seq(Names \X Int) /\ b \in Seq(Names \X Int)
        /\ tests_pickle_files = a \o b
    BY <1>3, TdsOnce, TdsConcat
  <2> HIDE DEF a, b
  <2>8. ToSet(a) \cap ToSet(b) = {}
    <3>1. SUFFICES ASSUME NEW x, x \in ToSet(a), x \in ToSet(b) PROVE FALSE
      OBVIOUS
    <3>2. PICK i \in 1..Len(a) : x = a[i]
      BY <2>7, <3>1, ElementsOf
    <3>3. PICK j \in 1..Len(b) : x = b[j]
      BY <2>7, <3>1, ElementsOf
    <3>4. /\ Len(a \o b) = Len(a) + Len(b) /\ Len(a) \in Nat /\ Len(b) \in Nat
          /\ (a \o b)[i] = a[i] /\ (a \o b)[Len(a) + j] = b[j]
      BY <2>7, ConcatProperties
    <3>5. i \in 1..Len(a \o b) /\ Len(a) + j \in 1..Len(a \o b) /\ i # Len(a) + j
      BY <3>4
    <3>6. QED
      BY <2>2, <2>7, <3>2, <3>3, <3>4, <3>5 DEF Once
  <2>9. DOMAIN tests_pickle_files = 1..Len(tests_pickle_files)
    BY <2>2
  <2>10. QED
    BY <2>2, <2>6, <2>7, <2>8, <2>9 DEF SelectedOnce, Once, a, b
<1>8. QED
  BY <1>1, <1>6, <1>7 DEF SelectionCorrect, SelectedOnce

\* What the steps after the lists are written compute depends on nothing that
\* they change.
LEMMA SelKept ==
    ASSUME UNCHANGED <<yaml, sel_args>>
    PROVE  /\ Listed' = Listed /\ (YamlOk(yaml))' = YamlOk(yaml)
           /\ matched' = matched => get_tests_and_counts' = get_tests_and_counts
           /\ tests_and_counts' = tests_and_counts =>
                 Told' = Told /\ TestDotSeeds(tests_and_counts)' = TestDotSeeds(tests_and_counts)
<1>1. DirectedModel' = DirectedModel
  BY DEF DirectedModel
<1>2. Listed' = Listed
  BY <1>1 DEF Listed, process_riscvdv_testlist, process_directed_testlist, WithIterations, Iterations
<1>3. (YamlOk(yaml))' = YamlOk(yaml)
  OBVIOUS
<1>4. matched' = matched => get_tests_and_counts' = get_tests_and_counts
  BY DEF get_tests_and_counts
<1>5. tests_and_counts' = tests_and_counts =>
         Told' = Told /\ TestDotSeeds(tests_and_counts)' = TestDotSeeds(tests_and_counts)
  BY DEF Told, Tds, TestDotSeeds
<1>6. QED
  BY <1>2, <1>3, <1>4, <1>5

\* The invariant holds when either script starts.
LEMMA SelInvInit ==
    ASSUME SelInit
    PROVE  SelInv
<1>1. sel_step \in {"gen", "args"} /\ yaml \in OldLists
      /\ sel_args \in [test : TestArgs, iterations : IterationArgs, seed : SeedArgs]
  BY DEF SelInit
<1>2. YamlOk(yaml)
  <2>1. yaml \in Seq([config : STRING, test : STRING])
    BY <1>1, SelectionTypes
  <2>2. [config : STRING, test : STRING] \subseteq YamlEntries
    BY DEF YamlEntries, Names
  <2>3. yaml \in Seq(YamlEntries)
    BY <2>1, <2>2, SeqOfMore
  <2>4. UniqueTests(yaml) /\ DirectedNames(yaml) \cap RiscvdvNames = {}
    BY <1>1, NamesUnique DEF RiscvdvNames
  <2>5. QED
    BY <2>3, <2>4 DEF YamlOk
<1>3. QED
  BY <1>1, <1>2 DEF SelInv, ListWritten, SelSteps

\* The suites, and the names in them.
LEMMA SuiteFacts ==
    /\ Len(Suites) = 3
    /\ Suites[1] = "riscv-tests" /\ Suites[2] = "riscv-arch-tests" /\ Suites[3] = "epmp-tests"
    /\ ToSet(Suites) = {"riscv-tests", "riscv-arch-tests", "epmp-tests"}
    /\ \A s \in ToSet(Suites) :
          /\ s \in Names /\ SuiteTests[s] \in Seq(Names) /\ IsInjective(SuiteTests[s])
          /\ ToSet(SuiteTests[s]) \cap (RiscvdvNames \cup {NoTest}) = {}
          /\ ToSet(HandwrittenTests) \cap ToSet(SuiteTests[s]) = {}
    /\ \A s, t \in ToSet(Suites) : s # t => ToSet(SuiteTests[s]) \cap ToSet(SuiteTests[t]) = {}
    /\ HandwrittenTests \in Seq(Names) /\ IsInjective(HandwrittenTests)
    /\ ToSet(HandwrittenTests) \cap (RiscvdvNames \cup {NoTest}) = {}
<1>1. /\ Len(Suites) = 3
      /\ Suites[1] = "riscv-tests" /\ Suites[2] = "riscv-arch-tests" /\ Suites[3] = "epmp-tests"
  BY DEF Suites
<1>2. DOMAIN Suites = 1..3
  BY DEF Suites
<1>3. 1..3 = {1, 2, 3}
  OBVIOUS
<1>4. ToSet(Suites) = {"riscv-tests", "riscv-arch-tests", "epmp-tests"}
  BY <1>1, <1>2, <1>3 DEF ToSet
<1>5. \A s \in ToSet(Suites) : s \in Names
  BY <1>1, <1>4 DEF Names
<1>6. STRING \subseteq Names
  BY DEF Names
<1>7. /\ \A s \in ToSet(Suites) : SuiteTests[s] \in Seq(Names)
      /\ HandwrittenTests \in Seq(Names)
  BY <1>6, SeqOfMore, SelectionTypes
<1>8. /\ \A s \in ToSet(Suites) :
            /\ IsInjective(SuiteTests[s])
            /\ ToSet(SuiteTests[s]) \cap (RiscvdvNames \cup {NoTest}) = {}
            /\ ToSet(HandwrittenTests) \cap ToSet(SuiteTests[s]) = {}
      /\ \A s, t \in ToSet(Suites) : s # t => ToSet(SuiteTests[s]) \cap ToSet(SuiteTests[t]) = {}
      /\ IsInjective(HandwrittenTests)
      /\ ToSet(HandwrittenTests) \cap (RiscvdvNames \cup {NoTest}) = {}
  BY NamesUnique, Zenon DEF RiscvdvNames
<1>9. QED
  BY <1>1, <1>4, <1>5, <1>7, <1>8

\* A suite's tests, appended to a list that has none of their names.
LEMMA SuiteAppended ==
    ASSUME YamlOk(yaml), NEW s \in ToSet(Suites),
           DirectedNames(yaml) \cap ToSet(SuiteTests[s]) = {},
           yaml' = IF s \in ToSet(suites) \/ suites = <<"all">>
                   THEN yaml \o [k \in 1..Len(SuiteTests[s]) |->
                                   DirectedEntry(SuiteTests[s][k], s)]
                   ELSE yaml
    PROVE  /\ YamlOk(yaml')
           /\ DirectedNames(yaml') \subseteq DirectedNames(yaml) \cup ToSet(SuiteTests[s])
<1> DEFINE l == SuiteTests[s]
           z == [k \in 1..Len(l) |-> DirectedEntry(l[k], s)]
<1>1. /\ s \in Names /\ l \in Seq(Names) /\ IsInjective(l)
      /\ ToSet(l) \cap (RiscvdvNames \cup {NoTest}) = {}
  BY SuiteFacts
<1>2. yaml' = yaml \o z \/ yaml' = yaml
  OBVIOUS
<1> HIDE DEF l
<1>3. YamlOk(z) /\ DirectedNames(z) = ToSet(l)
  BY <1>1, YamlOfNames
<1> HIDE DEF z
<1>4. DirectedNames(yaml) \cap DirectedNames(z) = {}
  BY <1>3 DEF l
<1>5. /\ YamlOk(yaml \o z)
      /\ DirectedNames(yaml \o z) = DirectedNames(yaml) \cup DirectedNames(z)
  BY <1>3, <1>4, YamlConcat
<1>6. CASE yaml' = yaml
  BY <1>6
<1>7. CASE yaml' = yaml \o z
  BY <1>3, <1>5, <1>7 DEF l
<1>8. QED
  BY <1>2, <1>6, <1>7

\* What gen_testlist starts a list with.
LEMMA HandwrittenAppended ==
    ASSUME yaml = <<>>, add_configs_and_handwritten_directed_tests
    PROVE  YamlOk(yaml') /\ DirectedNames(yaml') \subseteq ToSet(HandwrittenTests)
<1> DEFINE l == HandwrittenTests
           s == "riscv-tests"
           y == [i \in 1..Len(Suites) |-> ConfigEntry(Suites[i])]
           z == [i \in 1..Len(l) |-> DirectedEntry(l[i], s)]
<1>1. yaml' = <<>> \o y \o z
  BY DEF add_configs_and_handwritten_directed_tests
<1>2. YamlOk(y) /\ DirectedNames(y) = {}
  BY YamlOfConfigs
<1>3. s \in Names
  BY SuiteFacts
<1>4. /\ l \in Seq(Names) /\ IsInjective(l)
      /\ ToSet(l) \cap (RiscvdvNames \cup {NoTest}) = {}
  BY SuiteFacts
<1> HIDE DEF l, s, y
<1>5. YamlOk(z) /\ DirectedNames(z) = ToSet(l)
  BY <1>3, <1>4, YamlOfNames
<1> HIDE DEF z
<1>6. <<>> \o y = y
  <2>1. y \in Seq(YamlEntries)
    BY <1>2 DEF YamlOk
  <2>2. QED
    BY <2>1
<1>7. YamlOk(y \o z) /\ DirectedNames(y \o z) = DirectedNames(y) \cup DirectedNames(z)
  BY <1>2, <1>5, YamlConcat
<1>8. QED
  BY <1>1, <1>2, <1>5, <1>6, <1>7 DEF l

\* Every step keeps the invariant.
LEMMA SelInvStep ==
    ASSUME SelInv, [SelNext]_selVars
    PROVE  SelInv'
<1>1. CASE GenTruncate
  <2>1. YamlOk(<<>>)
    <3>1. <<>> \in Seq(YamlEntries) /\ Len(<<>>) = 0
      OBVIOUS
    <3>2. DirectedNames(<<>>) = {}
      BY DEF DirectedNames, ToSet
    <3>3. UniqueTests(<<>>)
      BY <3>1 DEF UniqueTests
    <3>4. QED
      BY <3>1, <3>2, <3>3 DEF YamlOk
  <2>2. yaml' = <<>> /\ sel_step' = "configs" /\ sel_args' = sel_args
    BY <1>1 DEF GenTruncate
  <2>3. YamlOk(yaml)'
    BY <2>1, <2>2
  <2>4. QED
    BY <2>2, <2>3 DEF SelInv, ListWritten, SelSteps
<1>2. CASE add_configs_and_handwritten_directed_tests
  <2>1. sel_step = "configs" /\ sel_step' = "riscv-tests" /\ sel_args' = sel_args
    BY <1>2, SuiteFacts DEF add_configs_and_handwritten_directed_tests
  <2>2. yaml = <<>>
    BY <2>1 DEF SelInv, ListWritten
  <2>3. YamlOk(yaml)' /\ DirectedNames(yaml') \subseteq ToSet(HandwrittenTests)
    BY <1>2, <2>2, HandwrittenAppended
  <2>4. QED
    BY <2>1, <2>3 DEF SelInv, ListWritten, SelSteps
<1>3. CASE append_directed_testlist
  <2>1. PICK i \in 1..Len(Suites) :
           /\ sel_step = Suites[i]
           /\ yaml' = IF Suites[i] \in ToSet(suites) \/ suites = <<"all">>
                      THEN yaml \o [k \in 1..Len(SuiteTests[Suites[i]]) |->
                                      DirectedEntry(SuiteTests[Suites[i]][k], Suites[i])]
                      ELSE yaml
           /\ sel_step' = IF i = Len(Suites) THEN "args" ELSE Suites[i + 1]
           /\ sel_args' = sel_args
    BY <1>3 DEF append_directed_testlist
  <2>2. i = 1 \/ i = 2 \/ i = 3
    BY SuiteFacts
  <2>3. Suites[i] \in ToSet(Suites)
    BY <2>2, SuiteFacts
  <2>4. /\ i = 1 => sel_step = "riscv-tests" /\ sel_step' = "riscv-arch-tests"
        /\ i = 2 => sel_step = "riscv-arch-tests" /\ sel_step' = "epmp-tests"
        /\ i = 3 => sel_step = "epmp-tests" /\ sel_step' = "args"
    BY <2>1, SuiteFacts
  <2> DEFINE H == ToSet(HandwrittenTests)
             T(s) == ToSet(SuiteTests[s])
  <2>5. /\ i = 1 => DirectedNames(yaml) \subseteq H
        /\ i = 2 => DirectedNames(yaml) \subseteq H \cup T("riscv-tests")
        /\ i = 3 => DirectedNames(yaml) \subseteq H \cup T("riscv-tests") \cup T("riscv-arch-tests")
    BY <2>4 DEF SelInv, ListWritten
  <2>6. /\ \A s \in ToSet(Suites) : H \cap T(s) = {}
        /\ \A s, t \in ToSet(Suites) : s # t => T(s) \cap T(t) = {}
    BY SuiteFacts
  <2>7. /\ i = 1 => Suites[i] = "riscv-tests"
        /\ i = 2 => Suites[i] = "riscv-arch-tests"
        /\ i = 3 => Suites[i] = "epmp-tests"
        /\ ToSet(Suites) = {"riscv-tests", "riscv-arch-tests", "epmp-tests"}
    BY SuiteFacts
  <2> HIDE DEF H, T
  <2>8. DirectedNames(yaml) \cap T(Suites[i]) = {}
    BY <2>2, <2>5, <2>6, <2>7
  <2>9. YamlOk(yaml)
    BY DEF SelInv
  <2>10. YamlOk(yaml') /\ DirectedNames(yaml') \subseteq DirectedNames(yaml) \cup T(Suites[i])
    BY <2>1, <2>3, <2>8, <2>9, SuiteAppended DEF T
  <2>11. /\ i = 1 => DirectedNames(yaml') \subseteq H \cup T("riscv-tests")
         /\ i = 2 => DirectedNames(yaml') \subseteq H \cup T("riscv-tests") \cup T("riscv-arch-tests")
    BY <2>5, <2>7, <2>10
  <2>12. ListWritten'
    BY <2>2, <2>4, <2>11 DEF ListWritten, H, T
  <2>13. QED
    BY <2>1, <2>2, <2>4, <2>10, <2>12 DEF SelInv, SelSteps
<1>4. CASE arg_list_initializer
  <2>1. /\ sel_step = "args" /\ UNCHANGED <<yaml, sel_args>> /\ sel_step' \in {"error", "match"}
        /\ sel_step' = "match" => ~(sel_args.iterations # NoIterations /\ sel_args.iterations[1] <= 0)
    BY <1>4 DEF arg_list_initializer, Raise
  <2>2. sel_args.iterations # <<>> => sel_args.iterations[1] \in Int
    <3>1. sel_args.iterations \in Seq(Int)
      BY SelectionTypes DEF SelInv
    <3>2. QED
      BY <3>1
  <2>3. sel_step' = "match" => sel_args'.iterations = <<>> \/ sel_args'.iterations[1] > 0
    BY <2>1, <2>2 DEF NoIterations
  <2>4. QED
    BY <2>1, <2>3 DEF SelInv, ListWritten, SelSteps
<1>5. CASE Match
  <2>1. /\ sel_step = "match" /\ UNCHANGED <<yaml, sel_args>> /\ sel_step' \in {"filter", "error"}
        /\ matched' = Listed
    BY <1>5 DEF Match, Raise, Listed
  <2>2. Listed' = Listed
    BY <2>1, SelKept
  <2>3. matched' = Listed'
    BY <2>1, <2>2
  <2>4. QED
    BY <2>1, <2>3 DEF SelInv, ListWritten, SelSteps
<1>6. CASE Filter
  <2>1. /\ sel_step = "filter" /\ UNCHANGED <<yaml, sel_args, matched>> /\ sel_step' \in {"create", "error"}
        /\ sel_step' = "create" =>
              tests_and_counts' = get_tests_and_counts /\ tests_and_counts' # <<>>
    BY <1>6 DEF Filter, Raise
  <2>2. Listed' = Listed /\ get_tests_and_counts' = get_tests_and_counts
    BY <2>1, SelKept
  <2>3. /\ sel_step' = "create" =>
              tests_and_counts' = get_tests_and_counts' /\ tests_and_counts' # <<>>
        /\ matched' = Listed'
    BY <2>1, <2>2 DEF SelInv
  <2>4. QED
    BY <2>1, <2>3 DEF SelInv, ListWritten, SelSteps
<1>7. CASE CreateTests
  <2>1. /\ sel_step = "create" /\ UNCHANGED <<yaml, sel_args, matched, tests_and_counts>>
        /\ sel_step' = "created" /\ tests_pickle_files' = TestDotSeeds(tests_and_counts)
    BY <1>7 DEF CreateTests
  <2>2. /\ Listed' = Listed /\ get_tests_and_counts' = get_tests_and_counts
        /\ TestDotSeeds(tests_and_counts)' = TestDotSeeds(tests_and_counts)
    BY <2>1, SelKept
  <2>3. /\ matched' = Listed' /\ tests_and_counts' = get_tests_and_counts'
        /\ tests_and_counts' # <<>> /\ tests_pickle_files' = TestDotSeeds(tests_and_counts)'
    BY <2>1, <2>2 DEF SelInv
  <2>4. QED
    BY <2>1, <2>3 DEF SelInv, ListWritten, SelSteps
<1>8. CASE PrintField
  <2>1. /\ sel_step = "created" /\ sel_step' = "printed" /\ printed' = Told
        /\ UNCHANGED <<yaml, sel_args, matched, tests_and_counts, tests_pickle_files>>
    BY <1>8 DEF PrintField, Told
  <2>2. /\ Listed' = Listed /\ get_tests_and_counts' = get_tests_and_counts
        /\ TestDotSeeds(tests_and_counts)' = TestDotSeeds(tests_and_counts)
        /\ Told' = Told
    BY <2>1, SelKept
  <2>3. /\ matched' = Listed' /\ tests_and_counts' = get_tests_and_counts'
        /\ tests_and_counts' # <<>> /\ tests_pickle_files' = TestDotSeeds(tests_and_counts)'
        /\ printed' = Told'
    BY <2>1, <2>2 DEF SelInv
  <2>4. QED
    BY <2>1, <2>3 DEF SelInv, ListWritten, SelSteps
<1>9. CASE UNCHANGED selVars
  <2>1. UNCHANGED <<yaml, sel_args, sel_step, matched, tests_and_counts, tests_pickle_files, printed>>
    BY <1>9 DEF selVars
  <2>2. /\ Listed' = Listed /\ get_tests_and_counts' = get_tests_and_counts
        /\ TestDotSeeds(tests_and_counts)' = TestDotSeeds(tests_and_counts)
        /\ Told' = Told /\ YamlOk(yaml)' = YamlOk(yaml)
    BY <2>1, SelKept
  <2>3. ListWritten' = ListWritten
    BY <2>1 DEF ListWritten
  <2>4. QED
    BY <2>1, <2>2, <2>3 DEF SelInv
<1>10. QED
  BY <1>1, <1>2, <1>3, <1>4, <1>5, <1>6, <1>7, <1>8, <1>9 DEF SelNext

\* For every list of tests whose names are unique and every argument: no test
\* that was asked for and that the configuration supports is lost, and no
\* directed test is added unless "all" was asked for, of which nothing is said.
\* If moreover every riscv-dv test has one parameter at most, no other one is
\* added and each test runs once per seed with a pickle of its own; with two,
\* filter_tests_by_config can keep a test the configuration does not support.
THEOREM SelectionAlwaysCorrect == SelSpec => []SelectionCorrect
<1>1. SelInit => SelInv
  BY SelInvInit
<1>2. SelInv /\ [SelNext]_selVars => SelInv'
  BY SelInvStep
<1>3. SelInv => SelectionCorrect
  BY SelInvCorrect
<1>4. QED
  BY <1>1, <1>2, <1>3, PTL DEF SelSpec
=============================================================================
