--------------------------- MODULE ProcessRunner ---------------------------
(***************************************************************************)
(* The process runner of the formal flow (dv/formal/conductor.py): prover  *)
(* processes wait in `pending', run in `running', are preempted when       *)
(* memory is short, time out, or are given up when their future is         *)
(* cancelled.  Every handler runs to its end on the asyncio loop, so each  *)
(* is one action; the prover processes themselves run beside it.           *)
(* Memory is counted in GB.                                                *)
(***************************************************************************)
EXTENDS Integers, Sequences, SequencesExt, FiniteSetsExt, Functions

CONSTANTS Procs,       \* the processes that are ever submitted
          Need,          \* peak memory of each
          Expected0,     \* expected_memory they are submitted with
          Timed,         \* those with a timeout
          Chatty,        \* those that fill the unread stdout pipe and block
          MemLevels,     \* the memory sizes told apart
          TotalMem,      \* memory of the machine
          MaxMems,       \* values of --max-mem, 0 when not given
          MAX_RUNNING    \* CPUs less two

ASSUME ProcessRunnerAssumption ==
    /\ Need \in [Procs -> MemLevels] /\ Expected0 \in [Procs -> Nat]
    /\ Timed \subseteq Procs /\ Chatty \subseteq Procs
    /\ MemLevels \subseteq Nat /\ 0 \in MemLevels
    /\ TotalMem \in Nat /\ MaxMems \subseteq Nat
    /\ MAX_RUNNING \in Nat \ {0}     \* more than two CPUs

GLOBAL_MEMORY_BUFFER == 5
MIN_CHARGE == 3     \* what the runner counts a process for, at least

VARIABLES args,             \* [no_kill, max_mem], fixed when the program starts
          pending, running,
          future,           \* what the caller of shell() waits for
          kill,             \* Process.kill_ between two handlers
          os,               \* the subprocess
          rss,              \* its memory now
          max_memory, expected_memory,
          overdue           \* running longer than the timeout

procVars == <<future, kill, os, rss, max_memory, expected_memory, overdue>>
vars == <<args, pending, running, procVars>>

Results == {"OK", "TIMEOUT", "UNINTERESTED"}

TypeOK ==
    /\ args \in [no_kill : BOOLEAN, max_mem : MaxMems]
    /\ pending \in Seq(Procs) /\ running \in Seq(Procs)
    /\ future \in [Procs -> Results \cup {"none", "waiting", "cancelled"}]
    /\ kill \in [Procs -> {"none", "kill"}]
    /\ os \in [Procs -> {"none", "alive", "exited", "killed"}]
    /\ rss \in [Procs -> MemLevels] /\ max_memory \in [Procs -> MemLevels]
    /\ expected_memory \in [Procs -> Nat]
    /\ overdue \subseteq Timed

-----------------------------------------------------------------------------
(* Memory *)

global_memory_free == TotalMem - SumFunction(rss)

children_used_mem == SumFunctionOnSet(max_memory, ToSet(running))

mem_avail ==
    IF args.max_mem = 0
    THEN global_memory_free
    ELSE Min({global_memory_free, Max({args.max_mem - children_used_mem, 0})})

Charge(m) == Max({m, MIN_CHARGE})

-----------------------------------------------------------------------------
(* ProcessRunner.poll, first loop: preempt the youngest processes.          *)

\* Free memory as the loop counts it once the k youngest are preempted.
FreeAfter(k) ==
    mem_avail + MapThenSumSet(LAMBDA i : Charge(max_memory[running[i]]),
                              (Len(running) - k + 1)..Len(running))

\* Mutant: the last process is preempted too.
KillsAll ==
    IF args.no_kill THEN 0
    ELSE Min({k \in 0..Len(running) : \/ FreeAfter(k) >= GLOBAL_MEMORY_BUFFER
                                      \/ Len(running) - k <= 0})

Kills ==
    IF args.no_kill THEN 0
    ELSE Min({k \in 0..Len(running) : \/ FreeAfter(k) >= GLOBAL_MEMORY_BUFFER
                                      \/ Len(running) - k <= 1})

\* The victims in the order the loop pops them.
Youngest(k) == Reverse(SubSeq(running, Len(running) - k + 1, Len(running)))

Queue(victims) == pending \o victims

\* Process.poll with kill_ = "restart": the peak seen becomes the expectation.
ExpectedAfter(victims) ==
    [p \in Procs |-> IF p \in ToSet(victims)
                     THEN Max({expected_memory[p], max_memory[p], rss[p]})
                     ELSE expected_memory[p]]

\* ... and kill_ is forgotten, whatever it was before kill_restart() set it.
KillAfter(victims) ==
    [p \in Procs |-> IF p \in ToSet(victims) THEN "none" ELSE kill[p]]

-----------------------------------------------------------------------------
(* ProcessRunner.poll, second loop: start from the end of the queue.        *)

\* queue is what is pending now, free the memory the first loop counts, exp the
\* expectations: the number of processes started beside `active' others.
Starts(queue, free, exp, active) ==
    LET fromEnd(j) == exp[queue[Len(queue) - j]]
        freeFor(j) == free - MapThenSumSet(LAMBDA i : Charge(fromEnd(i)), 0..(j - 1))
    IN  Max({m \in 0..Len(queue) : \A j \in 0..(m - 1) :
                /\ active + j < MAX_RUNNING
                /\ freeFor(j) > fromEnd(j) + GLOBAL_MEMORY_BUFFER})

-----------------------------------------------------------------------------
(* ProcessRunner.poll, third loop: Process.poll of every running process.   *)

\* Mutant: the timeout is not looked at.
ReasonNoTimeout(p, fresh, killNow) ==
    CASE p \notin fresh /\ os[p] = "exited" /\ killNow[p] = "none" -> "OK"
      [] killNow[p] = "kill" -> "UNINTERESTED"
      [] OTHER -> "running"

\* The branches of Process.poll, in the order the code tries them.
Reason(p, fresh, killNow) ==
    CASE p \notin fresh /\ os[p] = "exited" /\ killNow[p] = "none" -> "OK"
      [] p \notin fresh /\ p \in overdue -> "TIMEOUT"
      [] killNow[p] = "kill" -> "UNINTERESTED"
      [] OTHER -> "running"

\* The results of those that are done, unless their future is cancelled.
Deliver(done, reason) ==
    [p \in Procs |-> IF p \in done /\ future[p] = "waiting" THEN reason[p] ELSE future[p]]

\* Mutant: a preempted process is left running.
OsAfterNoKill(done, victims, fresh) ==
    [p \in Procs |-> IF p \in done THEN "killed" ELSE IF p \in fresh THEN "alive" ELSE os[p]]

\* Those done or preempted are killed, those (re)started live.
OsAfter(done, victims, fresh) ==
    [p \in Procs |-> IF p \in done \cup (ToSet(victims) \ fresh) THEN "killed"
                     ELSE IF p \in fresh THEN "alive" ELSE os[p]]

\* The loop over running: those that are not done stay, in their order.
StillRunning(s, done) ==
    LET left[n \in 0..Len(s)] ==
          IF n = 0 THEN <<>>
          ELSE IF s[n] \in done THEN left[n - 1] ELSE Append(left[n - 1], s[n])
    IN  left[Len(s)]

\* kept and started run now, victims were preempted; reason is the outcome of
\* polling each process.
PollRunning(kept, victims, started, reason) ==
    LET fresh == ToSet(started)
        done == {p \in ToSet(kept \o started) : reason[p] # "running"}
    IN  /\ running' = StillRunning(kept \o started, done)
        /\ future' = Deliver(done, reason)
        /\ os' = OsAfter(done, victims, fresh)
        /\ rss' = [p \in Procs |-> IF p \in done \cup ToSet(victims) \cup fresh
                                   THEN 0 ELSE rss[p]]
        /\ max_memory' = [p \in Procs |-> IF p \in fresh THEN 0
                                          ELSE Max({max_memory[p], rss[p]})]
        /\ overdue' = (overdue \cap ToSet(kept)) \ done

Poll ==
    \E victims \in {Youngest(Kills)} :
    \E exp \in {ExpectedAfter(victims)} :
        LET kills == Len(victims)
            kept == SubSeq(running, 1, Len(running) - kills)
            queue == Queue(victims)
        IN  \E m \in {Starts(queue, FreeAfter(kills), exp, Len(kept))} :
            \E started \in {Reverse(SubSeq(queue, Len(queue) - m + 1, Len(queue)))} :
                /\ pending' = SubSeq(queue, 1, Len(queue) - m)
                /\ expected_memory' = exp
                /\ kill' = KillAfter(victims)
                /\ PollRunning(kept, victims, started,
                       [p \in Procs |-> Reason(p, ToSet(started), KillAfter(victims))])
                /\ UNCHANGED args

-----------------------------------------------------------------------------
(* The callers of shell(): submit a process, cancel its future.             *)

shell(p) ==
    /\ future[p] = "none"
    /\ future' = [future EXCEPT ![p] = "waiting"]
    /\ pending' = <<p>> \o pending
    /\ UNCHANGED <<args, running, kill, os, rss, max_memory, expected_memory, overdue>>

\* Mutant: the process is not told.
CancelQuietly(p) ==
    /\ future[p] = "waiting"
    /\ future' = [future EXCEPT ![p] = "cancelled"]
    /\ UNCHANGED <<args, pending, running, kill, os, rss, max_memory, expected_memory, overdue>>

Cancel(p) ==
    /\ future[p] = "waiting"
    /\ future' = [future EXCEPT ![p] = "cancelled"]
    /\ kill' = [kill EXCEPT ![p] = "kill"]
    /\ UNCHANGED <<args, pending, running, os, rss, max_memory, expected_memory, overdue>>

-----------------------------------------------------------------------------
(* The subprocesses (external).                                             *)

Grow(p) ==
    /\ os[p] = "alive"
    /\ \E r \in MemLevels : /\ rss[p] < r /\ r <= Need[p]
                            /\ r - rss[p] <= global_memory_free
                            /\ rss' = [rss EXCEPT ![p] = r]
    /\ UNCHANGED <<args, pending, running, future, kill, os, max_memory,
                   expected_memory, overdue>>

\* A process that has reached its peak ends, unless it is stuck on the pipe.
Exit(p) ==
    /\ os[p] = "alive" /\ rss[p] = Need[p] /\ p \notin Chatty
    /\ os' = [os EXCEPT ![p] = "exited"]
    /\ rss' = [rss EXCEPT ![p] = 0]
    /\ UNCHANGED <<args, pending, running, future, kill, max_memory,
                   expected_memory, overdue>>

\* The kernel kills a process when another one finds no memory left.
OomKill(p) ==
    /\ os[p] = "alive"
    /\ \E q \in Procs : os[q] = "alive" /\ Need[q] - rss[q] > global_memory_free
    /\ os' = [os EXCEPT ![p] = "exited"]
    /\ rss' = [rss EXCEPT ![p] = 0]
    /\ UNCHANGED <<args, pending, running, future, kill, max_memory,
                   expected_memory, overdue>>

TimeUp(p) ==
    /\ p \in Timed /\ p \in ToSet(running) /\ p \notin overdue
    /\ overdue' = overdue \cup {p}
    /\ UNCHANGED <<args, pending, running, future, kill, os, rss, max_memory,
                   expected_memory>>

-----------------------------------------------------------------------------
Init ==
    /\ args \in [no_kill : BOOLEAN, max_mem : MaxMems]
    /\ pending = <<>> /\ running = <<>>
    /\ future = [p \in Procs |-> "none"]
    /\ kill = [p \in Procs |-> "none"]
    /\ os = [p \in Procs |-> "none"]
    /\ rss = [p \in Procs |-> 0] /\ max_memory = [p \in Procs |-> 0]
    /\ expected_memory = Expected0
    /\ overdue = {}

Next ==
    \/ Poll
    \/ \E p \in Procs : \/ shell(p) \/ Cancel(p)
                        \/ Grow(p) \/ Exit(p) \/ OomKill(p) \/ TimeUp(p)

Spec == Init /\ [][Next]_vars

\* The loop reschedules itself after every poll; a prover that can go on does.
FairSpec ==
    /\ Spec
    /\ WF_vars(Poll)
    /\ \A p \in Procs : /\ WF_vars(Grow(p)) /\ WF_vars(Exit(p))
                        /\ WF_vars(OomKill(p)) /\ WF_vars(TimeUp(p))

-----------------------------------------------------------------------------
(* Properties *)

\* Nobody awaits a process the runner has lost: a waiting process is queued or
\* running, in one place, however often it has been preempted and restarted.
NoWaiterForgotten ==
    /\ IsInjective(pending \o running)
    /\ \A p \in Procs :
         future[p] = "waiting" => p \in ToSet(pending \o running)

\* No prover outlives the runner's interest: a live subprocess is one the
\* runner polls, so preemption, timeout and completion leave no orphan.
NoOrphan == \A p \in Procs : os[p] = "alive" => p \in ToSet(running)

\* The runner's two lists account for every caller and every subprocess.
NoneLost == TypeOK /\ NoWaiterForgotten /\ NoOrphan

\* Preemption never takes the oldest running process, so there is always one
\* whose work is not thrown away.
OldestKeepsRunning ==
    [][running # <<>> =>
         LET p == Head(running)
         IN  \/ p \in ToSet(running') /\ max_memory'[p] >= max_memory[p]
             \/ os'[p] = "killed" /\ p \notin ToSet(pending')]_vars

\* The memory a machine must offer for a process to be (re)started at all.
Fits(p) ==
    LET room == IF args.max_mem = 0 THEN TotalMem ELSE Min({TotalMem, args.max_mem})
    IN  Max({Need[p], Expected0[p]}) + GLOBAL_MEMORY_BUFFER < room

\* Whatever is preempted, killed for memory or timed out on the way, every
\* process anyone waits for is answered, if all of them fit in memory and each
\* either reads its output pipe empty or has a timeout.
EveryShellAnswered ==
    \A p \in Procs :
        ((\A q \in Procs : Fits(q)) /\ Chatty \subseteq Timed /\ future[p] = "waiting")
            ~> (future[p] # "waiting")

\* Cancelling a future kills its process (ProcessFuture): queued, running or
\* just started, it is dead after the next poll, as long as the runner does not
\* preempt (--no-kill); a preemption in between forgets the request.  Whenever
\* it ends, a cancelled future stays cancelled and a result is set only once.
CancelRespected ==
    [][\A p \in Procs :
         /\ future[p] \in Results \cup {"cancelled"} => future'[p] = future[p]
         /\ (Poll /\ args.no_kill /\ future[p] = "cancelled") =>
               os'[p] # "alive" /\ p \notin ToSet(running')]_vars
=============================================================================
